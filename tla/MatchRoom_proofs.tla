-------------------------- MODULE MatchRoom_proofs --------------------------
(***************************************************************************)
(* Proofs about MatchRoom for every set of players, rooms and maps and     *)
(* every team size, and about MatchRoomLegacy for every order of seats.    *)
(***************************************************************************)
EXTENDS MatchRoomLegacy, FiniteSetTheorems, TLAPS

(***************************************************************************)
(* TypeOK is not inductive by itself: the side a pick gives is the picker's *)
(* own, so while a draft is open its picker has to be a captain with a side. *)
(***************************************************************************)
PickerSided ==
    \A r \in Rooms : draft[r].phase = "OPEN" =>
        /\ \A s \in Sides : Captain(r, s) \in Players /\ side[r][Captain(r, s)] \in Sides
        /\ draft[r].picker \in Captains(r)

TypeInv == TypeOK /\ PickerSided

DraftTypeOK ==
    /\ draft    \in [Rooms -> DraftRows]
    /\ side     \in [Rooms -> [Players -> SideOrNone]]
    /\ pickedAt \in [Rooms -> [Players -> Nat]]

VetoTypeOK ==
    /\ veto     \in [Rooms -> VetoRows]
    /\ bannedAt \in [Rooms -> [Maps -> Nat]]
    /\ bannedBy \in [Rooms -> [Maps -> PlayerOrNull]]

(* A draft that opens has two captains, one on each side. *)
LEMMA InitializeDraftTyped ==
    ASSUME TypeInv, NEW r \in Rooms, InitializeDraft(r), UNCHANGED pickedAt
    PROVE  DraftTypeOK' /\ PickerSided'
<1> DEFINE row(a, b, first) ==
        [phase |-> "OPEN", captain |-> [s \in Sides |-> IF s = "A" THEN a ELSE b],
         first |-> first, picker |-> first, order |-> 1, deadline |-> "RUNNING"]
           sides(a, b) == [side[r] EXCEPT ![a] = "A", ![b] = "B"]
<1>1. PICK a \in members[r], b \in members[r], first \in Players :
        /\ a # b
        /\ first \in {a, b}
        /\ draft' = [draft EXCEPT ![r] = row(a, b, first)]
        /\ side'  = [side EXCEPT ![r] = sides(a, b)]
    BY DEF InitializeDraft, TypeInv, TypeOK
<1>2. a \in Players /\ b \in Players /\ first \in Players
    BY <1>1 DEF TypeInv, TypeOK
<1>3. row(a, b, first) \in DraftRows
    BY <1>2 DEF DraftRows, PlayerOrNull, Deadlines, Phases
<1>4. sides(a, b) \in [Players -> SideOrNone]
    BY <1>2 DEF TypeInv, TypeOK, SideOrNone, Sides
<1>5. DraftTypeOK'
    BY <1>1, <1>3, <1>4 DEF TypeInv, TypeOK, DraftTypeOK
<1>6. ASSUME NEW q \in Rooms, (draft[q].phase = "OPEN")'
      PROVE  (/\ \A s \in Sides : Captain(q, s) \in Players /\ side[q][Captain(q, s)] \in Sides
              /\ draft[q].picker \in Captains(q))'
    <2>1. CASE q = r
        <3>1. draft'[r] = row(a, b, first) /\ side'[r] = sides(a, b)
            BY <1>1 DEF TypeInv, TypeOK
        <3>2. sides(a, b)[a] = "A" /\ sides(a, b)[b] = "B"
            BY <1>1, <1>2 DEF TypeInv, TypeOK
        <3>3. draft'[r].captain["A"] = a /\ draft'[r].captain["B"] = b /\ draft'[r].picker = first
            BY <3>1 DEF Sides
        <3>4. QED
            BY <1>1, <1>2, <2>1, <3>1, <3>2, <3>3 DEF Captain, Captains, Sides
    <2>2. CASE q # r
        <3>1. draft'[q] = draft[q] /\ side'[q] = side[q]
            BY <1>1, <2>2 DEF TypeInv, TypeOK
        <3>2. QED
            BY <1>6, <3>1 DEF TypeInv, PickerSided, Captain, Captains
    <2>3. QED
        BY <2>1, <2>2
<1>7. QED
    BY <1>5, <1>6 DEF PickerSided

(* A veto that opens names one of the captains. *)
LEMMA InitializeMapVetoTyped ==
    ASSUME TypeOK, NEW r \in Rooms, InitializeMapVeto(r), UNCHANGED <<bannedAt, bannedBy>>
    PROVE  VetoTypeOK'
<1> DEFINE row(first) == [phase |-> "OPEN", first |-> first, vetoer |-> first,
                          order |-> 1, deadline |-> "RUNNING", selected |-> NoMap]
<1>1. PICK first \in Captains(r) : veto' = [veto EXCEPT ![r] = row(first)]
    BY DEF InitializeMapVeto
<1>2. first \in PlayerOrNull
    BY DEF TypeOK, DraftRows, Captains, Captain, Sides
<1>3. row(first) \in VetoRows
    BY <1>2 DEF VetoRows, PlayerOrNull, MapOrNull, Deadlines, Phases
<1>4. QED
    BY <1>1, <1>3 DEF TypeOK, VetoTypeOK

(* A pick, by hand or by timeout, puts players on a side, and hands the turn *)
(* to a captain or closes the draft.                                         *)
LEMMA PickTyped ==
    ASSUME TypeInv, NEW r \in Rooms, draft[r].phase = "OPEN",
           NEW p \in Unassigned(r), Pick(r, p), UNCHANGED <<bannedAt, bannedBy>>
    PROVE  DraftTypeOK' /\ VetoTypeOK' /\ PickerSided'
<1>1. p \in Players /\ side[r][p] = NoSide
    BY DEF TypeInv, TypeOK, Unassigned
<1>2. PickerSide(r) \in Sides
    BY DEF TypeInv, PickerSided, PickerSide, Captains, Captain, Sides
<1>3. LastSide(r) \in Sides /\ LastPick \in Nat
    BY TeamAssumption DEF LastSide, Sides, LastPick, Capacity
<1>4. OtherCaptain(r, draft[r].picker) \in Captains(r)
    BY DEF OtherCaptain, Captains
<1>5. Captains(r) \subseteq Players /\ \A c \in Captains(r) : side[r][c] \in Sides
    BY DEF TypeInv, PickerSided, Captains, Captain, Sides
<1>6. ASSUME draft'    = [draft EXCEPT ![r] = DraftTurnPassed(r)],
             side'     = [side EXCEPT ![r][p] = PickerSide(r)],
             pickedAt' = [pickedAt EXCEPT ![r][p] = draft[r].order],
             UNCHANGED veto
      PROVE  DraftTypeOK' /\ VetoTypeOK' /\ PickerSided'
    <2>1. draft[r] \in DraftRows
        BY DEF TypeInv, TypeOK
    <2>2. DraftTurnPassed(r) \in DraftRows
        <3> DEFINE picker == OtherCaptain(r, draft[r].picker)
                   order  == draft[r].order + 1
        <3>1. picker \in PlayerOrNull /\ order \in Nat
            BY <1>4, <1>5, <2>1 DEF DraftRows, PlayerOrNull
        <3> HIDE DEF picker, order
        <3>2. [draft[r] EXCEPT !.picker = picker, !.order = order, !.deadline = "RUNNING"] \in DraftRows
            BY <2>1, <3>1 DEF DraftRows, Deadlines
        <3>3. QED
            BY <3>2 DEF DraftTurnPassed, picker, order
    <2>3. DraftTypeOK' /\ VetoTypeOK'
        <3>1. draft' \in [Rooms -> DraftRows]
            BY <1>6, <2>2 DEF TypeInv, TypeOK
        <3>2. side' \in [Rooms -> [Players -> SideOrNone]]
            BY <1>1, <1>2, <1>6 DEF TypeInv, TypeOK, SideOrNone
        <3>3. draft[r].order \in Nat
            BY <2>1 DEF DraftRows
        <3>4. pickedAt' \in [Rooms -> [Players -> Nat]]
            BY <1>1, <1>6, <3>3 DEF TypeInv, TypeOK
        <3>5. QED
            BY <1>6, <3>1, <3>2, <3>4 DEF TypeInv, TypeOK, DraftTypeOK, VetoTypeOK
    <2>4. /\ DraftTurnPassed(r).captain = draft[r].captain
          /\ DraftTurnPassed(r).picker = OtherCaptain(r, draft[r].picker)
        BY <2>1 DEF DraftTurnPassed, DraftRows
    <2>5. \A c \in Players : side'[r][c] = side[r][c] \/ side'[r][c] \in Sides
        BY <1>1, <1>2, <1>6 DEF TypeInv, TypeOK
    <2>6. \A q \in Rooms : q # r => draft'[q] = draft[q] /\ side'[q] = side[q]
        BY <1>6 DEF TypeInv, TypeOK
    <2>7. draft'[r] = DraftTurnPassed(r)
        BY <1>6 DEF TypeInv, TypeOK
    <2>8. ASSUME NEW q \in Rooms, (draft[q].phase = "OPEN")'
          PROVE  (/\ \A s \in Sides : Captain(q, s) \in Players /\ side[q][Captain(q, s)] \in Sides
                  /\ draft[q].picker \in Captains(q))'
        <3>1. CASE q = r
            BY <1>4, <1>5, <2>4, <2>5, <2>7, <3>1 DEF Captains, Captain, Sides
        <3>2. CASE q # r
            BY <2>6, <2>8, <3>2 DEF TypeInv, PickerSided, Captain, Captains
        <3>3. QED
            BY <3>1, <3>2
    <2>9. QED
        BY <2>3, <2>8 DEF PickerSided
<1>7. ASSUME NEW last \in Players,
             side'     = [side EXCEPT ![r] = [@ EXCEPT ![p] = PickerSide(r), ![last] = LastSide(r)]],
             pickedAt' = [pickedAt EXCEPT ![r] = [@ EXCEPT ![p] = draft[r].order, ![last] = LastPick]],
             draft'    = [draft EXCEPT ![r] = ClosedDraft(r)],
             InitializeMapVeto(r)
      PROVE  DraftTypeOK' /\ VetoTypeOK' /\ PickerSided'
    <2>1. VetoTypeOK'
        BY <1>7, InitializeMapVetoTyped DEF TypeInv
    <2>2. draft[r] \in DraftRows
        BY DEF TypeInv, TypeOK
    <2>3. ClosedDraft(r) \in DraftRows /\ ClosedDraft(r).phase = "DONE"
        BY <2>2 DEF ClosedDraft, DraftRows, PlayerOrNull, Deadlines, Phases
    <2>4. [side[r] EXCEPT ![p] = PickerSide(r), ![last] = LastSide(r)] \in [Players -> SideOrNone]
        BY <1>1, <1>2, <1>3 DEF TypeInv, TypeOK, SideOrNone
    <2>5. [pickedAt[r] EXCEPT ![p] = draft[r].order, ![last] = LastPick] \in [Players -> Nat]
        BY <1>1, <1>3, <2>2 DEF TypeInv, TypeOK, DraftRows
    <2>6. DraftTypeOK'
        BY <1>7, <2>3, <2>4, <2>5 DEF TypeInv, TypeOK, DraftTypeOK
    <2>7. \A q \in Rooms : (draft[q].phase = "OPEN")' =>
              q # r /\ draft'[q] = draft[q] /\ side'[q] = side[q]
        BY <1>7, <2>3 DEF TypeInv, TypeOK
    <2>8. PickerSided'
        BY <2>7 DEF TypeInv, PickerSided, Captain, Captains
    <2>9. QED
        BY <2>1, <2>6, <2>8
<1>8. QED
    BY <1>6, <1>7 DEF Pick

(* The match that is made carries the map given and the sides drafted. *)
LEMMA MaterializeTyped ==
    ASSUME TypeOK, NEW r \in Rooms, NEW map \in MapOrNull, MaterializeCompetitiveMatch(r, map)
    PROVE  /\ status' \in [Rooms -> Statuses]
           /\ match'  \in [Rooms -> MatchRows]
    BY DEF TypeOK, MaterializeCompetitiveMatch, Statuses, MatchRows

(* A ban, by hand or by timeout. *)
LEMMA BanTyped ==
    ASSUME TypeOK, NEW r \in Rooms, NEW m \in Maps, Ban(r, m)
    PROVE  /\ VetoTypeOK'
           /\ status' \in [Rooms -> Statuses]
           /\ match'  \in [Rooms -> MatchRows]
<1>1. veto[r] \in VetoRows
    BY DEF TypeOK
<1>2. /\ bannedAt' \in [Rooms -> [Maps -> Nat]]
      /\ bannedBy' \in [Rooms -> [Maps -> PlayerOrNull]]
    BY <1>1 DEF Ban, TypeOK, VetoRows
<1>3. CASE veto' = [veto EXCEPT ![r] = VetoTurnPassed(r)] /\ UNCHANGED <<status, match>>
    <2>1. OtherCaptain(r, veto[r].vetoer) \in PlayerOrNull
        BY DEF TypeOK, DraftRows, OtherCaptain, Captain, Sides
    <2>2. VetoTurnPassed(r) \in VetoRows
        <3> DEFINE vetoer == OtherCaptain(r, veto[r].vetoer)
                   order  == veto[r].order + 1
        <3>1. vetoer \in PlayerOrNull /\ order \in Nat
            BY <1>1, <2>1 DEF VetoRows
        <3> HIDE DEF vetoer, order
        <3>2. [veto[r] EXCEPT !.vetoer = vetoer, !.order = order, !.deadline = "RUNNING"] \in VetoRows
            BY <1>1, <3>1 DEF VetoRows, Deadlines
        <3>3. QED
            BY <3>2 DEF VetoTurnPassed, vetoer, order
    <2>3. QED
        BY <1>2, <1>3, <2>2 DEF TypeOK, VetoTypeOK
<1>4. ASSUME NEW last \in Unbanned(r) \ {m},
             veto' = [veto EXCEPT ![r] = ClosedVeto(r, last)],
             MaterializeCompetitiveMatch(r, last)
      PROVE  /\ VetoTypeOK'
             /\ status' \in [Rooms -> Statuses]
             /\ match'  \in [Rooms -> MatchRows]
    <2>1. last \in MapOrNull
        BY DEF Unbanned, MapOrNull
    <2>2. ClosedVeto(r, last) \in VetoRows
        BY <1>1, <2>1 DEF ClosedVeto, VetoRows, Deadlines, Phases, PlayerOrNull
    <2>3. VetoTypeOK'
        BY <1>2, <1>4, <2>2 DEF TypeOK, VetoTypeOK
    <2>4. QED
        BY <1>4, <2>1, <2>3, MaterializeTyped
<1>5. QED
    BY <1>3, <1>4 DEF Ban

LEMMA TypeInvInit == Init => TypeInv
<1> SUFFICES ASSUME Init
             PROVE  TypeInv
    OBVIOUS
<1>1. NoDraft \in DraftRows /\ NoDraft.phase = "NONE"
    BY DEF NoDraft, DraftRows, Phases, PlayerOrNull, Deadlines
<1>2. NoVeto \in VetoRows /\ NoMatch \in MatchRows
    BY DEF NoVeto, NoMatch, VetoRows, MatchRows, Phases, PlayerOrNull, MapOrNull,
           Deadlines, SideOrNone
<1>3. TypeOK
    BY <1>1, <1>2, BoundsAssumption
       DEF Init, TypeOK, Statuses, PlayerOrNull, Deadlines, SideOrNone
<1>4. PickerSided
    BY <1>1 DEF Init, PickerSided
<1>5. QED
    BY <1>3, <1>4 DEF TypeInv

(* Steps that leave the draft alone keep PickerSided. *)
LEMMA TypeInvFrame ==
    ASSUME TypeInv, TypeOK', UNCHANGED <<draft, side>>
    PROVE  TypeInv'
BY DEF TypeInv, PickerSided, Captain, Captains

LEMMA TypeInvStep == TypeInv /\ [Next]_vars => TypeInv'
<1> SUFFICES ASSUME TypeInv, [Next]_vars
             PROVE  TypeInv'
    OBVIOUS
<1> USE DEF TypeInv
<1>1. ASSUME NEW r \in Rooms, NEW p \in Players, Create(r, p)
      PROVE  TypeInv'
    <2>1. TypeOK'
        <3>1. members' \in [Rooms -> SUBSET Players] /\ confirmed' \in [Rooms -> [Players -> 0..MaxRound]]
            BY <1>1, BoundsAssumption DEF Create, Seat, TypeOK
        <3>2. status' \in [Rooms -> Statuses] /\ creator' \in [Rooms -> PlayerOrNull]
            BY <1>1 DEF Create, TypeOK, Statuses, PlayerOrNull
        <3>3. QED
            BY <1>1, <3>1, <3>2 DEF Create, TypeOK, draftVars, vetoVars, envVars
    <2>2. QED
        BY <1>1, <2>1, TypeInvFrame DEF Create, draftVars
<1>2. ASSUME NEW r \in Rooms, NEW p \in Players, Join(r, p)
      PROVE  TypeInv'
    <2>1. TypeOK'
        <3>1. members' \in [Rooms -> SUBSET Players] /\ confirmed' \in [Rooms -> [Players -> 0..MaxRound]]
            BY <1>2, BoundsAssumption DEF Join, Seat, TypeOK
        <3>2. window' \in [Rooms -> Deadlines] /\ round' \in [Rooms -> 0..MaxRound]
            <4>1. window' \in [Rooms -> Deadlines]
                BY <1>2 DEF Join, TypeOK, Deadlines
            <4>2. round[r] < MaxRound => round[r] + 1 \in 0..MaxRound
                BY BoundsAssumption DEF TypeOK
            <4>3. \/ round' = round
                  \/ round[r] < MaxRound /\ round' = [round EXCEPT ![r] = round[r] + 1]
                BY <1>2 DEF Join
            <4>4. round' \in [Rooms -> 0..MaxRound]
                <5> DEFINE next == round[r] + 1
                <5> HIDE DEF next
                <5>1. next \in 0..MaxRound => [round EXCEPT ![r] = next] \in [Rooms -> 0..MaxRound]
                    BY DEF TypeOK
                <5>2. QED
                    BY <4>2, <4>3, <5>1 DEF next, TypeOK
            <4>5. QED
                BY <4>1, <4>4
        <3>3. status' \in [Rooms -> Statuses]
            BY <1>2 DEF Join, TypeOK, Statuses
        <3>4. QED
            BY <1>2, <3>1, <3>2, <3>3 DEF Join, TypeOK, draftVars, vetoVars, envVars
    <2>2. QED
        BY <1>2, <2>1, TypeInvFrame DEF Join, draftVars
<1>3. ASSUME NEW r \in Rooms, NEW p \in Players, Leave(r, p)
      PROVE  TypeInv'
    <2>1. TypeOK'
        BY <1>3 DEF Leave, TypeOK, roundVars, draftVars, vetoVars, envVars
    <2>2. QED
        BY <1>3, <2>1, TypeInvFrame DEF Leave, draftVars
<1>4. ASSUME NEW r \in Rooms, NEW p \in Players, Cancel(r, p)
      PROVE  TypeInv'
    <2>1. TypeOK'
        BY <1>4 DEF Cancel, TypeOK, Statuses, Deadlines, draftVars, vetoVars, envVars
    <2>2. QED
        BY <1>4, <2>1, TypeInvFrame DEF Cancel, draftVars
<1>5. ASSUME NEW r \in Rooms, NEW p \in Players, Confirm(r, p)
      PROVE  TypeInv'
    <2>1. confirmed' \in [Rooms -> [Players -> 0..MaxRound]]
        BY <1>5 DEF Confirm, TypeOK
    <2>2. CASE UNCHANGED <<status, window, draft, side>>
        <3>1. TypeOK'
            BY <1>5, <2>1, <2>2 DEF Confirm, TypeOK, vetoVars, envVars
        <3>2. QED
            BY <2>2, <3>1, TypeInvFrame
    <2>3. CASE /\ status' = [status EXCEPT ![r] = "SETUP"]
               /\ window' = [window EXCEPT ![r] = "NULL"]
               /\ InitializeDraft(r)
        <3>1. DraftTypeOK' /\ PickerSided'
            BY <1>5, <2>3, InitializeDraftTyped DEF Confirm
        <3>2. status' \in [Rooms -> Statuses] /\ window' \in [Rooms -> Deadlines]
            BY <2>3 DEF TypeOK, Statuses, Deadlines
        <3>3. QED
            BY <1>5, <2>1, <3>1, <3>2 DEF Confirm, TypeOK, DraftTypeOK, vetoVars, envVars
    <2>4. QED
        BY <1>5, <2>2, <2>3 DEF Confirm
<1>6. ASSUME NEW r \in Rooms, ReconcileConfirmation(r)
      PROVE  TypeInv'
    <2>1. TypeOK'
        <3>1. members' \in [Rooms -> SUBSET Players]
            <4> DEFINE stay == {p \in members[r] : confirmed[r][p] = round[r]}
            <4>1. stay \in SUBSET Players /\ {} \in SUBSET Players
                BY DEF TypeOK
            <4>2. members' = [members EXCEPT ![r] = {}] \/ members' = [members EXCEPT ![r] = stay]
                BY <1>6 DEF ReconcileConfirmation
            <4> HIDE DEF stay
            <4>3. QED
                BY <4>1, <4>2 DEF TypeOK
        <3>2. status' \in [Rooms -> Statuses] /\ window' \in [Rooms -> Deadlines]
            BY <1>6 DEF ReconcileConfirmation, TypeOK, Statuses, Deadlines
        <3>3. QED
            BY <1>6, <3>1, <3>2 DEF ReconcileConfirmation, TypeOK, draftVars, vetoVars, envVars
    <2>2. QED
        BY <1>6, <2>1, TypeInvFrame DEF ReconcileConfirmation, draftVars
<1>7. ASSUME NEW r \in Rooms, NEW p \in Unassigned(r), draft[r].phase = "OPEN", Pick(r, p),
             UNCHANGED <<roomVars, roundVars, bannedAt, bannedBy, match, envVars>>
      PROVE  TypeInv'
    <2>1. DraftTypeOK' /\ VetoTypeOK' /\ PickerSided'
        BY <1>7, PickTyped
    <2>2. QED
        BY <1>7, <2>1 DEF TypeOK, DraftTypeOK, VetoTypeOK, roomVars, roundVars, envVars
<1>8. ASSUME NEW r \in Rooms, NEW viewer \in Players, NEW p \in Players, DraftPick(r, viewer, p)
      PROVE  TypeInv'
    BY <1>7, <1>8 DEF DraftPick, DraftOpen
<1>9. ASSUME NEW r \in Rooms, ReconcileDraft(r)
      PROVE  TypeInv'
    <2>1. CASE \E p \in Unassigned(r) : Pick(r, p)
        BY <1>7, <1>9, <2>1 DEF ReconcileDraft, DraftOpen
    <2>2. CASE /\ draft' = [draft EXCEPT ![r] = ClosedDraft(r)]
               /\ InitializeMapVeto(r)
               /\ UNCHANGED <<side, pickedAt>>
        <3>1. VetoTypeOK'
            BY <1>9, <2>2, InitializeMapVetoTyped DEF ReconcileDraft
        <3>2. ClosedDraft(r) \in DraftRows /\ ClosedDraft(r).phase = "DONE"
            <4>1. draft[r] \in DraftRows
                BY DEF TypeOK
            <4>2. QED
                BY <4>1 DEF ClosedDraft, DraftRows, PlayerOrNull, Deadlines, Phases
        <3>3. TypeOK'
            BY <1>9, <2>2, <3>1, <3>2
               DEF ReconcileDraft, TypeOK, VetoTypeOK, roomVars, roundVars, envVars
        <3>4. \A q \in Rooms : (draft[q].phase = "OPEN")' => draft'[q] = draft[q] /\ side'[q] = side[q]
            BY <2>2, <3>2 DEF TypeOK
        <3>5. QED
            BY <3>3, <3>4 DEF PickerSided, Captain, Captains
    <2>3. QED
        BY <1>9, <2>1, <2>2 DEF ReconcileDraft
<1>10. ASSUME NEW r \in Rooms, RecoverVeto(r)
       PROVE  TypeInv'
    <2>1. VetoTypeOK'
        BY <1>10, InitializeMapVetoTyped DEF RecoverVeto
    <2>2. TypeOK'
        BY <1>10, <2>1 DEF RecoverVeto, TypeOK, VetoTypeOK, roomVars, roundVars, draftVars, envVars
    <2>3. QED
        BY <1>10, <2>2, TypeInvFrame DEF RecoverVeto, draftVars
<1>11. ASSUME NEW r \in Rooms, NEW m \in Unbanned(r), Ban(r, m),
              UNCHANGED <<creator, members, roundVars, draftVars, envVars>>
       PROVE  TypeInv'
    <2>1. VetoTypeOK' /\ status' \in [Rooms -> Statuses] /\ match' \in [Rooms -> MatchRows]
        BY <1>11, BanTyped DEF Unbanned
    <2>2. TypeOK'
        BY <1>11, <2>1 DEF TypeOK, VetoTypeOK, roundVars, draftVars, envVars
    <2>3. QED
        BY <1>11, <2>2, TypeInvFrame DEF draftVars
<1>12. ASSUME NEW r \in Rooms, NEW viewer \in Players, NEW m \in Maps, MapVetoBan(r, viewer, m)
       PROVE  TypeInv'
    BY <1>11, <1>12 DEF MapVetoBan
<1>13. ASSUME NEW r \in Rooms, ReconcileVeto(r)
       PROVE  TypeInv'
    BY <1>11, <1>13 DEF ReconcileVeto
<1>14. ASSUME NEW r \in Rooms, CompleteSetup(r)
       PROVE  TypeInv'
    <2>1. status' \in [Rooms -> Statuses] /\ match' \in [Rooms -> MatchRows]
        <3>1. CASE HasMatch(r)
            BY <1>14, <3>1 DEF CompleteSetup, TypeOK, Statuses
        <3>2. CASE ~HasMatch(r)
            <4>1. veto[r].selected \in MapOrNull
                BY DEF TypeOK, VetoRows
            <4>2. QED
                BY <1>14, <3>2, <4>1, MaterializeTyped DEF CompleteSetup
        <3>3. QED
            BY <3>1, <3>2
    <2>2. TypeOK'
        BY <1>14, <2>1 DEF CompleteSetup, TypeOK, roundVars, draftVars, vetoVars, envVars
    <2>3. QED
        BY <1>14, <2>2, TypeInvFrame DEF CompleteSetup, draftVars
<1>15. ASSUME NEW r \in Rooms, Allocate(r) \/ Finalize(r) \/ SeriesEnd(r)
       PROVE  TypeInv'
    <2>1. TypeOK'
        BY <1>15 DEF Allocate, Finalize, SeriesEnd, TypeOK, Statuses,
                     roundVars, draftVars, vetoVars, envVars
    <2>2. QED
        BY <1>15, <2>1, TypeInvFrame DEF Allocate, Finalize, SeriesEnd, draftVars
<1>16. ASSUME NEW r \in Rooms, Elapse(r)
       PROVE  TypeInv'
    <2> DEFINE late  == [draft[r] EXCEPT !.deadline = "ELAPSED"]
               later == [veto[r] EXCEPT !.deadline = "ELAPSED"]
    <2>1. /\ window' = window \/ window' = [window EXCEPT ![r] = "ELAPSED"]
          /\ draft'  = draft  \/ draft'  = [draft EXCEPT ![r] = late]
          /\ veto'   = veto   \/ veto'   = [veto EXCEPT ![r] = later]
        BY <1>16 DEF Elapse
    <2>2. draft[r] \in DraftRows /\ veto[r] \in VetoRows
        BY DEF TypeOK
    <2>3. late \in DraftRows /\ later \in VetoRows
        BY <2>2 DEF DraftRows, VetoRows, Deadlines
    <2>4. /\ late.phase = draft[r].phase
          /\ late.captain = draft[r].captain
          /\ late.picker = draft[r].picker
        BY <2>2 DEF DraftRows
    <2> HIDE DEF late, later
    <2>5. TypeOK'
        <3>1. window' \in [Rooms -> Deadlines]
            BY <2>1 DEF TypeOK, Deadlines
        <3>2. draft' \in [Rooms -> DraftRows] /\ veto' \in [Rooms -> VetoRows]
            <4>1. draft \in [Rooms -> DraftRows] /\ veto \in [Rooms -> VetoRows]
                BY DEF TypeOK
            <4>2. draft' \in [Rooms -> DraftRows]
                BY <2>1, <2>3, <4>1
            <4>3. veto' \in [Rooms -> VetoRows]
                BY <2>1, <2>3, <4>1
            <4>4. QED
                BY <4>2, <4>3
        <3>3. QED
            BY <1>16, <3>1, <3>2 DEF Elapse, TypeOK, roomVars, envVars
    <2>6. \A q \in Rooms : /\ draft'[q].phase = draft[q].phase
                           /\ draft'[q].captain = draft[q].captain
                           /\ draft'[q].picker = draft[q].picker
        BY <2>1, <2>4 DEF TypeOK
    <2>7. side' = side
        BY <1>16 DEF Elapse
    <2>8. QED
        BY <2>5, <2>6, <2>7 DEF PickerSided, Captain, Captains
<1>17. ASSUME NEW p \in Players, ChangeEligibility(p) \/ RefreshSteamProfile(p)
       PROVE  TypeInv'
    <2>1. TypeOK'
        BY <1>17 DEF ChangeEligibility, RefreshSteamProfile, TypeOK,
                     roomVars, roundVars, draftVars, vetoVars
    <2>2. QED
        BY <1>17, <2>1, TypeInvFrame DEF ChangeEligibility, RefreshSteamProfile, draftVars
<1>18. CASE UNCHANGED vars
    BY <1>18, TypeInvFrame DEF vars, roomVars, roundVars, draftVars, vetoVars, envVars, TypeOK
<1>19. QED
    BY <1>1, <1>2, <1>3, <1>4, <1>5, <1>6, <1>8, <1>9, <1>10, <1>12, <1>13, <1>14, <1>15,
       <1>16, <1>17, <1>18 DEF Next, ReconcileRoom

(* Every column keeps to its type, in every reachable state. *)
THEOREM TypeCorrect == Spec => []TypeOK
<1>1. Init => TypeInv
    BY TypeInvInit
<1>2. TypeInv /\ [Next]_vars => TypeInv'
    BY TypeInvStep
<1>3. TypeInv => TypeOK
    BY DEF TypeInv
<1>4. QED
    BY <1>1, <1>2, <1>3, PTL DEF Spec

-----------------------------------------------------------------------------
(* A step leaves every room's seats alone, or gives some of one room's seats *)
(* up, or gives one room a player who had no seat anywhere.                  *)
SeatMove ==
    \/ members' = members
    \/ \E r \in Rooms : \E S \in SUBSET members[r] : members' = [members EXCEPT ![r] = S]
    \/ \E r \in Rooms, p \in Players :
          ~Seated(p) /\ members' = [members EXCEPT ![r] = members[r] \cup {p}]

LEMMA SeatMoves ==
    ASSUME TypeOK, [Next]_vars
    PROVE  SeatMove
<1>1. ASSUME NEW r \in Rooms, NEW p \in Players, Create(r, p) \/ Join(r, p)
      PROVE  SeatMove
    BY <1>1 DEF Create, Join, Seat, SeatMove
<1>2. ASSUME NEW r \in Rooms, NEW p \in Players, Leave(r, p)
      PROVE  SeatMove
    <2>1. members[r] \ {p} \in SUBSET members[r] /\ members' = [members EXCEPT ![r] = members[r] \ {p}]
        BY <1>2 DEF Leave
    <2>2. QED
        BY <2>1 DEF SeatMove
<1>3. ASSUME NEW r \in Rooms, NEW p \in Players, Cancel(r, p)
      PROVE  SeatMove
    <2>1. {} \in SUBSET members[r] /\ members' = [members EXCEPT ![r] = {}]
        BY <1>3 DEF Cancel
    <2>2. QED
        BY <2>1 DEF SeatMove
<1>4. ASSUME NEW r \in Rooms, ReconcileConfirmation(r)
      PROVE  SeatMove
    <2> DEFINE stay == {p \in members[r] : confirmed[r][p] = round[r]}
    <2>1. stay \in SUBSET members[r] /\ {} \in SUBSET members[r]
        OBVIOUS
    <2>2. members' = [members EXCEPT ![r] = {}] \/ members' = [members EXCEPT ![r] = stay]
        BY <1>4 DEF ReconcileConfirmation
    <2> HIDE DEF stay
    <2>3. QED
        BY <2>1, <2>2 DEF SeatMove
<1>5. ASSUME NEW r \in Rooms, SeriesEnd(r)
      PROVE  SeatMove
    <2>1. {} \in SUBSET members[r] /\ members' = [members EXCEPT ![r] = {}]
        BY <1>5 DEF SeriesEnd
    <2>2. QED
        BY <2>1 DEF SeatMove
<1>6. ASSUME NEW r \in Rooms,
             \/ ReconcileDraft(r) \/ RecoverVeto(r) \/ ReconcileVeto(r) \/ CompleteSetup(r)
             \/ Allocate(r) \/ Finalize(r) \/ Elapse(r)
      PROVE  SeatMove
    BY <1>6 DEF ReconcileDraft, RecoverVeto, ReconcileVeto, CompleteSetup, Allocate, Finalize,
                Elapse, roomVars, SeatMove
<1>7. ASSUME NEW r \in Rooms, NEW p \in Players,
             \/ Confirm(r, p)
             \/ \E target \in Players : DraftPick(r, p, target)
             \/ \E m \in Maps : MapVetoBan(r, p, m)
      PROVE  SeatMove
    BY <1>7 DEF Confirm, DraftPick, MapVetoBan, roomVars, SeatMove
<1>8. ASSUME NEW p \in Players, ChangeEligibility(p) \/ RefreshSteamProfile(p)
      PROVE  SeatMove
    BY <1>8 DEF ChangeEligibility, RefreshSteamProfile, roomVars, SeatMove
<1>9. CASE UNCHANGED vars
    BY <1>9 DEF vars, roomVars, SeatMove
<1>10. QED
    BY <1>1, <1>2, <1>3, <1>4, <1>5, <1>6, <1>7, <1>8, <1>9 DEF Next, ReconcileRoom

(* Nobody sits in two rooms at once, in every reachable state.               *)
THEOREM OneSeat == Spec => []OneActiveRoom
<1>1. Init => OneActiveRoom
    BY DEF Init, OneActiveRoom
<1>2. ASSUME TypeOK, OneActiveRoom, [Next]_vars
      PROVE  OneActiveRoom'
    <2>1. CASE members' = members
        BY <1>2, <2>1 DEF OneActiveRoom
    <2>2. ASSUME NEW r \in Rooms, NEW S \in SUBSET members[r], members' = [members EXCEPT ![r] = S]
          PROVE  OneActiveRoom'
        <3>1. \A q \in Rooms : members'[q] \subseteq members[q]
            BY <1>2, <2>2 DEF TypeOK
        <3>2. QED
            BY <1>2, <3>1 DEF OneActiveRoom
    <2>3. ASSUME NEW r \in Rooms, NEW p \in Players, ~Seated(p),
                 members' = [members EXCEPT ![r] = members[r] \cup {p}]
          PROVE  OneActiveRoom'
        <3>1. members'[r] = members[r] \cup {p}
            BY <1>2, <2>3 DEF TypeOK
        <3>2. \A q \in Rooms : q # r => members'[q] = members[q]
            BY <1>2, <2>3 DEF TypeOK
        <3>3. \A q \in Rooms : p \notin members[q]
            BY <2>3 DEF Seated
        <3>4. QED
            BY <1>2, <3>1, <3>2, <3>3 DEF OneActiveRoom
    <2>4. QED
        BY <1>2, <2>1, <2>2, <2>3, SeatMoves DEF SeatMove
<1>3. QED
    BY <1>1, <1>2, TypeCorrect, PTL DEF Spec

-----------------------------------------------------------------------------
(* Steps that leave seats and confirmations alone, and lock no room. *)
LEMMA ConsentFrame ==
    ASSUME LockedRosterConsented, UNCHANGED <<members, round, confirmed>>,
           \A q \in Rooms : status'[q] \in Locked => status[q] \in Locked
    PROVE  LockedRosterConsented'
BY DEF LockedRosterConsented

(* Who is seated after the roster locked has confirmed the round that locked *)
(* it, in every reachable state.                                             *)
LEMMA ConsentStep ==
    ASSUME TypeOK, LockedRosterConsented, [Next]_vars
    PROVE  LockedRosterConsented'
<1>1. ASSUME NEW r \in Rooms, NEW p \in Players, Create(r, p) \/ Join(r, p)
      PROVE  LockedRosterConsented'
    <2>1. status'[r] \notin Locked
        BY <1>1 DEF Create, Join, TypeOK, Locked, Live
    <2>2. \A q \in Rooms : q # r => /\ status'[q] = status[q] /\ members'[q] = members[q]
                                    /\ confirmed'[q] = confirmed[q] /\ round'[q] = round[q]
        BY <1>1 DEF Create, Join, Seat, TypeOK
    <2>3. QED
        BY <2>1, <2>2 DEF LockedRosterConsented
<1>2. ASSUME NEW r \in Rooms, NEW p \in Players, Leave(r, p) \/ Cancel(r, p)
      PROVE  LockedRosterConsented'
    <2>1. status'[r] \notin Locked
        BY <1>2 DEF Leave, Cancel, TypeOK, Locked, Live
    <2>2. \A q \in Rooms : q # r => /\ status'[q] = status[q] /\ members'[q] = members[q]
                                    /\ confirmed'[q] = confirmed[q] /\ round'[q] = round[q]
        BY <1>2 DEF Leave, Cancel, TypeOK, roundVars
    <2>3. QED
        BY <2>1, <2>2 DEF LockedRosterConsented
<1>3. ASSUME NEW r \in Rooms, NEW p \in Players, Confirm(r, p)
      PROVE  LockedRosterConsented'
    <2>1. /\ round' = round /\ members' = members
          /\ confirmed'[r][p] = round[r]
          /\ \A q \in Players \ {p} : confirmed'[r][q] = confirmed[r][q]
          /\ \A x \in Rooms : x # r => confirmed'[x] = confirmed[x] /\ status'[x] = status[x]
        BY <1>3 DEF Confirm, TypeOK
    <2>2. status'[r] \in Locked => \A q \in members[r] \ {p} : confirmed[r][q] = round[r]
        BY <1>3 DEF Confirm, TypeOK, Locked, Live
    <2>3. members[r] \subseteq Players
        BY DEF TypeOK
    <2>4. ASSUME NEW x \in Rooms, status'[x] \in Locked, NEW q \in members[x]
          PROVE  confirmed'[x][q] = round[x]
        <3>1. CASE x = r
            BY <2>1, <2>2, <2>3, <2>4, <3>1
        <3>2. CASE x # r
            BY <2>1, <2>4, <3>2 DEF LockedRosterConsented
        <3>3. QED
            BY <3>1, <3>2
    <2>5. QED
        BY <2>1, <2>4 DEF LockedRosterConsented
<1>4. ASSUME NEW r \in Rooms, ReconcileConfirmation(r)
      PROVE  LockedRosterConsented'
    <2>1. status'[r] \notin Locked
        BY <1>4 DEF ReconcileConfirmation, TypeOK, Locked, Live
    <2>2. \A q \in Rooms : q # r => /\ status'[q] = status[q] /\ members'[q] = members[q]
                                    /\ confirmed'[q] = confirmed[q] /\ round'[q] = round[q]
        BY <1>4 DEF ReconcileConfirmation, TypeOK
    <2>3. QED
        BY <2>1, <2>2 DEF LockedRosterConsented
<1>5. ASSUME NEW r \in Rooms, SeriesEnd(r)
      PROVE  LockedRosterConsented'
    <2>1. status'[r] \notin Locked
        BY <1>5 DEF SeriesEnd, TypeOK, Locked, Live
    <2>2. \A q \in Rooms : q # r => /\ status'[q] = status[q] /\ members'[q] = members[q]
                                    /\ confirmed'[q] = confirmed[q] /\ round'[q] = round[q]
        BY <1>5 DEF SeriesEnd, TypeOK, roundVars
    <2>3. QED
        BY <2>1, <2>2 DEF LockedRosterConsented
<1>6. ASSUME NEW r \in Rooms, NEW m \in Maps, Ban(r, m), status[r] = "SETUP",
             UNCHANGED <<members, roundVars>>
      PROVE  LockedRosterConsented'
    <2>1. \A q \in Rooms : status'[q] \in Locked => status[q] \in Locked
        BY <1>6 DEF Ban, MaterializeCompetitiveMatch, TypeOK, Locked
    <2>2. QED
        BY <1>6, <2>1, ConsentFrame DEF roundVars
<1>7. ASSUME NEW r \in Rooms, ReconcileVeto(r)
      PROVE  LockedRosterConsented'
    BY <1>6, <1>7 DEF ReconcileVeto, VetoOpen, Unbanned
<1>8. ASSUME NEW r \in Rooms, NEW p \in Players, NEW m \in Maps, MapVetoBan(r, p, m)
      PROVE  LockedRosterConsented'
    BY <1>6, <1>8 DEF MapVetoBan, VetoOpen
<1>9. ASSUME NEW r \in Rooms, CompleteSetup(r) \/ Allocate(r) \/ Finalize(r)
      PROVE  LockedRosterConsented'
    <2>1. \A q \in Rooms : status'[q] \in Locked => status[q] \in Locked
        BY <1>9 DEF CompleteSetup, MaterializeCompetitiveMatch, Allocate, Finalize, TypeOK, Locked, Live
    <2>2. QED
        BY <1>9, <2>1, ConsentFrame DEF CompleteSetup, Allocate, Finalize, roundVars
<1>10. ASSUME NEW r \in Rooms, ReconcileDraft(r) \/ RecoverVeto(r) \/ Elapse(r)
       PROVE  LockedRosterConsented'
    BY <1>10, ConsentFrame DEF ReconcileDraft, RecoverVeto, Elapse, roomVars, roundVars
<1>11. ASSUME NEW r \in Rooms, NEW p \in Players, NEW target \in Players, DraftPick(r, p, target)
       PROVE  LockedRosterConsented'
    BY <1>11, ConsentFrame DEF DraftPick, roomVars, roundVars
<1>12. ASSUME NEW p \in Players, ChangeEligibility(p) \/ RefreshSteamProfile(p)
       PROVE  LockedRosterConsented'
    BY <1>12, ConsentFrame DEF ChangeEligibility, RefreshSteamProfile, roomVars, roundVars
<1>13. CASE UNCHANGED vars
    BY <1>13, ConsentFrame DEF vars, roomVars, roundVars
<1>14. QED
    BY <1>1, <1>2, <1>3, <1>4, <1>5, <1>7, <1>8, <1>9, <1>10, <1>11, <1>12, <1>13
       DEF Next, ReconcileRoom

(* A locked roster consists of players who confirmed the round that locked   *)
(* it, in every reachable state.                                             *)
THEOREM Consent == Spec => []LockedRosterConsented
<1>1. Init => LockedRosterConsented
    BY DEF Init, LockedRosterConsented, Locked, Live
<1>2. TypeOK /\ LockedRosterConsented /\ [Next]_vars => LockedRosterConsented'
    BY ConsentStep
<1>3. QED
    BY <1>1, <1>2, TypeCorrect, PTL DEF Spec

-----------------------------------------------------------------------------
(* Why a match is never made twice: while a room can still get one it has    *)
(* none.                                                                     *)
NoEarlyMatch ==
    \A r \in Rooms :
        status[r] \in Gathering \cup {"SETUP", "CANCELLED", "NONE"} => ~HasMatch(r)

FrozenStep ==
    \A r \in Rooms :
        /\ status[r] \in Locked => members'[r] = members[r] \/ status'[r] \in Final
        /\ HasMatch(r) => match'[r] = match[r]

(* Steps that touch neither seats nor matches, and do not move rooms back. *)
LEMMA FreezeFrame ==
    ASSUME NoEarlyMatch, UNCHANGED <<members, match>>,
           \A q \in Rooms : status[q] \in Live \cup {"COMPLETED"} => status'[q] \in Live \cup {"COMPLETED"},
           status \in [Rooms -> Statuses]
    PROVE  NoEarlyMatch' /\ FrozenStep
<1>1. ASSUME NEW q \in Rooms, status'[q] \in Gathering \cup {"SETUP", "CANCELLED", "NONE"}
      PROVE  ~HasMatch(q)'
    <2>1. status[q] \notin Live \cup {"COMPLETED"}
        BY <1>1 DEF Gathering, Live
    <2>2. status[q] \in Gathering \cup {"SETUP", "CANCELLED", "NONE"}
        BY <2>1 DEF Statuses, Gathering, Live
    <2>3. QED
        BY <2>2 DEF NoEarlyMatch, HasMatch
<1>2. QED
    BY <1>1 DEF NoEarlyMatch, FrozenStep

(* Steps that change the seats of one room r but no match. *)
LEMMA SeatsFrame ==
    ASSUME TypeOK, NoEarlyMatch, NEW r \in Rooms, UNCHANGED match,
           \A q \in Rooms : q # r => members'[q] = members[q] /\ status'[q] = status[q],
           \/ status[r] \notin Locked /\ status[r] # "COMPLETED"
           \/ status'[r] \in Final /\ (HasMatch(r) => status'[r] = "COMPLETED")
    PROVE  NoEarlyMatch' /\ FrozenStep
<1>1. status[r] \notin Locked /\ status[r] # "COMPLETED" => ~HasMatch(r)
    BY DEF TypeOK, Statuses, NoEarlyMatch, Locked, Live, Gathering
<1>2. QED
    BY <1>1 DEF NoEarlyMatch, FrozenStep, HasMatch, Gathering

(* The step that makes a match. *)
LEMMA MakeFrame ==
    ASSUME TypeOK, NoEarlyMatch, NEW r \in Rooms, NEW map, status[r] = "SETUP",
           MaterializeCompetitiveMatch(r, map), UNCHANGED members
    PROVE  NoEarlyMatch' /\ FrozenStep
<1>1. ~HasMatch(r) /\ status'[r] = "READY"
    BY DEF NoEarlyMatch, MaterializeCompetitiveMatch, TypeOK
<1>2. \A q \in Rooms : q # r => status'[q] = status[q] /\ match'[q] = match[q]
    BY DEF MaterializeCompetitiveMatch, TypeOK
<1>3. QED
    BY <1>1, <1>2 DEF NoEarlyMatch, FrozenStep, HasMatch, Gathering

LEMMA FreezeStep ==
    ASSUME TypeOK, NoEarlyMatch, [Next]_vars
    PROVE  NoEarlyMatch' /\ FrozenStep
<1> DEFINE Kept == NoEarlyMatch' /\ FrozenStep
<1>1. ASSUME NEW r \in Rooms, NEW p \in Players,
             Create(r, p) \/ Join(r, p) \/ Leave(r, p) \/ Cancel(r, p)
      PROVE  Kept
    <2>1. \A q \in Rooms : q # r => members'[q] = members[q] /\ status'[q] = status[q]
        BY <1>1 DEF Create, Join, Seat, Leave, Cancel, TypeOK
    <2>2. match' = match
        BY <1>1 DEF Create, Join, Leave, Cancel
    <2>3. status[r] \in Gathering \cup {"SETUP", "NONE"}
        BY <1>1 DEF Create, Join, Leave, Cancel, Gathering
    <2>4. status[r] = "SETUP" => status'[r] \in Final
        BY <1>1 DEF Create, Join, Leave, Cancel, TypeOK, Final
    <2>5. ~HasMatch(r)
        BY <2>3 DEF NoEarlyMatch
    <2>6. QED
        BY <2>1, <2>2, <2>3, <2>4, <2>5, SeatsFrame DEF Gathering, Locked, Live
<1>2. ASSUME NEW r \in Rooms, ReconcileConfirmation(r)
      PROVE  Kept
    <2>1. \A q \in Rooms : q # r => members'[q] = members[q] /\ status'[q] = status[q]
        BY <1>2 DEF ReconcileConfirmation, TypeOK
    <2>2. status[r] = "CONFIRMING" /\ match' = match
        BY <1>2 DEF ReconcileConfirmation, WindowElapsed
    <2>3. QED
        BY <2>1, <2>2, SeatsFrame DEF Locked, Live
<1>3. ASSUME NEW r \in Rooms, SeriesEnd(r)
      PROVE  Kept
    <2>1. \A q \in Rooms : q # r => members'[q] = members[q] /\ status'[q] = status[q]
        BY <1>3 DEF SeriesEnd, TypeOK
    <2>2. status'[r] = "COMPLETED" /\ match' = match
        BY <1>3 DEF SeriesEnd, TypeOK
    <2>3. QED
        BY <2>1, <2>2, SeatsFrame DEF Final
<1>4. ASSUME NEW r \in Rooms, NEW p \in Players, Confirm(r, p)
      PROVE  Kept
    <2>1. \A q \in Rooms : status[q] \in Live \cup {"COMPLETED"} =>
                               status'[q] \in Live \cup {"COMPLETED"}
        BY <1>4 DEF Confirm, TypeOK, Live
    <2>2. QED
        BY <1>4, <2>1, FreezeFrame DEF Confirm, TypeOK
<1>5. ASSUME NEW r \in Rooms, NEW m \in Maps, Ban(r, m), status[r] = "SETUP", UNCHANGED members
      PROVE  Kept
    <2>1. CASE UNCHANGED <<status, match>>
        BY <1>5, <2>1, FreezeFrame DEF TypeOK
    <2>2. ASSUME NEW last, MaterializeCompetitiveMatch(r, last)
          PROVE  Kept
        BY <1>5, <2>2, MakeFrame
    <2>3. QED
        BY <1>5, <2>1, <2>2 DEF Ban
<1>6. ASSUME NEW r \in Rooms, ReconcileVeto(r)
      PROVE  Kept
    BY <1>5, <1>6 DEF ReconcileVeto, VetoOpen, Unbanned
<1>7. ASSUME NEW r \in Rooms, NEW p \in Players, NEW m \in Maps, MapVetoBan(r, p, m)
      PROVE  Kept
    BY <1>5, <1>7 DEF MapVetoBan, VetoOpen
<1>8. ASSUME NEW r \in Rooms, CompleteSetup(r)
      PROVE  Kept
    <2>1. ~HasMatch(r)
        BY <1>8 DEF CompleteSetup, NoEarlyMatch
    <2>2. QED
        BY <1>8, <2>1, MakeFrame DEF CompleteSetup
<1>9. ASSUME NEW r \in Rooms, Allocate(r) \/ Finalize(r)
      PROVE  Kept
    <2>1. \A q \in Rooms : status[q] \in Live \cup {"COMPLETED"} =>
                               status'[q] \in Live \cup {"COMPLETED"}
        BY <1>9 DEF Allocate, Finalize, TypeOK, Live
    <2>2. QED
        BY <1>9, <2>1, FreezeFrame DEF Allocate, Finalize, TypeOK
<1>10. ASSUME NEW r \in Rooms, ReconcileDraft(r) \/ RecoverVeto(r) \/ Elapse(r)
       PROVE  Kept
    BY <1>10, FreezeFrame DEF ReconcileDraft, RecoverVeto, Elapse, roomVars, TypeOK
<1>11. ASSUME NEW r \in Rooms, NEW p \in Players, NEW target \in Players, DraftPick(r, p, target)
       PROVE  Kept
    BY <1>11, FreezeFrame DEF DraftPick, roomVars, TypeOK
<1>12. ASSUME NEW p \in Players, ChangeEligibility(p) \/ RefreshSteamProfile(p)
       PROVE  Kept
    BY <1>12, FreezeFrame DEF ChangeEligibility, RefreshSteamProfile, roomVars, TypeOK
<1>13. CASE UNCHANGED vars
    BY <1>13, FreezeFrame DEF vars, roomVars, TypeOK
<1>14. QED
    BY <1>1, <1>2, <1>3, <1>4, <1>6, <1>7, <1>8, <1>9, <1>10, <1>11, <1>12, <1>13
       DEF Next, ReconcileRoom

(* The locked roster and the competitive match are frozen: no step changes   *)
(* them until the room is over.                                              *)
THEOREM Frozen == Spec => RosterFrozen
<1>1. Init => NoEarlyMatch
    BY DEF Init, NoEarlyMatch, HasMatch, NoMatch
<1>2. TypeOK /\ NoEarlyMatch /\ [Next]_vars => NoEarlyMatch' /\ [FrozenStep]_vars
    BY FreezeStep
<1>3. Spec => [][FrozenStep]_vars
    BY <1>1, <1>2, TypeCorrect, PTL DEF Spec
<1>4. QED
    BY <1>3 DEF RosterFrozen, FrozenStep

-----------------------------------------------------------------------------
(* What is left of a room's rows when a step is about another room. *)
SameRoom(q) ==
    /\ status'[q]    = status[q]    /\ creator'[q]  = creator[q]  /\ members'[q]  = members[q]
    /\ round'[q]     = round[q]     /\ window'[q]   = window[q]   /\ confirmed'[q] = confirmed[q]
    /\ draft'[q]     = draft[q]     /\ side'[q]     = side[q]     /\ pickedAt'[q] = pickedAt[q]
    /\ veto'[q]      = veto[q]      /\ bannedAt'[q] = bannedAt[q] /\ bannedBy'[q] = bannedBy[q]
    /\ match'[q]     = match[q]

RoomStep(r) ==
    \/ \E p \in Players :
          \/ Create(r, p) \/ Join(r, p) \/ Leave(r, p) \/ Cancel(r, p) \/ Confirm(r, p)
          \/ \E target \in Players : DraftPick(r, p, target)
          \/ \E m \in Maps : MapVetoBan(r, p, m)
    \/ ReconcileRoom(r) \/ Allocate(r) \/ Finalize(r) \/ SeriesEnd(r) \/ Elapse(r)

(* Every operation holds the lock of one room and changes no other. *)
LEMMA OneRoomAtATime ==
    ASSUME TypeOK, [Next]_vars
    PROVE  \/ \A q \in Rooms : SameRoom(q)
           \/ \E r \in Rooms : RoomStep(r) /\ \A q \in Rooms \ {r} : SameRoom(q)
<1> USE DEF TypeOK, SameRoom, roomVars, roundVars, draftVars, vetoVars, envVars
<1>1. ASSUME NEW r \in Rooms, NEW p \in Players, Create(r, p) \/ Join(r, p) \/ Leave(r, p) \/ Cancel(r, p)
      PROVE  \A q \in Rooms \ {r} : SameRoom(q)
    BY <1>1 DEF Create, Join, Leave, Cancel, Seat
<1>2. ASSUME NEW r \in Rooms, NEW p \in Players, Confirm(r, p)
      PROVE  \A q \in Rooms \ {r} : SameRoom(q)
    BY <1>2 DEF Confirm, InitializeDraft
<1>3. ASSUME NEW r \in Rooms, NEW p, Pick(r, p), UNCHANGED <<roomVars, roundVars, bannedAt, bannedBy, match>>
      PROVE  \A q \in Rooms \ {r} : SameRoom(q)
    BY <1>3 DEF Pick, InitializeMapVeto
<1>4. ASSUME NEW r \in Rooms, NEW p \in Players, NEW target \in Players, DraftPick(r, p, target)
      PROVE  \A q \in Rooms \ {r} : SameRoom(q)
    BY <1>3, <1>4 DEF DraftPick
<1>5. ASSUME NEW r \in Rooms, NEW m, Ban(r, m), UNCHANGED <<creator, members, roundVars, draftVars>>
      PROVE  \A q \in Rooms \ {r} : SameRoom(q)
    BY <1>5 DEF Ban, MaterializeCompetitiveMatch
<1>6. ASSUME NEW r \in Rooms, NEW p \in Players, NEW m \in Maps, MapVetoBan(r, p, m)
      PROVE  \A q \in Rooms \ {r} : SameRoom(q)
    BY <1>5, <1>6 DEF MapVetoBan
<1>7. ASSUME NEW r \in Rooms, ReconcileConfirmation(r)
      PROVE  \A q \in Rooms \ {r} : SameRoom(q)
    BY <1>7 DEF ReconcileConfirmation
<1>8. ASSUME NEW r \in Rooms, ReconcileDraft(r)
      PROVE  \A q \in Rooms \ {r} : SameRoom(q)
    <2>1. CASE \E p \in Unassigned(r) : Pick(r, p)
        BY <1>3, <1>8, <2>1 DEF ReconcileDraft
    <2>2. CASE /\ draft' = [draft EXCEPT ![r] = ClosedDraft(r)]
               /\ InitializeMapVeto(r)
               /\ UNCHANGED <<side, pickedAt>>
        BY <1>8, <2>2 DEF ReconcileDraft, InitializeMapVeto
    <2>3. QED
        BY <1>8, <2>1, <2>2 DEF ReconcileDraft
<1>9. ASSUME NEW r \in Rooms, RecoverVeto(r)
      PROVE  \A q \in Rooms \ {r} : SameRoom(q)
    BY <1>9 DEF RecoverVeto, InitializeMapVeto
<1>10. ASSUME NEW r \in Rooms, ReconcileVeto(r)
       PROVE  \A q \in Rooms \ {r} : SameRoom(q)
    BY <1>5, <1>10 DEF ReconcileVeto
<1>11. ASSUME NEW r \in Rooms, CompleteSetup(r) \/ Allocate(r) \/ Finalize(r) \/ SeriesEnd(r)
       PROVE  \A q \in Rooms \ {r} : SameRoom(q)
    BY <1>11 DEF CompleteSetup, MaterializeCompetitiveMatch, Allocate, Finalize, SeriesEnd
<1>12. ASSUME NEW r \in Rooms, Elapse(r)
       PROVE  \A q \in Rooms \ {r} : SameRoom(q)
    BY <1>12 DEF Elapse
<1>13. ASSUME NEW r \in Rooms, RoomStep(r)
       PROVE  \A q \in Rooms \ {r} : SameRoom(q)
    BY <1>1, <1>2, <1>4, <1>6, <1>7, <1>8, <1>9, <1>10, <1>11, <1>12, <1>13 DEF RoomStep, ReconcileRoom
<1>14. ASSUME NEW p \in Players, ChangeEligibility(p) \/ RefreshSteamProfile(p)
       PROVE  \A q \in Rooms : SameRoom(q)
    BY <1>14 DEF ChangeEligibility, RefreshSteamProfile
<1>15. CASE UNCHANGED vars
    BY <1>15 DEF vars
<1>16. QED
    BY <1>13, <1>14, <1>15 DEF Next, RoomStep

-----------------------------------------------------------------------------
(* The seats of room r.  A full room that waits for confirmations waits for  *)
(* at least one: that is why a timed out window leaves a free seat.          *)
SeatingAt(r) ==
    /\ status[r] \in Active => creator[r] \in members[r]
    /\ status[r] = "FORMING" => Cardinality(members[r]) < Capacity
    /\ status[r] \in Locked \cup {"CONFIRMING"} => Cardinality(members[r]) = Capacity
    /\ status[r] \in Final \cup {"NONE"} => members[r] = {}
    /\ status[r] = "CONFIRMING" => \E p \in members[r] : confirmed[r][p] # round[r]

LEMMA SeatingSame ==
    ASSUME NEW r \in Rooms, SeatingAt(r), creator'[r] = creator[r], members'[r] = members[r],
           \/ status'[r] = status[r] /\ confirmed'[r] = confirmed[r] /\ round'[r] = round[r]
           \/ status[r] \in Locked \cup {"CONFIRMING"} /\ status'[r] \in Locked
    PROVE  SeatingAt(r)'
BY DEF SeatingAt, Active, Gathering, Locked, Live, Final

LEMMA RosterFinite ==
    ASSUME TypeOK, NEW r \in Rooms, NEW S \in SUBSET members[r]
    PROVE  /\ IsFiniteSet(S) /\ Cardinality(S) \in Nat
           /\ Cardinality(S) <= Cardinality(members[r])
           /\ Cardinality(S) = Cardinality(members[r]) => S = members[r]
<1>1. IsFiniteSet(members[r])
    BY PlayersAssumption, FS_Subset DEF TypeOK
<1>2. QED
    BY <1>1, FS_Subset, FS_CardinalityType

LEMMA CapacityType == Capacity \in Nat /\ Capacity >= 2 /\ LastPick \in Nat /\ LastPick = 2 * TeamSize - 2
BY TeamAssumption DEF Capacity, LastPick

LEMMA SeatingStep ==
    ASSUME TypeOK, TypeOK', NEW r \in Rooms, SeatingAt(r), RoomStep(r)
    PROVE  SeatingAt(r)'
<1> USE CapacityType DEF Active, Gathering, Locked, Live, Final
<1>1. ASSUME NEW p \in Players, Create(r, p)
      PROVE  SeatingAt(r)'
    <2>1. members'[r] = {p} /\ status'[r] = "FORMING" /\ creator'[r] = p
        BY <1>1 DEF Create, Seat, TypeOK, SeatingAt
    <2>2. Cardinality({p}) = 1
        BY FS_Singleton
    <2>3. QED
        BY <2>1, <2>2 DEF SeatingAt
<1>2. ASSUME NEW p \in Players, Join(r, p)
      PROVE  SeatingAt(r)'
    <2>1. /\ members'[r] = members[r] \cup {p} /\ creator'[r] = creator[r] /\ status[r] = "FORMING"
          /\ p \notin members[r] /\ confirmed'[r][p] = 0
        BY <1>2 DEF Join, Seat, Seated, TypeOK
    <2>2. Cardinality(members'[r]) = Cardinality(members[r]) + 1 /\ Cardinality(members[r]) \in Nat
        BY <2>1, RosterFinite, FS_AddElement
    <2>3. CASE Cardinality(members[r]) + 1 < Capacity /\ UNCHANGED <<status, round, window>>
        BY <2>1, <2>2, <2>3 DEF SeatingAt
    <2>4. CASE /\ Cardinality(members[r]) + 1 = Capacity
               /\ status' = [status EXCEPT ![r] = "CONFIRMING"]
               /\ round'  = [round EXCEPT ![r] = @ + 1]
        <3>1. status'[r] = "CONFIRMING" /\ round'[r] = round[r] + 1 /\ round[r] \in Nat
            BY <2>4, BoundsAssumption DEF TypeOK
        <3>2. confirmed'[r][p] # round'[r]
            BY <2>1, <3>1
        <3>3. QED
            BY <2>1, <2>2, <2>4, <3>1, <3>2 DEF SeatingAt
    <2>5. QED
        BY <1>2, <2>3, <2>4 DEF Join
<1>3. ASSUME NEW p \in Players, Leave(r, p)
      PROVE  SeatingAt(r)'
    <2>1. /\ members'[r] = members[r] \ {p} /\ creator'[r] = creator[r] /\ status'[r] = "FORMING"
          /\ status[r] = "FORMING" /\ p # creator[r]
        BY <1>3 DEF Leave, TypeOK
    <2>2. Cardinality(members'[r]) <= Cardinality(members[r]) /\ Cardinality(members'[r]) \in Nat
          /\ Cardinality(members[r]) \in Nat
        BY <2>1, RosterFinite
    <2>3. QED
        BY <2>1, <2>2 DEF SeatingAt
<1>4. ASSUME NEW p \in Players, Cancel(r, p)
      PROVE  SeatingAt(r)'
    BY <1>4 DEF Cancel, TypeOK, SeatingAt
<1>5. ASSUME NEW p \in Players, Confirm(r, p)
      PROVE  SeatingAt(r)'
    <2>1. /\ members'[r] = members[r] /\ creator'[r] = creator[r] /\ status[r] = "CONFIRMING"
          /\ round'[r] = round[r]
          /\ \A q \in Players \ {p} : confirmed'[r][q] = confirmed[r][q]
        BY <1>5 DEF Confirm, TypeOK
    <2>2. members[r] \subseteq Players
        BY DEF TypeOK
    <2>3. CASE status'[r] = "SETUP"
        BY <2>1, <2>3, SeatingSame
    <2>4. CASE UNCHANGED status /\ \E q \in members[r] \ {p} : confirmed[r][q] # round[r]
        BY <2>1, <2>2, <2>4 DEF SeatingAt
    <2>5. QED
        BY <1>5, <2>3, <2>4 DEF Confirm, TypeOK
<1>6. ASSUME ReconcileConfirmation(r)
      PROVE  SeatingAt(r)'
    <2>1. status[r] = "CONFIRMING" /\ creator'[r] = creator[r]
        BY <1>6 DEF ReconcileConfirmation, WindowElapsed
    <2>2. CASE status'[r] = "CANCELLED" /\ members'[r] = {}
        BY <2>2 DEF SeatingAt
    <2>3. CASE /\ confirmed[r][creator[r]] = round[r] /\ status'[r] = "FORMING"
               /\ members'[r] = {p \in members[r] : confirmed[r][p] = round[r]}
        <3>1. members'[r] \subseteq members[r] /\ members'[r] # members[r]
            BY <2>1, <2>3 DEF SeatingAt
        <3>2. /\ Cardinality(members'[r]) < Cardinality(members[r])
              /\ Cardinality(members[r]) = Capacity
            <4>1. Cardinality(members'[r]) \in Nat /\ Cardinality(members'[r]) <= Cardinality(members[r])
                  /\ Cardinality(members'[r]) # Cardinality(members[r])
                BY <3>1, RosterFinite
            <4>2. Cardinality(members[r]) = Capacity
                BY <2>1 DEF SeatingAt
            <4>3. QED
                BY <4>1, <4>2
        <3>3. creator[r] \in members'[r]
            BY <2>1, <2>3 DEF SeatingAt
        <3>4. QED
            BY <2>1, <2>3, <3>2, <3>3 DEF SeatingAt
    <2>4. QED
        BY <1>6, <2>2, <2>3 DEF ReconcileConfirmation, TypeOK
<1>7. ASSUME SeriesEnd(r)
      PROVE  SeatingAt(r)'
    BY <1>7 DEF SeriesEnd, TypeOK, SeatingAt
<1>8. ASSUME NEW m, Ban(r, m), status[r] = "SETUP", UNCHANGED <<creator, members>>
      PROVE  SeatingAt(r)'
    <2>1. status'[r] \in Locked
        BY <1>8 DEF Ban, MaterializeCompetitiveMatch, TypeOK
    <2>2. QED
        BY <1>8, <2>1, SeatingSame
<1>9. ASSUME CompleteSetup(r) \/ Allocate(r) \/ Finalize(r)
      PROVE  SeatingAt(r)'
    <2>1. status[r] \in Locked /\ status'[r] \in Locked /\ UNCHANGED <<creator, members>>
        BY <1>9 DEF CompleteSetup, MaterializeCompetitiveMatch, Allocate, Finalize, TypeOK
    <2>2. QED
        BY <2>1, SeatingSame
<1>10. ASSUME ReconcileDraft(r) \/ RecoverVeto(r) \/ Elapse(r)
       PROVE  SeatingAt(r)'
    BY <1>10, SeatingSame DEF ReconcileDraft, RecoverVeto, Elapse, roomVars, roundVars
<1>11. ASSUME NEW p \in Players, NEW target \in Players, DraftPick(r, p, target)
       PROVE  SeatingAt(r)'
    BY <1>11, SeatingSame DEF DraftPick, roomVars, roundVars
<1>12. ASSUME NEW p \in Players, NEW m \in Maps, MapVetoBan(r, p, m)
       PROVE  SeatingAt(r)'
    BY <1>8, <1>12 DEF MapVetoBan, VetoOpen
<1>13. ASSUME ReconcileVeto(r)
       PROVE  SeatingAt(r)'
    BY <1>8, <1>13 DEF ReconcileVeto, VetoOpen
<1>14. QED
    BY <1>1, <1>2, <1>3, <1>4, <1>5, <1>6, <1>7, <1>9, <1>10, <1>11, <1>12, <1>13
       DEF RoomStep, ReconcileRoom

SeatingInv == \A r \in Rooms : SeatingAt(r)

LEMMA SeatingInvStep ==
    ASSUME TypeInv, SeatingInv, [Next]_vars
    PROVE  SeatingInv'
<1>1. TypeOK /\ TypeOK'
    BY TypeInvStep DEF TypeInv
<1>2. ASSUME NEW q \in Rooms, SameRoom(q)
      PROVE  SeatingAt(q)'
    BY <1>2, SeatingSame DEF SeatingInv, SameRoom
<1>3. ASSUME NEW r \in Rooms, RoomStep(r), \A q \in Rooms \ {r} : SameRoom(q)
      PROVE  SeatingInv'
    BY <1>1, <1>2, <1>3, SeatingStep DEF SeatingInv
<1>4. QED
    BY <1>1, <1>2, <1>3, OneRoomAtATime DEF SeatingInv

(* An active room always seats its creator, the window opens exactly when    *)
(* the last seat is taken, and a timed out window leaves a free seat.        *)
THEOREM SeatsAgree == Spec => []Seating
<1>1. Init => SeatingInv
    BY DEF Init, SeatingInv, SeatingAt, Active, Gathering, Locked, Live
<1>2. Init => TypeInv
    BY TypeInvInit
<1>3. TypeInv /\ SeatingInv /\ [Next]_vars => TypeInv' /\ SeatingInv'
    BY TypeInvStep, SeatingInvStep
<1>4. SeatingInv => Seating
    BY DEF SeatingInv, SeatingAt, Seating
<1>5. QED
    BY <1>1, <1>2, <1>3, <1>4, PTL DEF Spec

-----------------------------------------------------------------------------
(* Counting: how the sets that a draft or a veto is measured by change when  *)
(* a player is given a side, or a map is banned.                             *)
LEMMA Parity ==
    ASSUME NEW n \in Nat
    PROVE  (n + 1) % 2 = 1 <=> n % 2 # 1
OBVIOUS

(* The members of a roster that a column puts on one side. *)
On(sd, roster, s) == {p \in roster : sd[p] = s}

Size(sd, roster, s) == Cardinality(On(sd, roster, s))

LEMMA SizeType ==
    ASSUME NEW sd, NEW roster \in SUBSET Players, NEW s
    PROVE  IsFiniteSet(On(sd, roster, s)) /\ Size(sd, roster, s) \in Nat
<1>1. On(sd, roster, s) \subseteq Players
    BY DEF On
<1>2. QED
    BY <1>1, PlayersAssumption, FS_Subset, FS_CardinalityType DEF Size

(* A member who had no side gets side s: what Pick does to a roster. *)
Placed(sd, sd2, p, s) == sd2[p] = s /\ \A q \in Players \ {p} : sd2[q] = sd[q]

LEMMA SizePlaced ==
    ASSUME NEW sd \in [Players -> SideOrNone], NEW sd2 \in [Players -> SideOrNone],
           NEW roster \in SUBSET Players, NEW p \in roster, NEW s \in Sides,
           sd[p] = NoSide, Placed(sd, sd2, p, s)
    PROVE  /\ Size(sd2, roster, s) = Size(sd, roster, s) + 1
           /\ \A t \in Sides : t # s => Size(sd2, roster, t) = Size(sd, roster, t)
           /\ Size(sd, roster, NoSide) = Size(sd2, roster, NoSide) + 1
<1> USE DEF Placed
<1>1. NoSide \notin Sides
    BY DEF NoSide, Sides
<1>2. Size(sd2, roster, s) = Size(sd, roster, s) + 1
    <2>1. On(sd2, roster, s) = On(sd, roster, s) \cup {p} /\ p \notin On(sd, roster, s)
        BY <1>1 DEF On
    <2>2. QED
        BY <2>1, SizeType, FS_AddElement DEF Size
<1>3. \A t \in Sides : t # s => On(sd2, roster, t) = On(sd, roster, t)
    BY <1>1 DEF On
<1>4. Size(sd, roster, NoSide) = Size(sd2, roster, NoSide) + 1
    <2>1. On(sd, roster, NoSide) = On(sd2, roster, NoSide) \cup {p} /\ p \notin On(sd2, roster, NoSide)
        BY <1>1 DEF On
    <2>2. QED
        BY <2>1, SizeType, FS_AddElement DEF Size
<1>5. QED
    BY <1>2, <1>3, <1>4 DEF Size

(* The picks of a roster so far, the one of order next still to come: every  *)
(* order was used once, and the odd ones went to the first captain's side.   *)
FairPicks(at, sd, roster, first, next) ==
    /\ \A p \in roster : at[p] < next
    /\ \A k \in 1..(next - 1) : \E p \in roster : at[p] = k
    /\ \A p, q \in roster : at[p] = at[q] /\ at[p] # 0 => p = q
    /\ \A p \in roster : at[p] # 0 => (sd[p] = first <=> at[p] % 2 = 1)

LEMMA FairPicksGrow ==
    ASSUME NEW at \in [Players -> Nat], NEW sd \in [Players -> SideOrNone],
           NEW roster \in SUBSET Players, NEW first \in Sides, NEW next \in Nat, next >= 1,
           FairPicks(at, sd, roster, first, next),
           NEW p \in roster, at[p] = 0, NEW s \in Sides, s = first <=> next % 2 = 1,
           NEW at2, at2 = [at EXCEPT ![p] = next], NEW sd2, sd2 = [sd EXCEPT ![p] = s]
    PROVE  FairPicks(at2, sd2, roster, first, next + 1)
<1>1. at2[p] = next /\ \A q \in roster \ {p} : at2[q] = at[q] /\ at[q] < next /\ at[q] \in Nat
    BY DEF FairPicks
<1>2. sd2[p] = s /\ \A q \in roster \ {p} : sd2[q] = sd[q]
    OBVIOUS
<1>3. \A q \in roster : at2[q] < next + 1
    BY <1>1
<1>4. ASSUME NEW k \in 1..next
      PROVE  \E q \in roster : at2[q] = k
    <2>1. CASE k = next
        BY <1>1, <2>1
    <2>2. CASE k # next
        <3>1. k \in 1..(next - 1)
            BY <2>2
        <3>2. PICK q \in roster : at[q] = k
            BY <3>1 DEF FairPicks
        <3>3. q # p
            BY <3>1, <3>2
        <3>4. QED
            BY <1>1, <3>2, <3>3
    <2>3. QED
        BY <2>1, <2>2
<1>5. ASSUME NEW q \in roster, NEW q2 \in roster, at2[q] = at2[q2], at2[q] # 0
      PROVE  q = q2
    BY <1>1, <1>5 DEF FairPicks
<1>6. ASSUME NEW q \in roster, at2[q] # 0
      PROVE  sd2[q] = first <=> at2[q] % 2 = 1
    BY <1>1, <1>2, <1>6 DEF FairPicks
<1>7. (next + 1) - 1 = next
    OBVIOUS
<1>8. QED
    BY <1>3, <1>4, <1>5, <1>6, <1>7 DEF FairPicks

(* The bans so far, the one of order next still to come: every order was     *)
(* used at most once, and the captains took turns.                           *)
FairBans(at, by, first, second, next) ==
    /\ \A m \in Maps : at[m] < next
    /\ \A m, n \in Maps : at[m] = at[n] /\ at[m] # 0 => m = n
    /\ \A m \in Maps : at[m] # 0 => by[m] = IF at[m] % 2 = 1 THEN first ELSE second

LEMMA FairBansGrow ==
    ASSUME NEW at \in [Maps -> Nat], NEW by \in [Maps -> PlayerOrNull], NEW first, NEW second,
           NEW next \in Nat, next >= 1, FairBans(at, by, first, second, next),
           NEW m \in Maps, NEW captain, captain = IF next % 2 = 1 THEN first ELSE second,
           NEW at2, at2 = [at EXCEPT ![m] = next], NEW by2, by2 = [by EXCEPT ![m] = captain]
    PROVE  FairBans(at2, by2, first, second, next + 1)
<1>1. at2[m] = next /\ \A n \in Maps \ {m} : at2[n] = at[n] /\ at[n] < next /\ at[n] \in Nat
    BY DEF FairBans
<1>2. by2[m] = captain /\ \A n \in Maps \ {m} : by2[n] = by[n]
    OBVIOUS
<1>3. \A n \in Maps : at2[n] < next + 1
    BY <1>1
<1>4. ASSUME NEW n \in Maps, NEW n2 \in Maps, at2[n] = at2[n2], at2[n] # 0
      PROVE  n = n2
    BY <1>1, <1>4 DEF FairBans
<1>5. ASSUME NEW n \in Maps, at2[n] # 0
      PROVE  by2[n] = IF at2[n] % 2 = 1 THEN first ELSE second
    <2>1. CASE n = m
        BY <1>1, <1>2, <2>1
    <2>2. CASE n # m
        BY <1>1, <1>2, <1>5, <2>2 DEF FairBans
    <2>3. QED
        BY <2>1, <2>2
<1>6. QED
    BY <1>3, <1>4, <1>5 DEF FairBans

(* The maps a column leaves over, and what a ban does to them. *)
Over(at) == {m \in Maps : at[m] = 0}

Banned(at, at2, m) == at2[m] # 0 /\ \A n \in Maps \ {m} : at2[n] = at[n]

LEMMA OverBanned ==
    ASSUME NEW at \in [Maps -> Nat], NEW at2 \in [Maps -> Nat], NEW m \in Over(at), Banned(at, at2, m)
    PROVE  /\ Over(at2) = Over(at) \ {m}
           /\ Cardinality(Over(at)) = Cardinality(Over(at2)) + 1
           /\ Cardinality(Over(at)) \in Nat /\ Cardinality(Over(at2)) \in Nat
           /\ IsFiniteSet(Over(at2))
<1>1. IsFiniteSet(Over(at)) /\ Cardinality(Over(at)) \in Nat
    BY MapsAssumption, FS_Subset, FS_CardinalityType DEF Over
<1>2. Over(at2) = Over(at) \ {m}
    BY DEF Over, Banned
<1>3. IsFiniteSet(Over(at2)) /\ Cardinality(Over(at2)) \in Nat
    BY MapsAssumption, FS_Subset, FS_CardinalityType DEF Over
<1>4. Cardinality(Over(at)) = Cardinality(Over(at2)) + 1
    <2>1. Over(at) = Over(at2) \cup {m} /\ m \notin Over(at2)
        BY <1>2 DEF Over
    <2>2. Cardinality(Over(at2) \cup {m}) = Cardinality(Over(at2)) + 1
        BY <1>3, <2>1, FS_AddElement
    <2>3. QED
        BY <2>1, <2>2
<1>5. QED
    BY <1>1, <1>2, <1>3, <1>4

-----------------------------------------------------------------------------
(* The rows of one draft and one veto in step with each other, as operators  *)
(* of the rows: the lemmas below take a row to the next one.                 *)
Opposite(s) == IF s = "A" THEN "B" ELSE "A"

Rival(d, p) == IF p = d.captain["A"] THEN d.captain["B"] ELSE d.captain["A"]

(* The two captains of draft row d head the sides they are named for. *)
TwoCaptains(d, sd, at, roster) ==
    /\ d.captain["A"] # d.captain["B"]
    /\ \A s \in Sides : d.captain[s] \in roster /\ sd[d.captain[s]] = s /\ at[d.captain[s]] = 0
    /\ d.first = d.captain["A"] \/ d.first = d.captain["B"]

(* Whose turn it is while draft row d is open, and how many are seated: the  *)
(* first captain's side is one ahead exactly when the other captain picks.   *)
OpenTurn(d, sd, roster) ==
    /\ d.picker = d.captain["A"] \/ d.picker = d.captain["B"]
    /\ d.picker = d.first <=> d.order % 2 = 1
    /\ d.order >= 1
    /\ Size(sd, roster, sd[d.first]) + Size(sd, roster, Opposite(sd[d.first])) = d.order + 1
    /\ d.picker = d.first => Size(sd, roster, sd[d.first]) = Size(sd, roster, Opposite(sd[d.first]))
    /\ d.picker # d.first => Size(sd, roster, sd[d.first]) = Size(sd, roster, Opposite(sd[d.first])) + 1
    /\ Size(sd, roster, NoSide) + d.order + 1 = Capacity
    /\ Size(sd, roster, NoSide) >= 2 \/ (TeamSize = 1 /\ d.order = 1)

NextPick(d) == IF d.phase = "OPEN" THEN d.order ELSE Capacity - 1

(* A draft row with its assignments: what every turn has to keep. *)
DraftOK(d, sd, at, roster) ==
    /\ d.phase \in {"OPEN", "DONE"}
    /\ TwoCaptains(d, sd, at, roster)
    /\ FairPicks(at, sd, roster, sd[d.first], NextPick(d))
    /\ \A p \in Players : sd[p] = NoSide => at[p] = 0
    /\ \A p \in Players \ roster : sd[p] = NoSide
    /\ d.phase = "OPEN" => OpenTurn(d, sd, roster)
    /\ d.phase = "DONE" => \A s \in Sides : Size(sd, roster, s) = TeamSize

NextBan(v) == IF v.phase = "NONE" THEN 1
              ELSE IF v.phase = "OPEN" THEN v.order ELSE Cardinality(Maps)

(* A veto row with its bans, next to the draft row whose captains ban. *)
VetoOK(v, at, by, d) ==
    /\ FairBans(at, by, v.first, Rival(d, v.first), NextBan(v))
    /\ v.phase # "NONE" => /\ d.phase = "DONE"
                           /\ v.first = d.captain["A"] \/ v.first = d.captain["B"]
    /\ v.phase = "OPEN" => /\ v.order \in 1..LastBan
                           /\ v.vetoer = IF v.order % 2 = 1 THEN v.first ELSE Rival(d, v.first)
                           /\ Cardinality(Over(at)) + v.order = Cardinality(Maps) + 1
    /\ v.phase = "DONE" => Over(at) = {v.selected}

(* A match row, next to the veto row and the sides it was made from. *)
MatchOK(m, v, sd) ==
    m.map # NoMap => v.phase = "DONE" /\ m.map = v.selected /\ m.team = sd

(* The setup of room r: nothing before its roster is locked, and every row   *)
(* in step with the others from then on.                                     *)
Undrafted(r) ==
    /\ draft[r] = NoDraft /\ veto[r] = NoVeto /\ ~HasMatch(r)
    /\ \A p \in Players : side[r][p] = NoSide /\ pickedAt[r][p] = 0
    /\ \A m \in Maps : bannedAt[r][m] = 0

SetupAt(r) ==
    /\ status[r] \in Gathering \cup {"NONE"} => Undrafted(r)
    /\ status[r] \in Locked =>
          /\ DraftOK(draft[r], side[r], pickedAt[r], members[r])
          /\ VetoOK(veto[r], bannedAt[r], bannedBy[r], draft[r])
          /\ MatchOK(match[r], veto[r], side[r])
    /\ status[r] \in Live => HasMatch(r)

-----------------------------------------------------------------------------
(* A draft that opens: two members of the roster head a side of their own.   *)
LEMMA DraftOpens ==
    ASSUME NEW roster \in SUBSET Players, Cardinality(roster) = Capacity,
           NEW at \in [Players -> Nat], \A p \in Players : at[p] = 0,
           NEW none \in [Players -> SideOrNone], \A p \in Players : none[p] = NoSide,
           NEW a \in roster, NEW b \in roster, a # b, NEW first \in {a, b},
           NEW d, d = [phase |-> "OPEN", captain |-> [s \in Sides |-> IF s = "A" THEN a ELSE b],
                       first |-> first, picker |-> first, order |-> 1, deadline |-> "RUNNING"],
           NEW sd, sd = [none EXCEPT ![a] = "A", ![b] = "B"]
    PROVE  DraftOK(d, sd, at, roster)
<1> USE DEF Sides, NoSide
<1>1. d.captain["A"] = a /\ d.captain["B"] = b /\ d.first = first /\ d.picker = first /\ d.order = 1
      /\ d.phase = "OPEN"
    OBVIOUS
<1>2. sd[a] = "A" /\ sd[b] = "B" /\ \A p \in Players \ {a, b} : sd[p] = NoSide
    OBVIOUS
<1>3. On(sd, roster, "A") = {a} /\ On(sd, roster, "B") = {b} /\ On(sd, roster, NoSide) = (roster \ {a}) \ {b}
    BY <1>2 DEF On
<1>4. Size(sd, roster, "A") = 1 /\ Size(sd, roster, "B") = 1
    BY <1>3, FS_Singleton DEF Size
<1>5. Size(sd, roster, NoSide) = Capacity - 2
    <2>1. IsFiniteSet(roster)
        BY PlayersAssumption, FS_Subset
    <2>2. IsFiniteSet(roster \ {a}) /\ Cardinality(roster \ {a}) = Capacity - 1
        BY <2>1, FS_RemoveElement
    <2>3. Cardinality((roster \ {a}) \ {b}) = (Capacity - 1) - 1
        BY <2>2, FS_RemoveElement
    <2>4. (Capacity - 1) - 1 = Capacity - 2
        BY CapacityType
    <2>5. QED
        BY <1>3, <2>3, <2>4 DEF Size
<1>6. TwoCaptains(d, sd, at, roster)
    BY <1>1, <1>2 DEF TwoCaptains
<1>7. FairPicks(at, sd, roster, sd[d.first], NextPick(d))
    BY <1>1 DEF FairPicks, NextPick
<1>8. OpenTurn(d, sd, roster)
    <2>1. Capacity - 2 >= 2 \/ TeamSize = 1
        BY TeamAssumption DEF Capacity
    <2>2. sd[d.first] \in {"A", "B"}
        BY <1>1, <1>2
    <2>3. QED
        BY <1>1, <1>4, <1>5, <2>1, <2>2, CapacityType DEF OpenTurn, Opposite
<1>9. QED
    BY <1>1, <1>2, <1>6, <1>7, <1>8 DEF DraftOK

(* What an open draft says of the captain whose turn it is. *)
LEMMA PickerTurn ==
    ASSUME NEW d \in DraftRows, NEW sd \in [Players -> SideOrNone], NEW at \in [Players -> Nat],
           NEW roster \in SUBSET Players, DraftOK(d, sd, at, roster), d.phase = "OPEN"
    PROVE  /\ sd[d.first] \in Sides /\ sd[d.picker] \in Sides
           /\ sd[d.picker] = sd[d.first] <=> d.order % 2 = 1
           /\ d.picker = d.first => sd[d.picker] = sd[d.first]
           /\ d.picker # d.first => sd[d.picker] = Opposite(sd[d.first])
           /\ Rival(d, d.picker) = d.captain["A"] \/ Rival(d, d.picker) = d.captain["B"]
           /\ Rival(d, d.picker) = d.first <=> d.picker # d.first
           /\ d.captain["A"] \in roster /\ d.captain["B"] \in roster
BY DEF DraftOK, TwoCaptains, OpenTurn, Sides, Rival, Opposite

(* A pick that leaves two or more players to pick. *)
LEMMA DraftGoesOn ==
    ASSUME NEW d \in DraftRows, NEW sd \in [Players -> SideOrNone], NEW at \in [Players -> Nat],
           NEW roster \in SUBSET Players, DraftOK(d, sd, at, roster), d.phase = "OPEN",
           NEW p \in roster, sd[p] = NoSide, Size(sd, roster, NoSide) > 2,
           NEW sd2, sd2 = [sd EXCEPT ![p] = sd[d.picker]],
           NEW at2, at2 = [at EXCEPT ![p] = d.order],
           NEW d2, d2 = [d EXCEPT !.picker = Rival(d, @), !.order = @ + 1, !.deadline = "RUNNING"]
    PROVE  DraftOK(d2, sd2, at2, roster)
<1>1. /\ d2.captain = d.captain /\ d2.first = d.first /\ d2.picker = Rival(d, d.picker)
      /\ d2.order = d.order + 1 /\ d2.phase = "OPEN" /\ d.order \in Nat
    BY DEF DraftRows
<1>2. /\ sd[d.first] \in Sides /\ sd[d.picker] \in Sides
      /\ sd[d.picker] = sd[d.first] <=> d.order % 2 = 1
      /\ d.picker = d.first => sd[d.picker] = sd[d.first]
      /\ d.picker # d.first => sd[d.picker] = Opposite(sd[d.first])
      /\ Rival(d, d.picker) = d.captain["A"] \/ Rival(d, d.picker) = d.captain["B"]
      /\ Rival(d, d.picker) = d.first <=> d.picker # d.first
    BY PickerTurn
<1>3. /\ sd2 \in [Players -> SideOrNone] /\ at[p] = 0
      /\ \A q \in Players \ {p} : sd2[q] = sd[q] /\ at2[q] = at[q]
      /\ sd2[p] = sd[d.picker] /\ at2[p] = d.order /\ sd2[p] # NoSide
    BY <1>2 DEF DraftOK, SideOrNone, Sides, NoSide
<1>4. \A s \in Sides : d.captain[s] # p /\ d.captain[s] \in Players
    BY DEF DraftOK, TwoCaptains, Sides, NoSide
<1>5. TwoCaptains(d2, sd2, at2, roster)
    BY <1>1, <1>3, <1>4 DEF DraftOK, TwoCaptains
<1>6. sd2[d2.first] = sd[d.first]
    BY <1>1, <1>3, <1>4 DEF DraftOK, TwoCaptains, Sides
<1>7. FairPicks(at2, sd2, roster, sd2[d2.first], NextPick(d2))
    <2>1. FairPicks(at, sd, roster, sd[d.first], d.order) /\ d.order >= 1
        BY DEF DraftOK, NextPick, OpenTurn
    <2>2. FairPicks(at2, sd2, roster, sd[d.first], d.order + 1)
        BY <1>1, <1>2, <1>3, <2>1, FairPicksGrow
    <2>3. QED
        BY <1>1, <1>6, <2>2 DEF NextPick
<1>8. OpenTurn(d2, sd2, roster)
    <2> DEFINE f == sd[d.first]
               o == Opposite(f)
    <2>1. f \in Sides /\ o \in Sides /\ f # o /\ o # NoSide /\ f # NoSide /\ f \in {sd[d.picker], Opposite(sd[d.picker])}
        BY <1>2 DEF Sides, Opposite, NoSide
    <2>2. /\ Size(sd2, roster, sd[d.picker]) = Size(sd, roster, sd[d.picker]) + 1
          /\ \A t \in Sides : t # sd[d.picker] => Size(sd2, roster, t) = Size(sd, roster, t)
          /\ Size(sd, roster, NoSide) = Size(sd2, roster, NoSide) + 1
        <3>1. PICK s \in Sides : s = sd[d.picker]
            BY <1>2
        <3>2. Placed(sd, sd2, p, s)
            BY <1>3, <3>1 DEF Placed
        <3>3. /\ Size(sd2, roster, s) = Size(sd, roster, s) + 1
              /\ \A t \in Sides : t # s => Size(sd2, roster, t) = Size(sd, roster, t)
              /\ Size(sd, roster, NoSide) = Size(sd2, roster, NoSide) + 1
            BY ONLY <1>3, <3>2, SizePlaced, sd \in [Players -> SideOrNone], roster \in SUBSET Players, p \in roster, s \in Sides, sd[p] = NoSide
        <3>4. QED
            BY <3>1, <3>3
    <2>3. /\ Size(sd, roster, f) \in Nat /\ Size(sd, roster, o) \in Nat /\ Size(sd, roster, NoSide) \in Nat
        BY SizeType
    <2>4. /\ d.picker = d.first <=> d.order % 2 = 1
          /\ d.order >= 1
          /\ Size(sd, roster, f) + Size(sd, roster, o) = d.order + 1
          /\ d.picker = d.first => Size(sd, roster, f) = Size(sd, roster, o)
          /\ d.picker # d.first => Size(sd, roster, f) = Size(sd, roster, o) + 1
          /\ Size(sd, roster, NoSide) + d.order + 1 = Capacity
        BY DEF DraftOK, OpenTurn
    <2>5. d2.picker = d2.first <=> d2.order % 2 = 1
        BY <1>1, <1>2, <2>4, Parity
    <2>6. /\ Size(sd2, roster, NoSide) + d2.order + 1 = Capacity
          /\ Size(sd2, roster, NoSide) >= 2 /\ d2.order >= 1
        BY <1>1, <2>2, <2>3, <2>4, SizeType, CapacityType
    <2> HIDE DEF f, o
    <2>7. CASE d.picker = d.first
        <3>1. Size(sd2, roster, f) = Size(sd, roster, f) + 1 /\ Size(sd2, roster, o) = Size(sd, roster, o)
            BY <1>2, <2>1, <2>2, <2>7 DEF f
        <3>2. d2.picker # d2.first
            BY <1>1, <1>2, <2>7
        <3>3. /\ Size(sd2, roster, f) + Size(sd2, roster, o) = d2.order + 1
              /\ Size(sd2, roster, f) = Size(sd2, roster, o) + 1
            BY <1>1, <2>3, <2>4, <2>7, <3>1
        <3>4. QED
            BY <1>1, <1>2, <1>6, <2>5, <2>6, <3>2, <3>3 DEF OpenTurn, f, o
    <2>8. CASE d.picker # d.first
        <3>1. Size(sd2, roster, o) = Size(sd, roster, o) + 1 /\ Size(sd2, roster, f) = Size(sd, roster, f)
            BY <1>2, <2>1, <2>2, <2>8 DEF f, o
        <3>2. d2.picker = d2.first
            BY <1>1, <1>2, <2>8
        <3>3. /\ Size(sd2, roster, f) + Size(sd2, roster, o) = d2.order + 1
              /\ Size(sd2, roster, f) = Size(sd2, roster, o)
            BY <1>1, <2>3, <2>4, <2>8, <3>1
        <3>4. QED
            BY <1>1, <1>2, <1>6, <2>5, <2>6, <3>2, <3>3 DEF OpenTurn, f, o
    <2>9. QED
        BY <2>7, <2>8
<1>9. /\ \A q \in Players : sd2[q] = NoSide => at2[q] = 0
      /\ \A q \in Players \ roster : sd2[q] = NoSide
    BY <1>3 DEF DraftOK
<1>10. QED
    BY <1>1, <1>5, <1>7, <1>8, <1>9 DEF DraftOK

-----------------------------------------------------------------------------
(* The last pick places two players: the second is the one the other side    *)
(* still misses, which LastSide tells from the size of team A.               *)
LEMMA DraftEnds ==
    ASSUME NEW d \in DraftRows, NEW sd \in [Players -> SideOrNone], NEW at \in [Players -> Nat],
           NEW roster \in SUBSET Players, DraftOK(d, sd, at, roster), d.phase = "OPEN",
           NEW p \in roster, NEW last \in roster, p # last,
           On(sd, roster, NoSide) = {p, last},
           NEW lastSide, lastSide = IF Size(sd, roster, "A") + (IF sd[d.picker] = "A" THEN 1 ELSE 0) = TeamSize - 1
                                    THEN "A" ELSE "B",
           NEW sd2, sd2 = [sd EXCEPT ![p] = sd[d.picker], ![last] = lastSide],
           NEW at2, at2 = [at EXCEPT ![p] = d.order, ![last] = LastPick],
           NEW d2, d2 = [d EXCEPT !.phase = "DONE", !.picker = NoPlayer, !.order = 0, !.deadline = "NULL"]
    PROVE  DraftOK(d2, sd2, at2, roster)
<1>1. /\ d2.captain = d.captain /\ d2.first = d.first /\ d2.phase = "DONE" /\ d.order \in Nat
    BY DEF DraftRows
<1>2. /\ sd[d.first] \in Sides /\ sd[d.picker] \in Sides
      /\ sd[d.picker] = sd[d.first] <=> d.order % 2 = 1
      /\ d.picker = d.first => sd[d.picker] = sd[d.first]
      /\ d.picker # d.first => sd[d.picker] = Opposite(sd[d.first])
    BY PickerTurn
<1>3. sd[p] = NoSide /\ sd[last] = NoSide /\ at[p] = 0 /\ at[last] = 0
    BY DEF DraftOK, On
<1>4. Size(sd, roster, NoSide) = 2
    <2>1. IsFiniteSet({p}) /\ Cardinality({p}) = 1 /\ last \notin {p} /\ {p, last} = {p} \cup {last}
        BY FS_Singleton
    <2>2. Cardinality({p} \cup {last}) = Cardinality({p}) + 1
        BY <2>1, FS_AddElement
    <2>3. QED
        BY <2>1, <2>2 DEF Size
<1> DEFINE f == sd[d.first]
           o == Opposite(f)
<1>5. f \in Sides /\ o \in Sides /\ f # o /\ f # NoSide /\ o # NoSide /\ Opposite(o) = f
    BY <1>2 DEF Sides, Opposite, NoSide
<1>6. Size(sd, roster, f) \in Nat /\ Size(sd, roster, o) \in Nat
    BY SizeType
<1>7. d.order + 1 = LastPick /\ d.order >= 1
    BY <1>1, <1>4, CapacityType DEF DraftOK, OpenTurn, LastPick
<1>8. d.order % 2 = 1
    <2>1. d.order + 3 = 2 * TeamSize
        BY <1>1, <1>7, CapacityType, TeamAssumption
    <2>2. QED
        BY <1>1, <2>1, TeamAssumption
<1>9. d.picker = d.first /\ sd[d.picker] = f
    BY <1>2, <1>8 DEF DraftOK, OpenTurn
<1>10. Size(sd, roster, f) = TeamSize - 1 /\ Size(sd, roster, o) = TeamSize - 1
    <2>1. Size(sd, roster, f) + Size(sd, roster, o) = d.order + 1 /\ Size(sd, roster, f) = Size(sd, roster, o)
        BY <1>9 DEF DraftOK, OpenTurn
    <2>2. QED
        BY <1>1, <1>6, <1>7, <2>1, CapacityType, TeamAssumption
<1>11. lastSide = o
    BY <1>2, <1>9, <1>10, TeamAssumption DEF Sides, Opposite
<1> DEFINE sd1 == [sd EXCEPT ![p] = f]
           at1 == [at EXCEPT ![p] = d.order]
<1>12. /\ sd1 \in [Players -> SideOrNone] /\ at1 \in [Players -> Nat]
       /\ sd1[last] = NoSide /\ at1[last] = 0
       /\ Placed(sd, sd1, p, f)
    BY <1>1, <1>3, <1>5 DEF Placed, SideOrNone
<1>13. /\ sd2 = [sd1 EXCEPT ![last] = o] /\ at2 = [at1 EXCEPT ![last] = d.order + 1]
       /\ sd2 \in [Players -> SideOrNone] /\ at2 \in [Players -> Nat]
       /\ Placed(sd1, sd2, last, o)
    BY <1>5, <1>7, <1>9, <1>11, <1>12, CapacityType DEF Placed, SideOrNone
<1>14. /\ sd2[p] = f /\ sd2[last] = o
       /\ \A q \in Players \ {p, last} : sd2[q] = sd[q] /\ at2[q] = at[q]
    BY <1>9, <1>11
<1>15. FairPicks(at2, sd2, roster, f, Capacity - 1)
    <2>1. FairPicks(at, sd, roster, f, d.order)
        BY DEF DraftOK, NextPick
    <2>2. FairPicks(at1, sd1, roster, f, d.order + 1)
        BY <1>1, <1>3, <1>5, <1>7, <1>8, <2>1, FairPicksGrow
    <2>3. ~((d.order + 1) % 2 = 1) /\ d.order + 1 \in Nat /\ d.order + 1 >= 1
        BY <1>1, <1>7, <1>8, Parity
    <2>4. FairPicks(at2, sd2, roster, f, (d.order + 1) + 1)
        <3>1. o \in Sides /\ (o = f <=> (d.order + 1) % 2 = 1)
            BY <1>5, <2>3
        <3> HIDE DEF f, o, sd1, at1
        <3>2. PICK next \in Nat : next = d.order + 1
            BY <2>3
        <3>3. next >= 1 /\ (o = f <=> next % 2 = 1) /\ FairPicks(at1, sd1, roster, f, next)
              /\ at2 = [at1 EXCEPT ![last] = next]
            BY <1>13, <2>2, <2>3, <3>1, <3>2
        <3>4. FairPicks(at2, sd2, roster, f, next + 1)
            BY ONLY <1>5, <1>12, <1>13, <3>1, <3>3, FairPicksGrow, next \in Nat,
                    roster \in SUBSET Players, last \in roster
        <3>5. QED
            BY <3>2, <3>4
    <2>5. (d.order + 1) + 1 = Capacity - 1
        BY <1>1, <1>7, CapacityType DEF LastPick
    <2>6. QED
        BY <2>4, <2>5
<1>16. /\ \A s \in Sides : d.captain[s] \in Players \ {p, last}
       /\ d.first \in Players \ {p, last}
    BY <1>3 DEF DraftOK, TwoCaptains, Sides, NoSide
<1>17. TwoCaptains(d2, sd2, at2, roster) /\ sd2[d2.first] = f
    BY <1>1, <1>14, <1>16 DEF DraftOK, TwoCaptains
<1>18. /\ \A q \in Players : sd2[q] = NoSide => at2[q] = 0
       /\ \A q \in Players \ roster : sd2[q] = NoSide
    BY <1>5, <1>14 DEF DraftOK
<1> HIDE DEF f, o, sd1, at1
<1>19. \A s \in Sides : Size(sd2, roster, s) = TeamSize
    <2>1. Size(sd1, roster, f) = Size(sd, roster, f) + 1 /\ Size(sd1, roster, o) = Size(sd, roster, o)
        BY ONLY <1>3, <1>5, <1>12, SizePlaced, sd \in [Players -> SideOrNone],
                roster \in SUBSET Players, p \in roster
    <2>2. Size(sd2, roster, o) = Size(sd1, roster, o) + 1 /\ Size(sd2, roster, f) = Size(sd1, roster, f)
        <3>1. /\ sd1 \in [Players -> SideOrNone] /\ sd1[last] = NoSide
              /\ sd2 \in [Players -> SideOrNone] /\ Placed(sd1, sd2, last, o)
            BY <1>12, <1>13
        <3>2. QED
            BY ONLY <1>5, <3>1, SizePlaced, roster \in SUBSET Players, last \in roster
    <2>3. Size(sd2, roster, f) = TeamSize /\ Size(sd2, roster, o) = TeamSize
        BY <1>10, <2>1, <2>2, TeamAssumption
    <2>4. QED
        BY <1>5, <2>3 DEF Sides
<1>20. QED
    BY <1>1, <1>15, <1>17, <1>18, <1>19 DEF DraftOK, NextPick

(* With teams of one there is nobody to pick: the draft ends as it is. *)
LEMMA DraftEndsUnpicked ==
    ASSUME NEW d \in DraftRows, NEW sd \in [Players -> SideOrNone], NEW at \in [Players -> Nat],
           NEW roster \in SUBSET Players, DraftOK(d, sd, at, roster), d.phase = "OPEN",
           On(sd, roster, NoSide) = {},
           NEW d2, d2 = [d EXCEPT !.phase = "DONE", !.picker = NoPlayer, !.order = 0, !.deadline = "NULL"]
    PROVE  DraftOK(d2, sd, at, roster)
<1>1. /\ d2.captain = d.captain /\ d2.first = d.first /\ d2.phase = "DONE"
    BY DEF DraftRows
<1>2. Size(sd, roster, NoSide) = 0
    BY FS_EmptySet DEF Size
<1>3. TeamSize = 1 /\ d.order = 1
    BY <1>2 DEF DraftOK, OpenTurn
<1>4. Capacity - 1 = d.order
    BY <1>3 DEF Capacity
<1> DEFINE f == sd[d.first]
           o == Opposite(f)
<1>5. f \in Sides /\ \A s \in Sides : s = f \/ s = o
    BY PickerTurn DEF Sides, Opposite
<1>6. Size(sd, roster, f) = 1 /\ Size(sd, roster, o) = 1
    <2>1. Size(sd, roster, f) + Size(sd, roster, o) = d.order + 1 /\ Size(sd, roster, f) = Size(sd, roster, o)
        BY <1>3 DEF DraftOK, OpenTurn
    <2>2. QED
        BY <1>3, <2>1, SizeType
<1>7. QED
    BY <1>1, <1>3, <1>4, <1>5, <1>6 DEF DraftOK, NextPick, TwoCaptains

(* An elapsed deadline changes nothing else in the row. *)
LEMMA DraftKept ==
    ASSUME NEW d, NEW sd, NEW at, NEW roster, DraftOK(d, sd, at, roster),
           NEW d2, d2.captain = d.captain, d2.first = d.first, d2.phase = d.phase,
           d2.picker = d.picker, d2.order = d.order
    PROVE  DraftOK(d2, sd, at, roster)
BY DEF DraftOK, TwoCaptains, NextPick, OpenTurn

-----------------------------------------------------------------------------
LEMMA RivalRow ==
    ASSUME NEW d, NEW d2, d2.captain = d.captain, NEW p
    PROVE  Rival(d2, p) = Rival(d, p)
BY DEF Rival

(* The veto does not care what else happens to the draft's row. *)
LEMMA VetoKept ==
    ASSUME NEW d, NEW v, NEW at, NEW by, VetoOK(v, at, by, d),
           NEW d2, d2.captain = d.captain, d.phase = "DONE" => d2.phase = "DONE"
    PROVE  VetoOK(v, at, by, d2)
BY RivalRow DEF VetoOK

LEMMA PoolSize == Cardinality(Maps) \in Nat /\ LastBan \in Nat /\ LastBan >= 1 /\ LastBan + 1 = Cardinality(Maps)
<1>1. Cardinality(Maps) \in Nat /\ Cardinality(Maps) >= 2
    BY MapsAssumption, FS_CardinalityType
<1>2. QED
    BY <1>1 DEF LastBan

(* A veto that opens on a drafted room starts over the whole pool. *)
LEMMA VetoOpens ==
    ASSUME NEW d, NEW v, NEW at \in [Maps -> Nat], NEW by, VetoOK(v, at, by, d), v.phase = "NONE",
           NEW d2, d2.captain = d.captain, d2.phase = "DONE",
           NEW first, first = d.captain["A"] \/ first = d.captain["B"],
           NEW v2, v2 = [phase |-> "OPEN", first |-> first, vetoer |-> first,
                         order |-> 1, deadline |-> "RUNNING", selected |-> NoMap]
    PROVE  VetoOK(v2, at, by, d2)
<1>1. \A m \in Maps : at[m] = 0
    BY DEF VetoOK, NextBan, FairBans
<1>2. Over(at) = Maps
    BY <1>1 DEF Over
<1>3. v2.phase = "OPEN" /\ v2.first = first /\ v2.vetoer = first /\ v2.order = 1
    OBVIOUS
<1>4. FairBans(at, by, v2.first, Rival(d2, v2.first), NextBan(v2))
    BY <1>1, <1>3 DEF FairBans, NextBan
<1>5. v2.order \in 1..LastBan
    BY <1>3, PoolSize
<1>6. v2.vetoer = IF v2.order % 2 = 1 THEN v2.first ELSE Rival(d2, v2.first)
    BY <1>3
<1>7. QED
    BY <1>2, <1>3, <1>4, <1>5, <1>6, PoolSize DEF VetoOK

(* The ban that ends a veto. *)
LastTurn(v) == v.order >= LastBan

LEMMA VetoGoesOn ==
    ASSUME NEW d \in DraftRows, NEW v \in VetoRows, NEW at \in [Maps -> Nat], NEW by \in [Maps -> PlayerOrNull],
           VetoOK(v, at, by, d), v.phase = "OPEN", ~LastTurn(v), NEW m \in Over(at),
           NEW v2, v2 = [v EXCEPT !.vetoer = Rival(d, @), !.order = @ + 1, !.deadline = "RUNNING"],
           NEW at2, at2 = [at EXCEPT ![m] = v.order], NEW by2, by2 = [by EXCEPT ![m] = v.vetoer]
    PROVE  VetoOK(v2, at2, by2, d)
<1>1. /\ v2.phase = "OPEN" /\ v2.first = v.first /\ v2.vetoer = Rival(d, v.vetoer)
      /\ v2.order = v.order + 1 /\ v.order \in Nat /\ m \in Maps
    BY DEF VetoRows, Over
<1>2. /\ v.order \in 1..LastBan
      /\ v.vetoer = IF v.order % 2 = 1 THEN v.first ELSE Rival(d, v.first)
      /\ d.phase = "DONE" /\ (v.first = d.captain["A"] \/ v.first = d.captain["B"])
    BY DEF VetoOK
<1>3. Rival(d, Rival(d, v.first)) = v.first
    BY <1>2 DEF Rival
<1>4. FairBans(at2, by2, v2.first, Rival(d, v2.first), NextBan(v2))
    <2>1. FairBans(at, by, v.first, Rival(d, v.first), v.order)
        BY DEF VetoOK, NextBan
    <2>2. v.order >= 1
        BY <1>2, PoolSize
    <2>3. FairBans(at2, by2, v.first, Rival(d, v.first), v.order + 1)
        BY <1>1, <1>2, <2>1, <2>2, FairBansGrow
    <2>4. QED
        BY <1>1, <2>3 DEF NextBan
<1>5. v2.order \in 1..LastBan
    BY <1>1, <1>2, PoolSize DEF LastTurn
<1>6. v2.vetoer = IF v2.order % 2 = 1 THEN v2.first ELSE Rival(d, v2.first)
    BY <1>1, <1>2, <1>3, Parity
<1>7. Cardinality(Over(at2)) + v2.order = Cardinality(Maps) + 1
    <2>1. Cardinality(Over(at)) = Cardinality(Over(at2)) + 1 /\ Cardinality(Over(at2)) \in Nat
        <3>1. at2 \in [Maps -> Nat] /\ Banned(at, at2, m)
            BY <1>1, <1>2, PoolSize DEF Banned
        <3>2. QED
            BY ONLY <3>1, OverBanned, at \in [Maps -> Nat], m \in Over(at)
    <2>2. Cardinality(Over(at)) + v.order = Cardinality(Maps) + 1
        BY DEF VetoOK
    <2>3. QED
        BY <1>1, <2>1, <2>2, PoolSize
<1>8. QED
    BY <1>1, <1>2, <1>4, <1>5, <1>6, <1>7 DEF VetoOK

LEMMA VetoEnds ==
    ASSUME NEW d \in DraftRows, NEW v \in VetoRows, NEW at \in [Maps -> Nat], NEW by \in [Maps -> PlayerOrNull],
           VetoOK(v, at, by, d), v.phase = "OPEN", LastTurn(v), NEW m \in Over(at),
           NEW last \in Over(at), last # m,
           NEW v2, v2 = [v EXCEPT !.phase = "DONE", !.vetoer = NoPlayer, !.order = 0,
                                  !.deadline = "NULL", !.selected = last],
           NEW at2, at2 = [at EXCEPT ![m] = v.order], NEW by2, by2 = [by EXCEPT ![m] = v.vetoer]
    PROVE  VetoOK(v2, at2, by2, d)
<1>1. /\ v2.phase = "DONE" /\ v2.first = v.first /\ v2.selected = last
      /\ v.order \in Nat /\ m \in Maps
    BY DEF VetoRows, Over
<1>2. /\ v.order \in 1..LastBan
      /\ v.vetoer = IF v.order % 2 = 1 THEN v.first ELSE Rival(d, v.first)
      /\ d.phase = "DONE" /\ (v.first = d.captain["A"] \/ v.first = d.captain["B"])
    BY DEF VetoOK
<1>3. v.order + 1 = Cardinality(Maps)
    BY <1>1, <1>2, PoolSize DEF LastTurn
<1>4. FairBans(at2, by2, v2.first, Rival(d, v2.first), NextBan(v2))
    <2>1. FairBans(at, by, v.first, Rival(d, v.first), v.order)
        BY DEF VetoOK, NextBan
    <2>2. v.order >= 1
        BY <1>2, PoolSize
    <2>3. FairBans(at2, by2, v.first, Rival(d, v.first), v.order + 1)
        BY <1>1, <1>2, <2>1, <2>2, FairBansGrow
    <2>4. QED
        BY <1>1, <1>3, <2>3 DEF NextBan
<1>5. Over(at2) = {last}
    <2>1. /\ Cardinality(Over(at)) = Cardinality(Over(at2)) + 1 /\ Cardinality(Over(at2)) \in Nat
          /\ IsFiniteSet(Over(at2)) /\ Over(at2) = Over(at) \ {m}
        <3>1. at2 \in [Maps -> Nat] /\ Banned(at, at2, m)
            BY <1>1, <1>2, PoolSize DEF Banned
        <3>2. QED
            BY ONLY <3>1, OverBanned, at \in [Maps -> Nat], m \in Over(at)
    <2>2. Cardinality(Over(at)) + v.order = Cardinality(Maps) + 1
        BY DEF VetoOK
    <2>3. Cardinality(Over(at2)) = 1
        BY <1>1, <1>3, <2>1, <2>2, PoolSize
    <2>4. PICK x : Over(at2) = {x}
        BY <2>1, <2>3, FS_Singleton
    <2>5. QED
        BY <2>1, <2>4
<1>6. QED
    BY <1>1, <1>2, <1>4, <1>5 DEF VetoOK

-----------------------------------------------------------------------------
(* The operations of one room, each as a step of its rows.                   *)
LEMMA RoomRows ==
    ASSUME TypeOK, NEW r \in Rooms
    PROVE  /\ draft[r] \in DraftRows /\ veto[r] \in VetoRows /\ members[r] \in SUBSET Players
           /\ side[r] \in [Players -> SideOrNone] /\ pickedAt[r] \in [Players -> Nat]
           /\ bannedAt[r] \in [Maps -> Nat] /\ bannedBy[r] \in [Maps -> PlayerOrNull]
           /\ match[r] \in MatchRows
BY DEF TypeOK

LEMMA RoomSets ==
    ASSUME NEW r \in Rooms
    PROVE  /\ Unassigned(r) = On(side[r], members[r], NoSide)
           /\ \A s : SideMembers(r, s) = On(side[r], members[r], s)
           /\ Unbanned(r) = Over(bannedAt[r])
           /\ \A p : OtherCaptain(r, p) = Rival(draft[r], p)
BY DEF Unassigned, SideMembers, On, Unbanned, Over, OtherCaptain, Rival, Captain

(* The setup rows of a locked room, as the step leaves them. *)
RowsOK(d, sd, at, roster, v, ban, by, m, st) ==
    /\ DraftOK(d, sd, at, roster)
    /\ VetoOK(v, ban, by, d)
    /\ MatchOK(m, v, sd)
    /\ st \in Live => m.map # NoMap

LEMMA LockedIsSetup ==
    ASSUME NEW r \in Rooms, status'[r] \in Locked,
           RowsOK(draft'[r], side'[r], pickedAt'[r], members'[r], veto'[r], bannedAt'[r], bannedBy'[r],
                  match'[r], status'[r])
    PROVE  SetupAt(r)'
BY DEF SetupAt, RowsOK, HasMatch, Locked, Live, Gathering

LEMMA UndraftedSame ==
    ASSUME NEW r \in Rooms, Undrafted(r), draft'[r] = draft[r], side'[r] = side[r],
           pickedAt'[r] = pickedAt[r], veto'[r] = veto[r], bannedAt'[r] = bannedAt[r],
           match'[r] = match[r], status'[r] \in Gathering
    PROVE  SetupAt(r)'
BY DEF Undrafted, SetupAt, HasMatch, Gathering, Locked, Live

LEMMA SetupSame ==
    ASSUME NEW r \in Rooms, SetupAt(r), SameRoom(r)
    PROVE  SetupAt(r)'
BY DEF SetupAt, SameRoom, Undrafted, HasMatch

(* The last confirmation. *)
LEMMA ConfirmSetup ==
    ASSUME TypeOK, NEW r \in Rooms, NEW p \in Players, SeatingAt(r), SetupAt(r), Confirm(r, p)
    PROVE  SetupAt(r)'
<1>1. /\ status[r] = "CONFIRMING" /\ members'[r] = members[r] /\ pickedAt'[r] = pickedAt[r]
      /\ veto'[r] = veto[r] /\ bannedAt'[r] = bannedAt[r] /\ bannedBy'[r] = bannedBy[r] /\ match'[r] = match[r]
    BY DEF Confirm, vetoVars
<1>2. Undrafted(r)
    BY <1>1 DEF SetupAt, Gathering
<1>3. CASE UNCHANGED <<status, window, draft, side>>
    BY <1>1, <1>2, <1>3, UndraftedSame DEF Gathering
<1>4. CASE status' = [status EXCEPT ![r] = "SETUP"] /\ InitializeDraft(r)
    <2> DEFINE d2 == draft'[r]  sd2 == side'[r]  none == side[r]  at == pickedAt[r]  roster == members[r]
    <2>1. PICK a \in roster, b \in roster, first \in Players :
            /\ a # b /\ first \in {a, b}
            /\ d2 = [phase |-> "OPEN", captain |-> [s \in Sides |-> IF s = "A" THEN a ELSE b],
                     first |-> first, picker |-> first, order |-> 1, deadline |-> "RUNNING"]
            /\ sd2 = [none EXCEPT ![a] = "A", ![b] = "B"]
        BY <1>4 DEF InitializeDraft, TypeOK
    <2>2. Cardinality(members[r]) = Capacity
        BY <1>1 DEF SeatingAt
    <2>3. /\ \A q \in Players : pickedAt[r][q] = 0 /\ side[r][q] = NoSide
        BY <1>2 DEF Undrafted
    <2>4. DraftOK(draft'[r], side'[r], pickedAt[r], members[r])
        <3>1. /\ roster \in SUBSET Players /\ Cardinality(roster) = Capacity
              /\ at \in [Players -> Nat] /\ none \in [Players -> SideOrNone]
              /\ \A q \in Players : at[q] = 0
              /\ \A q \in Players : none[q] = NoSide
            BY <2>2, <2>3, RoomRows
        <3> HIDE DEF d2, sd2, none, at, roster
        <3>2. DraftOK(d2, sd2, at, roster)
            BY ONLY <2>1, <3>1, DraftOpens
        <3>3. QED
            BY <3>2 DEF d2, sd2, at, roster
    <2>5. VetoOK(veto[r], bannedAt[r], bannedBy[r], draft'[r])
        BY <1>2 DEF Undrafted, NoVeto, VetoOK, FairBans, NextBan
    <2>6. status'[r] = "SETUP" /\ match[r].map = NoMap
        BY <1>2, <1>4 DEF Undrafted, HasMatch, TypeOK
    <2>7. QED
        BY <1>1, <2>4, <2>5, <2>6, LockedIsSetup DEF RowsOK, MatchOK, Locked, Live
<1>5. QED
    BY <1>3, <1>4 DEF Confirm

(* A veto that opens while the draft closes, or later by RecoverVeto. *)
LEMMA InitializeVetoSetup ==
    ASSUME TypeOK, NEW r \in Rooms, SetupAt(r), status[r] = "SETUP", veto[r].phase = "NONE",
           InitializeMapVeto(r), UNCHANGED <<status, members, bannedAt, bannedBy, match>>,
           draft'[r].captain = draft[r].captain, draft'[r].phase = "DONE",
           DraftOK(draft'[r], side'[r], pickedAt'[r], members'[r])
    PROVE  SetupAt(r)'
<1>1. PICK first \in Captains(r) :
        veto'[r] = [phase |-> "OPEN", first |-> first, vetoer |-> first,
                    order |-> 1, deadline |-> "RUNNING", selected |-> NoMap]
    BY DEF InitializeMapVeto, TypeOK
<1>2. VetoOK(veto[r], bannedAt[r], bannedBy[r], draft[r]) /\ MatchOK(match[r], veto[r], side[r])
    BY DEF SetupAt, Locked
<1>3. first = draft[r].captain["A"] \/ first = draft[r].captain["B"]
    BY DEF Captains, Captain
<1>4. VetoOK(veto'[r], bannedAt[r], bannedBy[r], draft'[r])
    BY <1>1, <1>2, <1>3, RoomRows, VetoOpens
<1>5. match[r].map = NoMap
    BY <1>2 DEF MatchOK
<1>6. QED
    BY <1>4, <1>5, LockedIsSetup DEF RowsOK, MatchOK, Locked, Live

LEMMA PickSetup ==
    ASSUME TypeOK, NEW r \in Rooms, SetupAt(r), DraftOpen(r), NEW p \in Unassigned(r), Pick(r, p),
           UNCHANGED <<status, members, bannedAt, bannedBy, match>>
    PROVE  SetupAt(r)'
<1> DEFINE d == draft[r]  sd == side[r]  at == pickedAt[r]  roster == members[r]
<1>1. /\ d \in DraftRows /\ sd \in [Players -> SideOrNone] /\ at \in [Players -> Nat]
      /\ roster \in SUBSET Players
    BY RoomRows
<1>2. /\ DraftOK(d, sd, at, roster) /\ d.phase = "OPEN" /\ status[r] = "SETUP"
      /\ VetoOK(veto[r], bannedAt[r], bannedBy[r], d) /\ MatchOK(match[r], veto[r], sd)
    BY DEF SetupAt, DraftOpen, Locked
<1>3. veto[r].phase = "NONE"
    BY <1>2 DEF VetoOK
<1>4. p \in roster /\ sd[p] = NoSide
    BY DEF Unassigned
<1>5. CASE /\ Cardinality(Unassigned(r) \ {p}) > 1
           /\ side'     = [side EXCEPT ![r][p] = PickerSide(r)]
           /\ pickedAt' = [pickedAt EXCEPT ![r][p] = draft[r].order]
           /\ draft'    = [draft EXCEPT ![r] = DraftTurnPassed(r)]
           /\ UNCHANGED veto
    <2>1. Size(sd, roster, NoSide) > 2
        <3>1. On(sd, roster, NoSide) = (Unassigned(r) \ {p}) \cup {p}
            BY RoomSets
        <3>2. IsFiniteSet(Unassigned(r) \ {p}) /\ Cardinality(Unassigned(r) \ {p}) \in Nat
            BY RosterFinite DEF Unassigned
        <3>3. Cardinality((Unassigned(r) \ {p}) \cup {p}) = Cardinality(Unassigned(r) \ {p}) + 1
            BY <3>2, FS_AddElement
        <3>4. QED
            BY <1>5, <3>1, <3>2, <3>3 DEF Size
    <2> DEFINE d2 == draft'[r]  sd2 == side'[r]  at2 == pickedAt'[r]
    <2>2. /\ sd2 = [sd EXCEPT ![p] = sd[d.picker]]
          /\ at2 = [at EXCEPT ![p] = d.order]
          /\ d2 = [d EXCEPT !.picker = Rival(d, @), !.order = @ + 1, !.deadline = "RUNNING"]
        BY <1>5, RoomSets DEF TypeOK, PickerSide, DraftTurnPassed
    <2>3. DraftOK(draft'[r], side'[r], pickedAt'[r], roster)
        <3> HIDE DEF d, sd, at, roster, d2, sd2, at2
        <3>1. DraftOK(d2, sd2, at2, roster)
            BY ONLY <1>1, <1>2, <1>4, <2>1, <2>2, DraftGoesOn
        <3>2. QED
            BY <3>1 DEF d2, sd2, at2
    <2>4. draft'[r].captain = d.captain
        BY <1>1, <2>2 DEF DraftRows
    <2>5. VetoOK(veto[r], bannedAt[r], bannedBy[r], draft'[r])
        BY <1>2, <2>4, VetoKept
    <2>6. match[r].map = NoMap
        BY <1>2, <1>3 DEF MatchOK
    <2>7. QED
        BY <1>2, <1>5, <2>3, <2>5, <2>6, LockedIsSetup DEF RowsOK, MatchOK, Locked, Live
<1>6. ASSUME NEW last \in Players, Unassigned(r) \ {p} = {last},
             side'     = [side EXCEPT ![r] = [@ EXCEPT ![p] = PickerSide(r), ![last] = LastSide(r)]],
             pickedAt' = [pickedAt EXCEPT ![r] = [@ EXCEPT ![p] = draft[r].order, ![last] = LastPick]],
             draft'    = [draft EXCEPT ![r] = ClosedDraft(r)],
             InitializeMapVeto(r)
      PROVE  SetupAt(r)'
    <2> DEFINE d2 == draft'[r]  sd2 == side'[r]  at2 == pickedAt'[r]  lastSide == LastSide(r)
    <2>1. On(sd, roster, NoSide) = {p, last} /\ p # last /\ last \in roster
        BY <1>6, RoomSets DEF Unassigned
    <2>2. lastSide = IF Size(sd, roster, "A") + (IF sd[d.picker] = "A" THEN 1 ELSE 0) = TeamSize - 1
                     THEN "A" ELSE "B"
        BY RoomSets DEF LastSide, Size, PickerSide
    <2>3. /\ sd2 = [sd EXCEPT ![p] = sd[d.picker], ![last] = lastSide]
          /\ at2 = [at EXCEPT ![p] = d.order, ![last] = LastPick]
          /\ d2 = [d EXCEPT !.phase = "DONE", !.picker = NoPlayer, !.order = 0, !.deadline = "NULL"]
        BY <1>6 DEF TypeOK, PickerSide, ClosedDraft
    <2>4. DraftOK(draft'[r], side'[r], pickedAt'[r], roster)
        <3> HIDE DEF d, sd, at, roster, d2, sd2, at2, lastSide
        <3>1. DraftOK(d2, sd2, at2, roster)
            BY ONLY <1>1, <1>2, <1>4, <2>1, <2>2, <2>3, DraftEnds
        <3>2. QED
            BY <3>1 DEF d2, sd2, at2
    <2>5. draft'[r].captain = d.captain /\ draft'[r].phase = "DONE"
        BY <1>1, <2>3 DEF DraftRows
    <2>6. QED
        BY <1>2, <1>3, <1>6, <2>4, <2>5, InitializeVetoSetup
<1>7. QED
    BY <1>5, <1>6 DEF Pick

LEMMA ReconcileDraftSetup ==
    ASSUME TypeOK, NEW r \in Rooms, SetupAt(r), ReconcileDraft(r)
    PROVE  SetupAt(r)'
<1>1. DraftOpen(r) /\ UNCHANGED <<status, members, bannedAt, bannedBy, match>>
    BY DEF ReconcileDraft, roomVars
<1>2. CASE \E p \in Unassigned(r) : Pick(r, p)
    BY <1>1, <1>2, PickSetup
<1>3. CASE /\ Unassigned(r) = {}
           /\ draft' = [draft EXCEPT ![r] = ClosedDraft(r)]
           /\ InitializeMapVeto(r)
           /\ UNCHANGED <<side, pickedAt>>
    <2>1. /\ status[r] = "SETUP" /\ draft[r].phase = "OPEN" /\ DraftOK(draft[r], side[r], pickedAt[r], members[r])
          /\ VetoOK(veto[r], bannedAt[r], bannedBy[r], draft[r])
        BY <1>1 DEF SetupAt, DraftOpen, Locked
    <2>2. veto[r].phase = "NONE"
        BY <2>1 DEF VetoOK
    <2>3. draft'[r] = [draft[r] EXCEPT !.phase = "DONE", !.picker = NoPlayer, !.order = 0, !.deadline = "NULL"]
        BY <1>3 DEF TypeOK, ClosedDraft
    <2>4. DraftOK(draft'[r], side[r], pickedAt[r], members[r])
        BY <1>3, <2>1, <2>3, RoomRows, RoomSets, DraftEndsUnpicked
    <2>5. draft'[r].captain = draft[r].captain /\ draft'[r].phase = "DONE"
        BY <2>3, RoomRows DEF DraftRows
    <2>6. QED
        BY <1>1, <1>3, <2>1, <2>2, <2>4, <2>5, InitializeVetoSetup
<1>4. QED
    BY <1>2, <1>3 DEF ReconcileDraft

LEMMA RecoverVetoSetup ==
    ASSUME TypeOK, NEW r \in Rooms, SetupAt(r), RecoverVeto(r)
    PROVE  SetupAt(r)'
BY InitializeVetoSetup DEF RecoverVeto, SetupAt, Locked, roomVars, draftVars

LEMMA MaterializeSetup ==
    ASSUME TypeOK, NEW r \in Rooms, NEW map \in Maps, MaterializeCompetitiveMatch(r, map),
           draft'[r] = draft[r], side'[r] = side[r], pickedAt'[r] = pickedAt[r], members'[r] = members[r],
           DraftOK(draft[r], side[r], pickedAt[r], members[r]),
           VetoOK(veto'[r], bannedAt'[r], bannedBy'[r], draft[r]),
           veto'[r].phase = "DONE", veto'[r].selected = map
    PROVE  SetupAt(r)'
<1>1. match'[r] = [map |-> map, team |-> side[r]] /\ status'[r] = "READY"
    BY DEF MaterializeCompetitiveMatch, TypeOK
<1>2. match'[r].map # NoMap
    BY <1>1, MapsAssumption
<1>3. QED
    BY <1>1, <1>2, LockedIsSetup DEF RowsOK, MatchOK, Locked, Live

LEMMA BanSetup ==
    ASSUME TypeOK, NEW r \in Rooms, SetupAt(r), VetoOpen(r), NEW m \in Unbanned(r), Ban(r, m),
           UNCHANGED <<members, draftVars>>
    PROVE  SetupAt(r)'
<1> DEFINE d == draft[r]  v == veto[r]  at == bannedAt[r]  by == bannedBy[r]
           v2 == veto'[r]  at2 == bannedAt'[r]  by2 == bannedBy'[r]
<1>1. /\ d \in DraftRows /\ v \in VetoRows /\ at \in [Maps -> Nat] /\ by \in [Maps -> PlayerOrNull]
    BY RoomRows
<1>2. /\ VetoOK(v, at, by, d) /\ v.phase = "OPEN" /\ status[r] = "SETUP"
      /\ DraftOK(d, side[r], pickedAt[r], members[r]) /\ MatchOK(match[r], v, side[r])
    BY DEF SetupAt, VetoOpen, Locked
<1>3. m \in Over(at)
    BY RoomSets
<1>4. /\ at2 = [at EXCEPT ![m] = v.order] /\ by2 = [by EXCEPT ![m] = v.vetoer]
      /\ draft'[r] = d /\ side'[r] = side[r] /\ pickedAt'[r] = pickedAt[r] /\ members'[r] = members[r]
    BY DEF Ban, TypeOK, draftVars
<1>5. CASE /\ veto[r].order < LastBan
           /\ veto' = [veto EXCEPT ![r] = VetoTurnPassed(r)]
           /\ UNCHANGED <<status, match>>
    <2>1. v2 = [v EXCEPT !.vetoer = Rival(d, @), !.order = @ + 1, !.deadline = "RUNNING"]
        BY <1>5, RoomSets DEF TypeOK, VetoTurnPassed
    <2>2. ~LastTurn(v)
        BY <1>1, <1>5, PoolSize DEF LastTurn, VetoRows
    <2>3. VetoOK(veto'[r], bannedAt'[r], bannedBy'[r], d)
        <3> HIDE DEF d, v, at, by, v2, at2, by2
        <3>1. VetoOK(v2, at2, by2, d)
            BY ONLY <1>1, <1>2, <1>3, <1>4, <2>1, <2>2, VetoGoesOn
        <3>2. QED
            BY <3>1 DEF v2, at2, by2
    <2>4. match[r].map = NoMap
        BY <1>2 DEF MatchOK
    <2>5. QED
        BY <1>2, <1>4, <1>5, <2>3, <2>4, LockedIsSetup DEF RowsOK, MatchOK, Locked, Live
<1>6. ASSUME veto[r].order >= LastBan, NEW last \in Unbanned(r) \ {m},
             veto' = [veto EXCEPT ![r] = ClosedVeto(r, last)],
             MaterializeCompetitiveMatch(r, last)
      PROVE  SetupAt(r)'
    <2>1. v2 = [v EXCEPT !.phase = "DONE", !.vetoer = NoPlayer, !.order = 0,
                          !.deadline = "NULL", !.selected = last]
        BY <1>6 DEF TypeOK, ClosedVeto
    <2>2. LastTurn(v)
        BY <1>6 DEF LastTurn
    <2>3. last \in Over(at) /\ last # m /\ last \in Maps
        BY RoomSets DEF Over
    <2>4. VetoOK(veto'[r], bannedAt'[r], bannedBy'[r], d)
        <3> HIDE DEF d, v, at, by, v2, at2, by2
        <3>1. VetoOK(v2, at2, by2, d)
            BY ONLY <1>1, <1>2, <1>3, <1>4, <2>1, <2>2, <2>3, VetoEnds
        <3>2. QED
            BY <3>1 DEF v2, at2, by2
    <2>5. veto'[r].phase = "DONE" /\ veto'[r].selected = last
        BY <1>1, <2>1 DEF VetoRows
    <2>6. QED
        BY <1>2, <1>4, <1>6, <2>3, <2>4, <2>5, MaterializeSetup
<1>7. QED
    BY <1>5, <1>6 DEF Ban

LEMMA CompleteSetupSetup ==
    ASSUME TypeOK, NEW r \in Rooms, SetupAt(r), CompleteSetup(r)
    PROVE  SetupAt(r)'
<1>1. /\ status[r] = "SETUP" /\ veto[r].phase = "DONE"
      /\ UNCHANGED <<members, draft, side, pickedAt, veto, bannedAt, bannedBy>>
    BY DEF CompleteSetup, draftVars, vetoVars
<1>2. /\ VetoOK(veto[r], bannedAt[r], bannedBy[r], draft[r])
      /\ DraftOK(draft[r], side[r], pickedAt[r], members[r]) /\ MatchOK(match[r], veto[r], side[r])
    BY <1>1 DEF SetupAt, Locked
<1>3. CASE HasMatch(r) /\ status' = [status EXCEPT ![r] = "READY"] /\ UNCHANGED match
    BY <1>1, <1>2, <1>3, LockedIsSetup DEF RowsOK, HasMatch, Locked, Live, TypeOK
<1>4. CASE MaterializeCompetitiveMatch(r, veto[r].selected)
    <2>1. veto[r].selected \in Maps
        BY <1>1, <1>2 DEF VetoOK, Over
    <2>2. QED
        BY <1>1, <1>2, <1>4, <2>1, MaterializeSetup
<1>5. QED
    BY <1>3, <1>4 DEF CompleteSetup

LEMMA ServerSetup ==
    ASSUME TypeOK, NEW r \in Rooms, SetupAt(r), Allocate(r) \/ Finalize(r)
    PROVE  SetupAt(r)'
<1>1. /\ status[r] \in Live /\ status'[r] \in Live
      /\ UNCHANGED <<members, draft, side, pickedAt, veto, bannedAt, bannedBy, match>>
    BY DEF Allocate, Finalize, draftVars, vetoVars, TypeOK, Live
<1>2. QED
    BY <1>1, LockedIsSetup DEF RowsOK, HasMatch, Locked, SetupAt

LEMMA ElapseSetup ==
    ASSUME TypeOK, NEW r \in Rooms, SetupAt(r), Elapse(r)
    PROVE  SetupAt(r)'
<1>1. UNCHANGED <<status, members, side, pickedAt, bannedAt, bannedBy, match>>
    BY DEF Elapse, roomVars
<1>2. CASE UNCHANGED <<draft, veto>>
    BY <1>1, <1>2 DEF SetupAt, Undrafted, HasMatch
<1>3. CASE status[r] = "SETUP" /\ draft' = [draft EXCEPT ![r].deadline = "ELAPSED"] /\ UNCHANGED veto
           /\ draft[r].deadline = "RUNNING"
    <2>1. /\ VetoOK(veto[r], bannedAt[r], bannedBy[r], draft[r])
          /\ DraftOK(draft[r], side[r], pickedAt[r], members[r]) /\ MatchOK(match[r], veto[r], side[r])
        BY <1>3 DEF SetupAt, Locked
    <2>2. draft'[r] = [draft[r] EXCEPT !.deadline = "ELAPSED"]
        BY <1>3 DEF TypeOK
    <2>3. DraftOK(draft'[r], side[r], pickedAt[r], members[r])
        <3>1. /\ draft'[r].captain = draft[r].captain /\ draft'[r].first = draft[r].first
              /\ draft'[r].phase = draft[r].phase /\ draft'[r].picker = draft[r].picker
              /\ draft'[r].order = draft[r].order
            BY <2>2, RoomRows DEF DraftRows
        <3>2. QED
            BY <2>1, <3>1, DraftKept
    <2>4. draft'[r].captain = draft[r].captain /\ draft'[r].phase = draft[r].phase
        BY <2>2, RoomRows DEF DraftRows
    <2>5. VetoOK(veto[r], bannedAt[r], bannedBy[r], draft'[r])
        BY <2>1, <2>4, VetoKept
    <2>6. QED
        BY <1>1, <1>3, <2>1, <2>3, <2>5, LockedIsSetup DEF RowsOK, Locked, Live
<1>4. CASE status[r] = "SETUP" /\ veto' = [veto EXCEPT ![r].deadline = "ELAPSED"] /\ UNCHANGED draft
    <2>1. /\ VetoOK(veto[r], bannedAt[r], bannedBy[r], draft[r])
          /\ DraftOK(draft[r], side[r], pickedAt[r], members[r]) /\ MatchOK(match[r], veto[r], side[r])
        BY <1>4 DEF SetupAt, Locked
    <2>2. veto'[r] = [veto[r] EXCEPT !.deadline = "ELAPSED"]
        BY <1>4 DEF TypeOK
    <2>3. /\ veto'[r].phase = veto[r].phase /\ veto'[r].first = veto[r].first
          /\ veto'[r].vetoer = veto[r].vetoer /\ veto'[r].order = veto[r].order
          /\ veto'[r].selected = veto[r].selected
        BY <2>2, RoomRows DEF VetoRows
    <2>4. VetoOK(veto'[r], bannedAt[r], bannedBy[r], draft[r])
        BY <2>1, <2>3 DEF VetoOK, NextBan
    <2>5. MatchOK(match[r], veto'[r], side[r])
        BY <2>1, <2>3 DEF MatchOK
    <2>6. QED
        BY <1>1, <1>4, <2>1, <2>4, <2>5, LockedIsSetup DEF RowsOK, Locked, Live
<1>5. QED
    BY <1>2, <1>3, <1>4 DEF Elapse

LEMMA SetupStep ==
    ASSUME TypeOK, NEW r \in Rooms, SeatingAt(r), SetupAt(r), RoomStep(r)
    PROVE  SetupAt(r)'
<1>1. ASSUME NEW p \in Players, Create(r, p) \/ Join(r, p) \/ Leave(r, p)
      PROVE  SetupAt(r)'
    <2>1. Undrafted(r) /\ status'[r] \in Gathering
        BY <1>1 DEF Create, Join, Leave, Gathering, SetupAt, TypeOK
    <2>2. UNCHANGED <<draft, side, pickedAt, veto, bannedAt, match>>
        BY <1>1 DEF Create, Join, Leave, draftVars, vetoVars
    <2>3. QED
        BY <2>1, <2>2, UndraftedSame
<1>2. ASSUME ReconcileConfirmation(r), status'[r] = "FORMING"
      PROVE  SetupAt(r)'
    BY <1>2, UndraftedSame DEF ReconcileConfirmation, WindowElapsed, SetupAt, Gathering, draftVars, vetoVars
<1>3. ASSUME status'[r] \in Final
      PROVE  SetupAt(r)'
    BY <1>3 DEF Final, SetupAt, Gathering, Locked, Live
<1>4. ASSUME NEW p \in Players, Cancel(r, p) \/ SeriesEnd(r)
      PROVE  SetupAt(r)'
    BY <1>3, <1>4 DEF Cancel, SeriesEnd, TypeOK, Final
<1>5. ASSUME ReconcileConfirmation(r)
      PROVE  SetupAt(r)'
    BY <1>2, <1>3, <1>5 DEF ReconcileConfirmation, TypeOK, Final
<1>6. ASSUME NEW p \in Players, NEW target \in Players, DraftPick(r, p, target)
      PROVE  SetupAt(r)'
    BY <1>6, PickSetup DEF DraftPick, roomVars
<1>7. ASSUME NEW p \in Players, NEW m \in Maps, MapVetoBan(r, p, m)
      PROVE  SetupAt(r)'
    BY <1>7, BanSetup DEF MapVetoBan
<1>8. ASSUME ReconcileVeto(r)
      PROVE  SetupAt(r)'
    BY <1>8, BanSetup DEF ReconcileVeto
<1>9. ASSUME SeriesEnd(r)
      PROVE  SetupAt(r)'
    BY <1>3, <1>9 DEF SeriesEnd, TypeOK, Final
<1>10. QED
    BY <1>1, <1>4, <1>5, <1>6, <1>7, <1>8, <1>9, ConfirmSetup, ReconcileDraftSetup, RecoverVetoSetup,
       CompleteSetupSetup, ServerSetup, ElapseSetup DEF RoomStep, ReconcileRoom

-----------------------------------------------------------------------------
(* What every run of a room keeps, whatever state it starts in. *)
SetupInv == TypeInv /\ \A r \in Rooms : SeatingAt(r) /\ SetupAt(r)

LEMMA SetupInvStep == SetupInv /\ [Next]_vars => SetupInv'
<1> SUFFICES ASSUME SetupInv, [Next]_vars
             PROVE  SetupInv'
    OBVIOUS
<1>1. TypeInv' /\ TypeOK
    BY TypeInvStep DEF SetupInv, TypeInv
<1>2. SeatingInv'
    BY SeatingInvStep DEF SetupInv, SeatingInv
<1>3. ASSUME NEW r \in Rooms, RoomStep(r), \A q \in Rooms \ {r} : SameRoom(q)
      PROVE  \A q \in Rooms : SetupAt(q)'
    BY <1>1, <1>3, SetupStep, SetupSame DEF SetupInv
<1>4. ASSUME \A q \in Rooms : SameRoom(q)
      PROVE  \A q \in Rooms : SetupAt(q)'
    BY <1>4, SetupSame DEF SetupInv
<1>5. QED
    BY <1>1, <1>2, <1>3, <1>4, OneRoomAtATime DEF SetupInv, SeatingInv

LEMMA SetupInvInit == Init => SetupInv
<1>1. Init => TypeInv
    BY TypeInvInit
<1>2. ASSUME Init, NEW r \in Rooms
      PROVE  SeatingAt(r) /\ SetupAt(r)
    BY <1>2 DEF Init, SeatingAt, SetupAt, Undrafted, HasMatch, NoMatch, Active, Gathering, Locked, Live
<1>3. QED
    BY <1>1, <1>2 DEF SetupInv

(* The invariant makes every setup fair and complete. *)
LEMMA FairWhenOK ==
    ASSUME NEW d \in DraftRows, NEW sd \in [Players -> SideOrNone], NEW at \in [Players -> Nat],
           NEW roster \in SUBSET Players, DraftOK(d, sd, at, roster)
    PROVE  /\ \A p, q \in roster : at[p] = at[q] /\ at[p] # 0 => p = q
           /\ \A p \in roster : at[p] # 0 => (sd[p] = sd[d.first] <=> at[p] % 2 = 1)
           /\ d.phase = "DONE" => /\ \A s \in Sides : Size(sd, roster, s) = TeamSize
                                  /\ {at[p] : p \in roster} = 0..LastPick
<1>1. FairPicks(at, sd, roster, sd[d.first], NextPick(d))
    BY DEF DraftOK
<1>2. ASSUME d.phase = "DONE"
      PROVE  {at[p] : p \in roster} = 0..LastPick
    <2>1. /\ \A p \in roster : at[p] < Capacity - 1 /\ at[p] \in Nat
          /\ \A k \in 1..((Capacity - 1) - 1) : \E p \in roster : at[p] = k
        BY <1>1, <1>2 DEF FairPicks, NextPick
    <2>2. (Capacity - 1) - 1 = LastPick /\ LastPick \in Nat
        BY CapacityType DEF LastPick
    <2>3. \A p \in roster : at[p] \in 0..LastPick
        BY <2>1, <2>2, CapacityType
    <2>4. ASSUME NEW k \in 0..LastPick
          PROVE  \E p \in roster : at[p] = k
        <3>1. CASE k = 0
            BY <3>1 DEF DraftOK, TwoCaptains, Sides
        <3>2. CASE k # 0
            <4>1. k \in 1..LastPick
                BY <2>2, <3>2
            <4>2. QED
                BY <2>1, <2>2, <4>1
        <3>3. QED
            BY <3>1, <3>2
    <2>5. QED
        BY <2>3, <2>4
<1>3. QED
    BY <1>1, <1>2 DEF FairPicks, DraftOK

LEMMA VetoFairWhenOK ==
    ASSUME NEW d, NEW v, NEW at \in [Maps -> Nat], NEW by,
           VetoOK(v, at, by, d), v.phase # "NONE"
    PROVE  /\ \A m, n \in Maps :
                /\ at[m] = at[n] /\ at[m] # 0 => m = n
                /\ at[n] = at[m] + 1 /\ at[m] # 0 => {by[m], by[n]} = {d.captain["A"], d.captain["B"]}
           /\ v.phase = "DONE" => Over(at) = {v.selected}
<1>1. FairBans(at, by, v.first, Rival(d, v.first), NextBan(v))
    BY DEF VetoOK
<1>2. ASSUME NEW m \in Maps, NEW n \in Maps, at[n] = at[m] + 1, at[m] # 0
      PROVE  {by[m], by[n]} = {d.captain["A"], d.captain["B"]}
    <2>1. at[m] \in Nat /\ at[n] \in Nat /\ at[n] # 0
        BY <1>2
    <2>2. at[n] % 2 = 1 <=> at[m] % 2 # 1
        BY <1>2, <2>1, Parity
    <2>3. {by[m], by[n]} = {v.first, Rival(d, v.first)}
        BY <1>1, <1>2, <2>1, <2>2 DEF FairBans
    <2>4. v.first = d.captain["A"] \/ v.first = d.captain["B"]
        BY DEF VetoOK
    <2>5. QED
        BY <2>3, <2>4 DEF Rival
<1>3. QED
    BY <1>1, <1>2 DEF FairBans, VetoOK

LEMMA SetupInvFair == SetupInv => SetupFair
<1> SUFFICES ASSUME SetupInv
             PROVE  DraftFair /\ VetoFair
    BY DEF SetupFair
<1>1. TypeOK
    BY DEF SetupInv, TypeInv
<1>2. ASSUME NEW r \in Rooms, status[r] \in Locked
      PROVE  /\ DraftOK(draft[r], side[r], pickedAt[r], members[r])
             /\ VetoOK(veto[r], bannedAt[r], bannedBy[r], draft[r])
    BY <1>2 DEF SetupInv, SetupAt
<1>3. DraftFair
    BY <1>1, <1>2, RoomRows, RoomSets, FairWhenOK DEF DraftFair, Size
<1>4. VetoFair
    <2>1. ASSUME NEW r \in Rooms, status[r] \in Locked, veto[r].phase # "NONE"
          PROVE  /\ \A m, n \in Maps :
                      /\ bannedAt[r][m] = bannedAt[r][n] /\ bannedAt[r][m] # 0 => m = n
                      /\ bannedAt[r][n] = bannedAt[r][m] + 1 /\ bannedAt[r][m] # 0 =>
                            {bannedBy[r][m], bannedBy[r][n]} = Captains(r)
                 /\ veto[r].phase = "DONE" => Unbanned(r) = {veto[r].selected}
        <3> DEFINE d == draft[r]  v == veto[r]  at == bannedAt[r]  by == bannedBy[r]
        <3>1. VetoOK(v, at, by, d) /\ v.phase # "NONE" /\ at \in [Maps -> Nat]
            BY <1>1, <1>2, <2>1, RoomRows
        <3> HIDE DEF d, v, at, by
        <3>2. /\ \A m, n \in Maps :
                    /\ at[m] = at[n] /\ at[m] # 0 => m = n
                    /\ at[n] = at[m] + 1 /\ at[m] # 0 => {by[m], by[n]} = {d.captain["A"], d.captain["B"]}
              /\ v.phase = "DONE" => Over(at) = {v.selected}
            BY ONLY <3>1, VetoFairWhenOK
        <3>3. QED
            BY <3>2, RoomSets DEF Captains, Captain, d, v, at, by
    <2>2. QED
        BY <2>1 DEF VetoFair
<1>5. QED
    BY <1>3, <1>4

(* The invariant keeps a live room's match true to its draft and its veto. *)
LEMMA SetupInvFaithful == SetupInv => RecoveredMatchFaithful
<1> SUFFICES ASSUME SetupInv, NEW r \in Rooms, status[r] \in Live
             PROVE  /\ match[r].map = veto[r].selected /\ HasMatch(r)
                    /\ Unbanned(r) = {veto[r].selected}
                    /\ \A s \in Sides : SideMembers(r, s) = {p \in Players : match[r].team[p] = s}
    BY DEF RecoveredMatchFaithful
<1>1. TypeOK
    BY DEF SetupInv, TypeInv
<1>2. /\ DraftOK(draft[r], side[r], pickedAt[r], members[r])
      /\ VetoOK(veto[r], bannedAt[r], bannedBy[r], draft[r])
      /\ MatchOK(match[r], veto[r], side[r]) /\ HasMatch(r)
    BY DEF SetupInv, SetupAt, Locked
<1>3. veto[r].phase = "DONE" /\ match[r].map = veto[r].selected /\ match[r].team = side[r]
    BY <1>2 DEF MatchOK, HasMatch
<1>4. Unbanned(r) = {veto[r].selected}
    BY <1>2, <1>3, RoomSets DEF VetoOK
<1>5. \A p \in Players \ members[r] : side[r][p] = NoSide
    BY <1>2 DEF DraftOK
<1>6. \A s \in Sides : SideMembers(r, s) = {p \in Players : match[r].team[p] = s}
    BY <1>1, <1>3, <1>5, RoomRows DEF SideMembers, Sides, NoSide
<1>7. QED
    BY <1>2, <1>3, <1>4, <1>6

(* Whoever acts and whatever times out, picks and bans alternate, every order *)
(* is used once, teams come out even and one map is left, in every reachable  *)
(* state of a room that goes through MatchRoom's life from its creation.      *)
THEOREM FairSetup == Spec => []SetupFair
<1>1. Init => SetupInv
    BY SetupInvInit
<1>2. SetupInv /\ [Next]_vars => SetupInv'
    BY SetupInvStep
<1>3. SetupInv => SetupFair
    BY SetupInvFair
<1>4. QED
    BY <1>1, <1>2, <1>3, PTL DEF Spec

-----------------------------------------------------------------------------
(* Starts with a locked room: what an order of seats says of its sides.      *)
LEMMA TurnFacts ==
    ASSUME NEW turn \in SeatOrders
    PROVE  /\ turn \in [Players -> 1..Capacity]
           /\ \A p, q \in Players : turn[p] = turn[q] => p = q
           /\ \A k \in 1..Capacity : Drawn(turn, k) \in Players /\ turn[Drawn(turn, k)] = k
           /\ \A p \in Players : \A k \in 1..Capacity : turn[p] = k <=> p = Drawn(turn, k)
           /\ IsFiniteSet(Players) /\ Cardinality(Players) = Capacity
<1>1. turn \in Turns
    BY SeatOrdersAssumption
<1>2. /\ turn \in [Players -> 1..Capacity]
      /\ \A p, q \in Players : turn[p] = turn[q] => p = q
      /\ \A k \in 1..Capacity : \E p \in Players : turn[p] = k
    BY <1>1 DEF Turns, Bijection, Injection, Surjection, IsInjective
<1>3. \A k \in 1..Capacity : Drawn(turn, k) \in Players /\ turn[Drawn(turn, k)] = k
    BY <1>2 DEF Drawn
<1>4. Cardinality(Players) = Cardinality(1..Capacity)
    BY <1>1, PlayersAssumption, FS_Bijection DEF Turns, ExistsBijection
<1>5. Cardinality(1..Capacity) = Capacity
    BY FS_Interval, CapacityType
<1>6. QED
    BY <1>2, <1>3, <1>4, <1>5, PlayersAssumption

LEMMA Halve ==
    ASSUME NEW n \in Nat, NEW e \in {0, 1}, n % 2 = e
    PROVE  n = 2 * ((n + e) \div 2) - e
<1>1. CASE e = 0
    BY <1>1
<1>2. CASE e = 1
    BY <1>2
<1>3. QED
    BY <1>1, <1>2

(* Drafting in turns gives both sides half of the players. *)
LEMMA EvenTurns ==
    ASSUME NEW turn \in SeatOrders
    PROVE  \A s \in Sides : Size(TurnSide(turn), Players, s) = TeamSize
<1> DEFINE offset(s) == IF s = "A" THEN 1 ELSE 0
           nth(s)    == [k \in 1..TeamSize |-> Drawn(turn, 2 * k - offset(s))]
<1>1. ASSUME NEW s \in Sides
      PROVE  Size(TurnSide(turn), Players, s) = TeamSize
    <2> DEFINE half == On(TurnSide(turn), Players, s)
    <2>1. half = {p \in Players : turn[p] % 2 = offset(s)}
        <3>1. \A p \in Players : turn[p] \in Nat
            BY TurnFacts
        <3>2. \A p \in Players : turn[p] % 2 \in {0, 1}
            BY <3>1
        <3>3. QED
            BY <1>1, <3>2 DEF On, TurnSide, Sides
    <2>2. \A k \in 1..TeamSize : 2 * k - offset(s) \in 1..Capacity /\ (2 * k - offset(s)) % 2 = offset(s)
        BY TeamAssumption DEF Capacity
    <2>3. \A k \in 1..TeamSize : nth(s)[k] \in Players /\ turn[nth(s)[k]] = 2 * k - offset(s)
        BY <2>2, TurnFacts
    <2>4. nth(s) \in [1..TeamSize -> half]
        BY <2>1, <2>2, <2>3
    <2>5. \A j, k \in 1..TeamSize : nth(s)[j] = nth(s)[k] => j = k
        <3>1. ASSUME NEW j \in 1..TeamSize, NEW k \in 1..TeamSize, nth(s)[j] = nth(s)[k]
              PROVE  j = k
            <4>1. 2 * j - offset(s) = 2 * k - offset(s)
                BY <2>3, <3>1
            <4>2. QED
                BY <4>1
        <3>2. QED
            BY <3>1
    <2>6. ASSUME NEW p \in half
          PROVE  \E k \in 1..TeamSize : nth(s)[k] = p
        <3>1. p \in Players /\ turn[p] \in 1..Capacity /\ turn[p] % 2 = offset(s)
            BY <2>1, TurnFacts
        <3>2. PICK k \in 1..TeamSize : turn[p] = 2 * k - offset(s)
            <4>1. (turn[p] + offset(s)) \div 2 \in 1..TeamSize
                BY <3>1, TeamAssumption DEF Capacity
            <4>2. turn[p] = 2 * ((turn[p] + offset(s)) \div 2) - offset(s)
                BY <3>1, Halve, CapacityType
            <4>3. QED
                BY <4>1, <4>2
        <3>3. nth(s)[k] = p
            BY <2>3, <3>1, <3>2, TurnFacts
        <3>4. QED
            BY <3>3
    <2> HIDE DEF half, nth
    <2>7. nth(s) \in Bijection(1..TeamSize, half)
        BY <2>4, <2>5, <2>6 DEF Bijection, Injection, Surjection, IsInjective
    <2>8. IsFiniteSet(1..TeamSize) /\ Cardinality(1..TeamSize) = TeamSize
        BY TeamAssumption, FS_Interval
    <2>9. Cardinality(half) = Cardinality(1..TeamSize)
        BY <2>7, <2>8, FS_Bijection DEF ExistsBijection
    <2>10. QED
        BY <2>8, <2>9 DEF Size, half
<1>2. QED
    BY <1>1

RowTypes ==
    /\ draft    \in [Rooms -> DraftRows]
    /\ side     \in [Rooms -> [Players -> SideOrNone]]
    /\ pickedAt \in [Rooms -> [Players -> Nat]]
    /\ veto     \in [Rooms -> VetoRows]
    /\ bannedAt \in [Rooms -> [Maps -> Nat]]
    /\ bannedBy \in [Rooms -> [Maps -> PlayerOrNull]]
    /\ match    \in [Rooms -> MatchRows]

(* A start with one locked room whose rows are in step is in the invariant. *)
LEMMA LockedStart ==
    ASSUME NEW r0 \in Rooms, NEW host \in Players, LockedRoom(r0, host), RowTypes,
           Cardinality(Players) = Capacity,
           DraftOK(draft[r0], side[r0], pickedAt[r0], Players),
           VetoOK(veto[r0], bannedAt[r0], bannedBy[r0], draft[r0]),
           MatchOK(match[r0], veto[r0], side[r0]),
           \A r \in Rooms \ {r0} : Undrafted(r)
    PROVE  SetupInv
<1>1. TypeOK
    BY BoundsAssumption DEF LockedRoom, RowTypes, TypeOK, Statuses, PlayerOrNull, Deadlines
<1>2. ASSUME NEW r \in Rooms, draft[r].phase = "OPEN"
      PROVE  /\ \A s \in Sides : Captain(r, s) \in Players /\ side[r][Captain(r, s)] \in Sides
             /\ draft[r].picker \in Captains(r)
    <2>1. r = r0
        BY <1>2 DEF Undrafted, NoDraft
    <2>2. QED
        BY <1>2, <2>1 DEF DraftOK, TwoCaptains, OpenTurn, Captain, Captains
<1>3. TypeInv
    BY <1>1, <1>2 DEF TypeInv, PickerSided
<1>4. /\ status[r0] = "SETUP" /\ members[r0] = Players /\ creator[r0] = host
      /\ \A r \in Rooms \ {r0} : status[r] = "NONE" /\ members[r] = {}
    BY DEF LockedRoom
<1>5. \A r \in Rooms : SeatingAt(r)
    BY <1>4 DEF SeatingAt, Active, Gathering, Locked, Live, Final
<1>6. SetupAt(r0)
    BY <1>4 DEF SetupAt, Gathering, Locked, Live
<1>7. \A r \in Rooms \ {r0} : SetupAt(r)
    BY <1>4 DEF SetupAt, Gathering, Locked, Live
<1>8. QED
    BY <1>3, <1>5, <1>6, <1>7 DEF SetupInv

LEMMA EmptyRowTypes ==
    /\ NoDraft \in DraftRows /\ NoDraft.phase = "NONE"
    /\ NoVeto \in VetoRows /\ NoVeto.phase = "NONE"
    /\ NoMatch \in MatchRows /\ NoMatch.map = NoMap
    /\ NoSide \in SideOrNone /\ Sides \subseteq SideOrNone
BY DEF NoDraft, DraftRows, NoVeto, NoMatch, VetoRows, MatchRows, Phases, PlayerOrNull, MapOrNull,
       Deadlines, SideOrNone

(* A roster that has just been locked, as Confirm leaves it. *)
LEMMA LockedInitSetup == LockedInit => SetupInv
<1> SUFFICES ASSUME LockedInit
             PROVE  SetupInv
    OBVIOUS
<1>1. PICK r0 \in Rooms, host \in Players, turn \in SeatOrders :
        \E first \in CaptainsOf(turn) :
        LET row == [NoDraft EXCEPT !.phase = "OPEN", !.captain = DrawnCaptains(turn), !.first = first,
                                   !.picker = first, !.order = 1, !.deadline = "RUNNING"]
        IN
        /\ LockedRoom(r0, host)
        /\ draft     = [r \in Rooms |-> IF r = r0 THEN row ELSE NoDraft]
        /\ side      = [r \in Rooms |-> [p \in Players |->
                           IF r = r0 /\ turn[p] <= 2 THEN TurnSide(turn)[p] ELSE NoSide]]
        /\ pickedAt  = [r \in Rooms |-> [p \in Players |-> 0]]
        /\ veto      = [r \in Rooms |-> NoVeto]
        /\ bannedAt  = [r \in Rooms |-> [m \in Maps |-> 0]]
        /\ bannedBy  = [r \in Rooms |-> [m \in Maps |-> NoPlayer]]
        /\ match     = [r \in Rooms |-> NoMatch]
    BY DEF LockedInit
<1> DEFINE a == Drawn(turn, 1)
           b == Drawn(turn, 2)
           d == draft[r0]
           sd == side[r0]
           at == pickedAt[r0]
<1>2. a \in Players /\ b \in Players /\ turn[a] = 1 /\ turn[b] = 2 /\ a # b
    BY TurnFacts, CapacityType
<1>3. PICK first \in CaptainsOf(turn) :
        draft = [r \in Rooms |-> IF r = r0
                    THEN [NoDraft EXCEPT !.phase = "OPEN", !.captain = DrawnCaptains(turn), !.first = first,
                                         !.picker = first, !.order = 1, !.deadline = "RUNNING"]
                    ELSE NoDraft]
    BY <1>1
<1>4. first \in {a, b}
    BY <1>3 DEF CaptainsOf
<1>5. d = [phase |-> "OPEN", captain |-> [s \in Sides |-> IF s = "A" THEN a ELSE b],
           first |-> first, picker |-> first, order |-> 1, deadline |-> "RUNNING"]
    BY <1>3 DEF NoDraft, DrawnCaptains, Sides
<1> DEFINE none == [p \in Players |-> NoSide]
<1>6. sd = [none EXCEPT ![a] = "A", ![b] = "B"]
    <2>1. \A p \in Players : turn[p] \in 1..Capacity /\ (turn[p] = 1 <=> p = a) /\ (turn[p] = 2 <=> p = b)
        BY <1>2, TurnFacts
    <2>2. \A p \in Players : turn[p] <= 2 <=> p = a \/ p = b
        BY <2>1, CapacityType
    <2>3. sd = [p \in Players |-> IF turn[p] <= 2 THEN TurnSide(turn)[p] ELSE NoSide]
        BY <1>1
    <2>4. TurnSide(turn)[a] = "A" /\ TurnSide(turn)[b] = "B"
        BY <1>2 DEF TurnSide
    <2>5. \A p \in Players : sd[p] = IF p = a THEN "A" ELSE IF p = b THEN "B" ELSE NoSide
        BY <1>2, <2>2, <2>3, <2>4
    <2>6. sd = [p \in Players |-> IF p = a THEN "A" ELSE IF p = b THEN "B" ELSE NoSide]
        BY <2>3, <2>5
    <2>7. QED
        BY <1>2, <2>6
<1>7. DraftOK(d, sd, at, Players)
    <2>1. /\ at \in [Players -> Nat] /\ \A p \in Players : at[p] = 0
          /\ none \in [Players -> SideOrNone] /\ \A p \in Players : none[p] = NoSide
          /\ Players \in SUBSET Players /\ Cardinality(Players) = Capacity
        BY <1>1, TurnFacts, EmptyRowTypes
    <2>2. PICK roster \in SUBSET Players : roster = Players
        OBVIOUS
    <2>3. a \in roster /\ b \in roster /\ a # b /\ Cardinality(roster) = Capacity
        BY <1>2, <2>1, <2>2
    <2> HIDE DEF d, sd, at, none, a, b
    <2>4. DraftOK(d, sd, at, roster)
        BY ONLY <1>4, <1>5, <1>6, <2>1, <2>3, DraftOpens, roster \in SUBSET Players
    <2>5. QED
        BY <2>2, <2>4
<1>8. VetoOK(veto[r0], bannedAt[r0], bannedBy[r0], d)
    BY <1>1, EmptyRowTypes DEF VetoOK, FairBans, NextBan
<1>9. MatchOK(match[r0], veto[r0], sd)
    BY <1>1, EmptyRowTypes DEF MatchOK
<1>10. RowTypes
    <2>1. d \in DraftRows
        BY <1>2, <1>4, <1>5 DEF DraftRows, Phases, PlayerOrNull, Deadlines
    <2>2. draft = [r \in Rooms |-> IF r = r0 THEN d ELSE NoDraft]
        BY <1>3
    <2>3. \A p \in Players : TurnSide(turn)[p] \in SideOrNone
        BY EmptyRowTypes DEF TurnSide, Sides
    <2>4. side \in [Rooms -> [Players -> SideOrNone]]
        <3>1. \A r \in Rooms, p \in Players :
                (IF r = r0 /\ turn[p] <= 2 THEN TurnSide(turn)[p] ELSE NoSide) \in SideOrNone
            BY <2>3, EmptyRowTypes
        <3>2. QED
            BY <1>1, <3>1
    <2> HIDE DEF d, sd
    <2>5. draft \in [Rooms -> DraftRows]
        BY <2>1, <2>2, EmptyRowTypes
    <2>6. QED
        BY <1>1, <2>4, <2>5, EmptyRowTypes DEF RowTypes, PlayerOrNull
<1>11. \A r \in Rooms \ {r0} : Undrafted(r)
    BY <1>1, EmptyRowTypes DEF Undrafted, HasMatch
<1>12. QED
    BY <1>1, <1>7, <1>8, <1>9, <1>10, <1>11, TurnFacts, LockedStart

-----------------------------------------------------------------------------
(* The rows the migrations wrote are in step too.                            *)
LEMMA LegacyDraftRow ==
    ASSUME NEW turn \in SeatOrders
    PROVE  /\ LegacyDraft(turn) \in DraftRows
           /\ LegacyDraft(turn).phase = "DONE" /\ LegacyDraft(turn).first = Drawn(turn, 1)
           /\ LegacyDraft(turn).captain["A"] = Drawn(turn, 1)
           /\ LegacyDraft(turn).captain["B"] = Drawn(turn, 2)
           /\ Drawn(turn, 1) \in Players /\ Drawn(turn, 2) \in Players
           /\ turn[Drawn(turn, 1)] = 1 /\ turn[Drawn(turn, 2)] = 2
<1>1. Drawn(turn, 1) \in Players /\ Drawn(turn, 2) \in Players /\ turn[Drawn(turn, 1)] = 1
      /\ turn[Drawn(turn, 2)] = 2
    BY TurnFacts, CapacityType
<1>2. DrawnCaptains(turn) \in [Sides -> PlayerOrNull]
      /\ DrawnCaptains(turn)["A"] = Drawn(turn, 1) /\ DrawnCaptains(turn)["B"] = Drawn(turn, 2)
    BY <1>1 DEF DrawnCaptains, Sides, PlayerOrNull
<1> HIDE DEF DrawnCaptains
<1>3. QED
    BY <1>1, <1>2 DEF LegacyDraft, NoDraft, DraftRows, PlayerOrNull, Phases, Deadlines

LEMMA Shift ==
    ASSUME NEW n \in Nat, n > 2
    PROVE  n - 2 \in Nat /\ n - 2 # 0 /\ (n % 2 = 1 <=> (n - 2) % 2 = 1)
OBVIOUS

(* A draft of an earlier release: captains first, then every pick in order. *)
LEMMA LegacyDraftOK ==
    ASSUME NEW turn \in SeatOrders,
           NEW at, at = [p \in Players |-> IF turn[p] > 2 THEN turn[p] - 2 ELSE 0]
    PROVE  DraftOK(LegacyDraft(turn), TurnSide(turn), at, Players) /\ at \in [Players -> Nat]
<1> DEFINE d == LegacyDraft(turn)  sd == TurnSide(turn)  a == Drawn(turn, 1)  b == Drawn(turn, 2)
<1>1. /\ d.phase = "DONE" /\ d.first = a /\ d.captain["A"] = a /\ d.captain["B"] = b
      /\ a \in Players /\ b \in Players /\ turn[a] = 1 /\ turn[b] = 2
    BY LegacyDraftRow
<1>2. /\ \A p \in Players : turn[p] \in 1..Capacity
      /\ \A p, q \in Players : turn[p] = turn[q] => p = q
      /\ \A k \in 1..Capacity : \E p \in Players : turn[p] = k
    BY TurnFacts
<1>3. /\ \A p \in Players : sd[p] = IF turn[p] % 2 = 1 THEN "A" ELSE "B"
      /\ sd[a] = "A" /\ sd[b] = "B"
    BY <1>1 DEF TurnSide
<1>4. \A p \in Players : at[p] = (IF turn[p] > 2 THEN turn[p] - 2 ELSE 0) /\ turn[p] \in Nat /\ at[p] \in Nat
    BY <1>2, Shift, CapacityType
<1>5. at[a] = 0 /\ at[b] = 0 /\ a # b
    BY <1>1, <1>4
<1>6. TwoCaptains(d, sd, at, Players)
    BY <1>1, <1>3, <1>5 DEF TwoCaptains, Sides
<1>7. FairPicks(at, sd, Players, "A", Capacity - 1)
    <2>1. \A p \in Players : at[p] < Capacity - 1
        BY <1>2, <1>4, CapacityType
    <2>2. ASSUME NEW k \in 1..((Capacity - 1) - 1)
          PROVE  \E p \in Players : at[p] = k
        <3>1. k + 2 \in 1..Capacity /\ k + 2 > 2 /\ (k + 2) - 2 = k
            BY CapacityType
        <3>2. PICK p \in Players : turn[p] = k + 2
            BY <1>2, <3>1
        <3>3. at[p] = k
            BY <1>4, <3>1, <3>2
        <3>4. QED
            BY <3>3
    <2>3. ASSUME NEW p \in Players, NEW q \in Players, at[p] = at[q], at[p] # 0
          PROVE  p = q
        <3>1. turn[p] > 2 /\ turn[q] > 2 /\ turn[p] - 2 = turn[q] - 2
            BY <1>4, <2>3
        <3>2. turn[p] = turn[q]
            BY <1>4, <3>1
        <3>3. QED
            BY <1>2, <3>2
    <2>4. ASSUME NEW p \in Players, at[p] # 0
          PROVE  sd[p] = "A" <=> at[p] % 2 = 1
        <3>1. turn[p] > 2 /\ at[p] = turn[p] - 2 /\ turn[p] \in Nat
            BY <1>4, <2>4
        <3>2. QED
            BY <1>3, <3>1, Shift
    <2>5. QED
        BY <2>1, <2>2, <2>3, <2>4 DEF FairPicks
<1>8. \A s \in Sides : Size(sd, Players, s) = TeamSize
    BY EvenTurns
<1>9. \A p \in Players : sd[p] # NoSide
    BY <1>3 DEF NoSide
<1>10. DraftOK(d, sd, at, Players)
    BY <1>1, <1>3, <1>6, <1>7, <1>8, <1>9 DEF DraftOK, NextPick
<1>11. at \in [Players -> Nat]
    BY <1>4
<1>12. QED
    BY <1>10, <1>11

LEMMA BanFacts ==
    ASSUME NEW ban \in Bijection(Maps, 1..Cardinality(Maps))
    PROVE  /\ ban \in [Maps -> 1..Cardinality(Maps)]
           /\ \A m, n \in Maps : ban[m] = ban[n] => m = n
           /\ LeftOver(ban) \in Maps
           /\ ban[LeftOver(ban)] = Cardinality(Maps)
<1>1. /\ ban \in [Maps -> 1..Cardinality(Maps)]
      /\ \A m, n \in Maps : ban[m] = ban[n] => m = n
      /\ \A k \in 1..Cardinality(Maps) : \E m \in Maps : ban[m] = k
    BY DEF Bijection, Injection, Surjection, IsInjective
<1>2. \E m \in Maps : ban[m] = Cardinality(Maps)
    BY <1>1, PoolSize
<1>3. QED
    BY <1>1, <1>2 DEF LeftOver

(* A veto of an earlier release: every map but one banned in order. *)
LEMMA LegacyVetoOK ==
    ASSUME NEW turn \in SeatOrders, NEW ban \in Bijection(Maps, 1..Cardinality(Maps)),
           NEW at, at = [m \in Maps |-> IF ban[m] < Cardinality(Maps) THEN ban[m] ELSE 0],
           NEW by, by = [m \in Maps |-> IF ban[m] < Cardinality(Maps)
                                        THEN Drawn(turn, IF ban[m] % 2 = 1 THEN 1 ELSE 2) ELSE NoPlayer]
    PROVE  /\ VetoOK(LegacyVeto(turn, ban), at, by, LegacyDraft(turn))
           /\ LegacyVeto(turn, ban) \in VetoRows /\ LegacyVeto(turn, ban).selected \in Maps
           /\ LegacyVeto(turn, ban).phase = "DONE"
           /\ at \in [Maps -> Nat] /\ by \in [Maps -> PlayerOrNull]
<1> DEFINE v == LegacyVeto(turn, ban)  d == LegacyDraft(turn)  a == Drawn(turn, 1)  b == Drawn(turn, 2)
           left == LeftOver(ban)
           n == Cardinality(Maps)
<1>1. /\ d.phase = "DONE" /\ d.captain["A"] = a /\ d.captain["B"] = b /\ a \in Players /\ b \in Players
    BY LegacyDraftRow
<1>2. /\ \A m \in Maps : ban[m] \in 1..n
      /\ \A m, m2 \in Maps : ban[m] = ban[m2] => m = m2
      /\ left \in Maps /\ ban[left] = n
    BY BanFacts
<1>3. v = [NoVeto EXCEPT !.phase = "DONE", !.first = a, !.selected = left]
    BY DEF LegacyVeto, left
<1>4. v.phase = "DONE" /\ v.first = a /\ v.selected = left
    BY <1>3 DEF NoVeto
<1>5. v \in VetoRows
    <2>1. a \in PlayerOrNull /\ left \in MapOrNull
        BY <1>1, <1>2 DEF PlayerOrNull, MapOrNull
    <2> HIDE DEF v, a, left
    <2>2. QED
        BY <1>3, <2>1 DEF NoVeto, VetoRows, Phases, PlayerOrNull, Deadlines
<1>6. n \in Nat
    BY PoolSize
<1>7. \A m \in Maps : /\ at[m] = (IF ban[m] < n THEN ban[m] ELSE 0)
                      /\ ban[m] \in Nat /\ ban[m] # 0 /\ ban[m] <= n /\ at[m] \in Nat
                      /\ by[m] = IF ban[m] < n THEN Drawn(turn, IF ban[m] % 2 = 1 THEN 1 ELSE 2) ELSE NoPlayer
    BY <1>2, <1>6
<1>8. Rival(d, v.first) = b
    BY <1>1, <1>4 DEF Rival
<1>9. FairBans(at, by, a, b, n)
    <2>1. \A m \in Maps : at[m] < n
        BY <1>6, <1>7, PoolSize
    <2>2. ASSUME NEW m \in Maps, NEW m2 \in Maps, at[m] = at[m2], at[m] # 0
          PROVE  m = m2
        BY <1>2, <1>7, <2>2
    <2>3. ASSUME NEW m \in Maps, at[m] # 0
          PROVE  by[m] = IF at[m] % 2 = 1 THEN a ELSE b
        <3>1. at[m] = ban[m] /\ by[m] = Drawn(turn, IF ban[m] % 2 = 1 THEN 1 ELSE 2)
            BY <1>7, <2>3
        <3>2. CASE ban[m] % 2 = 1
            BY <3>1, <3>2
        <3>3. CASE ban[m] % 2 # 1
            BY <3>1, <3>3
        <3>4. QED
            BY <3>2, <3>3
    <2>4. QED
        BY <2>1, <2>2, <2>3 DEF FairBans
<1>10. Over(at) = {left}
    <2>1. \A m \in Maps : at[m] = 0 <=> ban[m] = n
        BY <1>6, <1>7
    <2>2. \A m \in Maps : ban[m] = n <=> m = left
        BY <1>2
    <2>3. QED
        BY <1>2, <2>1, <2>2 DEF Over
<1>11. VetoOK(v, at, by, d)
    BY <1>1, <1>4, <1>8, <1>9, <1>10 DEF VetoOK, NextBan
<1>12. at \in [Maps -> Nat]
    BY <1>7
<1>13. by \in [Maps -> PlayerOrNull]
    <2>1. \A m \in Maps : by[m] \in PlayerOrNull
        BY <1>1, <1>7 DEF PlayerOrNull
    <2>2. QED
        BY <2>1
<1>14. QED
    BY <1>2, <1>4, <1>5, <1>11, <1>12, <1>13

-----------------------------------------------------------------------------
(* A room an earlier release left after its draft, its veto or its match. *)
LEMMA LegacyInitSetup == LegacyInit => SetupInv
<1> SUFFICES ASSUME LegacyInit
             PROVE  SetupInv
    OBVIOUS
<1>1. PICK r0 \in Rooms, host \in Players, turn \in SeatOrders, stage \in Stages,
           ban \in Bijection(Maps, 1..Cardinality(Maps)) :
        LET vetoed   == stage \in {"VETOED", "MATCHED"}
            banned(r, m) == r = r0 /\ vetoed /\ ban[m] < Cardinality(Maps)
            made     == [map |-> LegacyVeto(turn, ban).selected, team |-> TurnSide(turn)]
        IN
        /\ LockedRoom(r0, host)
        /\ draft     = [r \in Rooms |-> IF r = r0 THEN LegacyDraft(turn) ELSE NoDraft]
        /\ side      = [r \in Rooms |-> [p \in Players |-> IF r = r0 THEN TurnSide(turn)[p] ELSE NoSide]]
        /\ pickedAt  = [r \in Rooms |-> [p \in Players |->
                           IF r = r0 /\ turn[p] > 2 THEN turn[p] - 2 ELSE 0]]
        /\ veto      = [r \in Rooms |-> IF r = r0 /\ vetoed THEN LegacyVeto(turn, ban) ELSE NoVeto]
        /\ bannedAt  = [r \in Rooms |-> [m \in Maps |-> IF banned(r, m) THEN ban[m] ELSE 0]]
        /\ bannedBy  = [r \in Rooms |-> [m \in Maps |->
                           IF banned(r, m) THEN Drawn(turn, IF ban[m] % 2 = 1 THEN 1 ELSE 2) ELSE NoPlayer]]
        /\ match     = [r \in Rooms |-> IF r = r0 /\ stage = "MATCHED" THEN made ELSE NoMatch]
    BY DEF LegacyInit
<1> DEFINE at == [p \in Players |-> IF turn[p] > 2 THEN turn[p] - 2 ELSE 0]
           ban0 == [m \in Maps |-> IF ban[m] < Cardinality(Maps) THEN ban[m] ELSE 0]
           by0  == [m \in Maps |-> IF ban[m] < Cardinality(Maps)
                                   THEN Drawn(turn, IF ban[m] % 2 = 1 THEN 1 ELSE 2) ELSE NoPlayer]
           none == [p \in Players |-> NoSide]
           zero == [p \in Players |-> 0]
           free == [m \in Maps |-> 0]
           nobody == [m \in Maps |-> NoPlayer]
           vetoed == stage \in {"VETOED", "MATCHED"}
           made   == [map |-> LegacyVeto(turn, ban).selected, team |-> TurnSide(turn)]
<1>2. /\ draft    = [r \in Rooms |-> IF r = r0 THEN LegacyDraft(turn) ELSE NoDraft]
      /\ veto     = [r \in Rooms |-> IF r = r0 /\ vetoed THEN LegacyVeto(turn, ban) ELSE NoVeto]
      /\ match    = [r \in Rooms |-> IF r = r0 /\ stage = "MATCHED" THEN made ELSE NoMatch]
      /\ LockedRoom(r0, host)
    BY <1>1
<1>3. /\ side[r0] = TurnSide(turn) /\ \A r \in Rooms \ {r0} : side[r] = none
    BY <1>1 DEF TurnSide
<1>4. /\ pickedAt[r0] = at /\ \A r \in Rooms \ {r0} : pickedAt[r] = zero
    BY <1>1
<1>5. /\ vetoed => bannedAt[r0] = ban0
      /\ ~vetoed => bannedAt[r0] = free
      /\ \A r \in Rooms \ {r0} : bannedAt[r] = free
    BY <1>1
<1>6. /\ vetoed => bannedBy[r0] = by0
      /\ ~vetoed => bannedBy[r0] = nobody
      /\ \A r \in Rooms \ {r0} : bannedBy[r] = nobody
    BY <1>1
<1>7. DOMAIN side = Rooms /\ DOMAIN pickedAt = Rooms /\ DOMAIN bannedAt = Rooms /\ DOMAIN bannedBy = Rooms
      /\ side = [r \in Rooms |-> side[r]] /\ pickedAt = [r \in Rooms |-> pickedAt[r]]
      /\ bannedAt = [r \in Rooms |-> bannedAt[r]] /\ bannedBy = [r \in Rooms |-> bannedBy[r]]
    BY <1>1
<1>8. /\ DraftOK(LegacyDraft(turn), TurnSide(turn), at, Players) /\ at \in [Players -> Nat]
      /\ LegacyDraft(turn) \in DraftRows
    BY LegacyDraftOK, LegacyDraftRow
<1>9. /\ VetoOK(LegacyVeto(turn, ban), ban0, by0, LegacyDraft(turn))
      /\ LegacyVeto(turn, ban) \in VetoRows /\ LegacyVeto(turn, ban).selected \in Maps
      /\ LegacyVeto(turn, ban).phase = "DONE"
      /\ ban0 \in [Maps -> Nat] /\ by0 \in [Maps -> PlayerOrNull]
    BY LegacyVetoOK
<1>10. TurnSide(turn) \in [Players -> SideOrNone]
    BY EmptyRowTypes DEF TurnSide, Sides
<1>11. /\ none \in [Players -> SideOrNone] /\ zero \in [Players -> Nat] /\ free \in [Maps -> Nat]
       /\ nobody \in [Maps -> PlayerOrNull]
       /\ \A p \in Players : none[p] = NoSide /\ zero[p] = 0
       /\ \A m \in Maps : free[m] = 0
    BY EmptyRowTypes DEF PlayerOrNull
<1>12. made \in MatchRows /\ made.map = LegacyVeto(turn, ban).selected /\ made.team = TurnSide(turn)
    BY <1>9, <1>10 DEF MatchRows, MapOrNull
<1> HIDE DEF at, ban0, by0, none, zero, free, nobody, made
<1>13. RowTypes
    <2>1. draft \in [Rooms -> DraftRows] /\ veto \in [Rooms -> VetoRows] /\ match \in [Rooms -> MatchRows]
        BY <1>2, <1>8, <1>9, <1>12, EmptyRowTypes
    <2>2. \A r \in Rooms : side[r] \in [Players -> SideOrNone] /\ pickedAt[r] \in [Players -> Nat]
        BY <1>3, <1>4, <1>8, <1>10, <1>11
    <2>3. \A r \in Rooms : bannedAt[r] \in [Maps -> Nat] /\ bannedBy[r] \in [Maps -> PlayerOrNull]
        BY <1>5, <1>6, <1>9, <1>11
    <2>4. QED
        BY <1>7, <2>1, <2>2, <2>3 DEF RowTypes
<1>14. DraftOK(draft[r0], side[r0], pickedAt[r0], Players)
    BY <1>2, <1>3, <1>4, <1>8
<1>15. VetoOK(veto[r0], bannedAt[r0], bannedBy[r0], draft[r0])
    <2>1. CASE vetoed
        BY <1>2, <1>5, <1>6, <1>9, <2>1
    <2>2. CASE ~vetoed
        BY <1>2, <1>5, <1>11, <2>2, EmptyRowTypes DEF VetoOK, FairBans, NextBan
    <2>3. QED
        BY <2>1, <2>2
<1>16. MatchOK(match[r0], veto[r0], side[r0])
    BY <1>2, <1>3, <1>9, <1>12, EmptyRowTypes DEF MatchOK
<1>17. \A r \in Rooms \ {r0} : Undrafted(r)
    BY <1>2, <1>3, <1>4, <1>5, <1>11, EmptyRowTypes DEF Undrafted, HasMatch
<1>18. QED
    BY <1>2, <1>13, <1>14, <1>15, <1>16, <1>17, TurnFacts, LockedStart

LEMMA UpgradeInv == UpgradeSpec => []SetupInv
<1>1. LockedInit \/ LegacyInit => SetupInv
    BY LockedInitSetup, LegacyInitSetup
<1>2. SetupInv /\ [Next]_vars => SetupInv'
    BY SetupInvStep
<1>3. QED
    BY <1>1, <1>2, PTL DEF UpgradeSpec

(* The same holds of rooms that an earlier release left locked after their   *)
(* draft, their veto or their match, and that reconcileRoom brings on.       *)
THEOREM FairSetupAfterUpgrade == UpgradeSpec => []SetupFair
BY UpgradeInv, SetupInvFair, PTL

(* Whatever frontier a room stopped at, once it is live its match is on the  *)
(* map its veto left over and has the teams its draft made.                  *)
THEOREM RecoveredMatch == UpgradeSpec => []RecoveredMatchFaithful
BY UpgradeInv, SetupInvFaithful, PTL

-----------------------------------------------------------------------------
(* What MatchLifecycle sees of the rooms. *)
PhaseFor(st) ==
    CASE st = "NONE"       -> "UNUSED"
      [] st \in Gathering  -> "GATHERING"
      [] st = "SETUP"      -> "LOCKED"
      [] st \in Live       -> "LIVE"
      [] st \in Final      -> "OVER"

LineupFor(m) == IF m.map # NoMap THEN [s \in Sides |-> {p \in Players : m.team[p] = s}] ELSE NoMap

PhasesSeen  == [r \in Rooms |-> PhaseFor(status[r])]
LineupsSeen == [r \in Rooms |-> LineupFor(match[r])]

LEMMA WhatIsSeen ==
    /\ PhasesSeen = [r \in Rooms |-> PhaseOf(r)]
    /\ LineupsSeen = [r \in Rooms |-> IF HasMatch(r) THEN Teams(r) ELSE NoMap]
    /\ PhasesSeen' = [r \in Rooms |-> PhaseOf(r)]'
    /\ LineupsSeen' = [r \in Rooms |-> IF HasMatch(r) THEN Teams(r) ELSE NoMap]'
BY DEF PhasesSeen, PhaseFor, PhaseOf, LineupsSeen, LineupFor, HasMatch, Teams

LEMMA PhaseFacts ==
    /\ PhaseFor("NONE") = "UNUSED"
    /\ \A st \in Gathering : PhaseFor(st) = "GATHERING"
    /\ PhaseFor("SETUP") = "LOCKED"
    /\ \A st \in Live : PhaseFor(st) = "LIVE"
    /\ \A st \in Final : PhaseFor(st) = "OVER"
BY DEF PhaseFor, Gathering, Live, Final

LEMMA SeenOfOne ==
    ASSUME TypeOK, TypeOK', NEW r \in Rooms, \A q \in Rooms \ {r} : SameRoom(q)
    PROVE  /\ PhasesSeen' = [PhasesSeen EXCEPT ![r] = PhaseFor(status'[r])]
           /\ LineupsSeen' = [LineupsSeen EXCEPT ![r] = LineupFor(match'[r])]
           /\ members' = [members EXCEPT ![r] = members'[r]]
BY DEF PhasesSeen, LineupsSeen, SameRoom, TypeOK

LEMMA SeenOfNone ==
    ASSUME TypeOK, TypeOK', \A q \in Rooms : SameRoom(q)
    PROVE  UNCHANGED <<PhasesSeen, members, LineupsSeen>>
BY DEF PhasesSeen, LineupsSeen, SameRoom, TypeOK

LEMMA LifecycleInit == Init => Lifecycle!Init
<1> SUFFICES ASSUME Init PROVE Lifecycle!Init
    OBVIOUS
<1>1. PhasesSeen = [r \in Rooms |-> "UNUSED"] /\ LineupsSeen = [r \in Rooms |-> NoMap]
    BY PhaseFacts DEF Init, PhasesSeen, LineupsSeen, LineupFor, NoMatch
<1>2. QED
    BY <1>1, WhatIsSeen DEF Init, Lifecycle!Init

(* A room that keeps its phase, its players and its match does nothing.      *)
LEMMA SeesNothing ==
    ASSUME TypeOK, TypeOK', NEW r \in Rooms, \A q \in Rooms \ {r} : SameRoom(q),
           PhaseFor(status'[r]) = PhaseFor(status[r]), members'[r] = members[r], match'[r] = match[r]
    PROVE  UNCHANGED <<PhasesSeen, members, LineupsSeen>>
<1>1. /\ \A q \in Rooms : PhaseFor(status'[q]) = PhaseFor(status[q])
      /\ \A q \in Rooms : LineupFor(match'[q]) = LineupFor(match[q])
      /\ \A q \in Rooms : members'[q] = members[q]
    BY DEF SameRoom
<1>2. members' = members
    BY <1>1 DEF TypeOK
<1>3. QED
    BY <1>1, <1>2 DEF PhasesSeen, LineupsSeen

LEMMA SameCardinality ==
    ASSUME NEW S
    PROVE  Lifecycle!Cardinality(S) = Cardinality(S)
BY DEF Lifecycle!Cardinality, Cardinality

(* The teams of a complete draft are a line-up of the locked roster.         *)
LEMMA TeamsLineUp ==
    ASSUME NEW roster \in SUBSET Players, Cardinality(roster) = Capacity,
           NEW sd \in [Players -> SideOrNone], NEW map \in Maps, NEW m, m = [map |-> map, team |-> sd],
           \A p \in Players \ roster : sd[p] = NoSide,
           \A s \in Sides : Size(sd, roster, s) = TeamSize
    PROVE  LineupFor(m) \in Lifecycle!Lineups(roster)
<1>1. map # NoMap
    BY MapsAssumption
<1>2. On(sd, roster, "A") \cap On(sd, roster, "B") = {}
    BY DEF On
<1>3. IsFiniteSet(roster) /\ IsFiniteSet(On(sd, roster, "A")) /\ IsFiniteSet(On(sd, roster, "B"))
    BY PlayersAssumption, FS_Subset, SizeType
<1>4. Cardinality(On(sd, roster, "A") \cup On(sd, roster, "B")) = Capacity
    <2>1. Cardinality(On(sd, roster, "A")) = TeamSize /\ Cardinality(On(sd, roster, "B")) = TeamSize
        BY DEF Size, Sides
    <2>2. Cardinality(On(sd, roster, "A") \cap On(sd, roster, "B")) = 0
        BY <1>2, FS_EmptySet
    <2>3. Cardinality(On(sd, roster, "A") \cup On(sd, roster, "B")) =
          Cardinality(On(sd, roster, "A")) + Cardinality(On(sd, roster, "B")) -
          Cardinality(On(sd, roster, "A") \cap On(sd, roster, "B"))
        BY ONLY <1>3, FS_Union
    <2>4. QED
        BY <2>1, <2>2, <2>3, TeamAssumption DEF Capacity
<1>5. On(sd, roster, "A") \cup On(sd, roster, "B") = roster
    BY <1>3, <1>4, FS_Subset DEF On
<1>6. /\ {p \in Players : sd[p] = "A"} = On(sd, roster, "A")
      /\ {p \in Players : sd[p] = "B"} = On(sd, roster, "B")
    BY DEF On, NoSide
<1>7. roster \ On(sd, roster, "A") = On(sd, roster, "B")
    BY <1>2, <1>5
<1>8. LineupFor(m) = [s \in {"A", "B"} |-> IF s = "A" THEN On(sd, roster, "A") ELSE roster \ On(sd, roster, "A")]
    BY <1>1, <1>6, <1>7 DEF LineupFor, Sides
<1>9. On(sd, roster, "A") \in SUBSET roster /\ 2 * Cardinality(On(sd, roster, "A")) = Capacity
    BY DEF Size, On, Sides, Capacity
<1>10. QED
    BY ONLY <1>8, <1>9, SameCardinality DEF Lifecycle!Lineups

(* The step of MatchLifecycle that an operation of one room is.              *)
Seen == <<PhasesSeen, members, LineupsSeen>>

LEMMA SeatsRefine ==
    ASSUME TypeOK, TypeOK', NEW r \in Rooms, SeatingAt(r), \A q \in Rooms \ {r} : SameRoom(q),
           NEW p \in Players, Create(r, p) \/ Join(r, p) \/ Leave(r, p) \/ Cancel(r, p)
    PROVE  [Lifecycle!Next]_Seen
<1>0. /\ PhasesSeen[r] = PhaseFor(status[r])
      /\ PhasesSeen' = [PhasesSeen EXCEPT ![r] = PhaseFor(status'[r])]
      /\ LineupsSeen' = [LineupsSeen EXCEPT ![r] = LineupFor(match'[r])]
      /\ LineupsSeen[r] = LineupFor(match[r]) /\ LineupsSeen = [LineupsSeen EXCEPT ![r] = @]
    BY SeenOfOne DEF PhasesSeen, LineupsSeen
<1>1. match' = match /\ LineupsSeen' = LineupsSeen
    BY <1>0 DEF Create, Join, Leave, Cancel
<1>2. CASE Create(r, p)
    <2>1. status[r] = "NONE" /\ status'[r] = "FORMING" /\ ~Seated(p) /\ members' = [members EXCEPT ![r] = {p}]
        <3>1. /\ status[r] = "NONE" /\ ~Seated(p) /\ status' = [status EXCEPT ![r] = "FORMING"]
              /\ members' = [members EXCEPT ![r] = @ \cup {p}]
            BY <1>2 DEF Create, Seat
        <3>2. members[r] = {}
            BY <3>1 DEF SeatingAt
        <3>3. QED
            BY <3>1, <3>2 DEF TypeOK
    <2>2. Lifecycle!Open(r, p)
        BY <1>0, <1>1, <2>1, PhaseFacts, WhatIsSeen
           DEF Lifecycle!Open, Lifecycle!Free, Seated, Gathering
    <2>3. QED
        BY <2>2 DEF Lifecycle!Next
<1>3. CASE Join(r, p)
    <2>1. /\ status[r] \in Gathering /\ status'[r] \in Gathering /\ ~Seated(p)
          /\ Cardinality(members[r]) < Capacity /\ members' = [members EXCEPT ![r] = @ \cup {p}]
        BY <1>3 DEF Join, Seat, TypeOK, Gathering
    <2>2. PhasesSeen' = PhasesSeen /\ PhasesSeen[r] = "GATHERING"
        BY <1>0, <2>1, PhaseFacts DEF PhasesSeen
    <2>3. Lifecycle!Enter(r, p)
        BY <1>1, <2>1, <2>2, WhatIsSeen, SameCardinality DEF Lifecycle!Enter, Lifecycle!Free, Seated
    <2>4. QED
        BY <2>3 DEF Lifecycle!Next
<1>4. CASE Leave(r, p)
    <2>1. /\ status[r] \in Gathering /\ UNCHANGED status
          /\ members' = [members EXCEPT ![r] = @ \ {p}] /\ creator[r] \in members[r] \ {p}
        BY <1>4 DEF Leave, TypeOK, Gathering, SeatingAt, Active
    <2>2. PhasesSeen' = PhasesSeen /\ PhasesSeen[r] = "GATHERING"
        BY <1>0, <2>1, PhaseFacts DEF PhasesSeen
    <2>3. members[r] \ {p} \in (SUBSET members[r]) \ {{}}
        BY <2>1
    <2>4. Lifecycle!Depart(r)
        BY <1>1, <2>1, <2>2, <2>3, WhatIsSeen DEF Lifecycle!Depart
    <2>5. QED
        BY <2>4 DEF Lifecycle!Next
<1>5. CASE Cancel(r, p)
    <2>1. /\ status[r] \in Gathering \cup {"SETUP"} /\ status'[r] \in Final
          /\ members' = [members EXCEPT ![r] = {}]
        BY <1>5 DEF Cancel, TypeOK, Gathering, Final
    <2>2. PhasesSeen[r] \in {"GATHERING", "LOCKED"} /\ PhasesSeen' = [PhasesSeen EXCEPT ![r] = "OVER"]
        BY <1>0, <2>1, PhaseFacts
    <2>3. Lifecycle!Dissolve(r)
        BY <1>1, <2>1, <2>2, WhatIsSeen DEF Lifecycle!Dissolve
    <2>4. QED
        BY <2>3 DEF Lifecycle!Next
<1>6. QED
    BY <1>2, <1>3, <1>4, <1>5

LEMMA ConfirmationsRefine ==
    ASSUME TypeOK, TypeOK', NEW r \in Rooms, SeatingAt(r), \A q \in Rooms \ {r} : SameRoom(q),
           \/ \E p \in Players : Confirm(r, p)
           \/ ReconcileConfirmation(r)
    PROVE  [Lifecycle!Next]_Seen
<1>0. /\ PhasesSeen[r] = PhaseFor(status[r])
      /\ PhasesSeen' = [PhasesSeen EXCEPT ![r] = PhaseFor(status'[r])]
    BY SeenOfOne DEF PhasesSeen
<1>1. match' = match /\ LineupsSeen' = LineupsSeen
    BY DEF Confirm, ReconcileConfirmation, LineupsSeen
<1>2. status[r] = "CONFIRMING" /\ PhasesSeen[r] = "GATHERING"
    BY <1>0, PhaseFacts DEF Confirm, ReconcileConfirmation, WindowElapsed, Gathering
<1>3. CASE UNCHANGED <<status, members>>
    BY <1>1, <1>3 DEF Seen, PhasesSeen
<1>4. CASE status'[r] = "SETUP" /\ UNCHANGED members
    <2>1. PhasesSeen' = [PhasesSeen EXCEPT ![r] = "LOCKED"]
        BY <1>0, <1>4, PhaseFacts
    <2>2. Cardinality(members[r]) = Capacity
        BY <1>2 DEF SeatingAt
    <2>3. Lifecycle!Lock(r)
        BY <1>1, <1>2, <1>4, <2>1, <2>2, WhatIsSeen, SameCardinality DEF Lifecycle!Lock
    <2>4. QED
        BY <2>3 DEF Lifecycle!Next
<1>5. CASE status'[r] = "CANCELLED" /\ members' = [members EXCEPT ![r] = {}]
    <2>1. PhasesSeen' = [PhasesSeen EXCEPT ![r] = "OVER"]
        BY <1>0, <1>5, PhaseFacts DEF Final
    <2>2. Lifecycle!Dissolve(r)
        BY <1>1, <1>2, <1>5, <2>1, WhatIsSeen DEF Lifecycle!Dissolve
    <2>3. QED
        BY <2>2 DEF Lifecycle!Next
<1>6. CASE /\ status'[r] = "FORMING" /\ confirmed[r][creator[r]] = round[r]
           /\ members' = [members EXCEPT ![r] = {p \in @ : confirmed[r][p] = round[r]}]
    <2>1. PhasesSeen' = PhasesSeen
        BY <1>0, <1>2, <1>6, PhaseFacts DEF PhasesSeen, Gathering
    <2>2. {p \in members[r] : confirmed[r][p] = round[r]} \in (SUBSET members[r]) \ {{}}
        BY <1>2, <1>6 DEF SeatingAt, Active, Gathering
    <2>3. Lifecycle!Depart(r)
        BY <1>1, <1>2, <1>6, <2>1, <2>2, WhatIsSeen DEF Lifecycle!Depart
    <2>4. QED
        BY <2>3 DEF Lifecycle!Next
<1>7. QED
    BY <1>3, <1>4, <1>5, <1>6 DEF Confirm, ReconcileConfirmation, TypeOK

LEMMA MatchRefines ==
    ASSUME TypeOK, TypeOK', NEW r \in Rooms, SeatingAt(r), SetupAt(r), \A q \in Rooms \ {r} : SameRoom(q),
           NEW map \in Maps, status[r] = "SETUP", MaterializeCompetitiveMatch(r, map), members' = members
    PROVE  [Lifecycle!Next]_Seen
<1>1. /\ PhasesSeen[r] = PhaseFor(status[r])
      /\ PhasesSeen' = [PhasesSeen EXCEPT ![r] = PhaseFor(status'[r])]
      /\ LineupsSeen' = [LineupsSeen EXCEPT ![r] = LineupFor(match'[r])]
    BY SeenOfOne DEF PhasesSeen
<1>2. status'[r] = "READY" /\ match'[r] = [map |-> map, team |-> side[r]]
    BY DEF MaterializeCompetitiveMatch, TypeOK
<1>3. PhasesSeen[r] = "LOCKED" /\ PhasesSeen' = [PhasesSeen EXCEPT ![r] = "LIVE"]
    BY <1>1, <1>2, PhaseFacts DEF Live
<1>4. LineupFor(match'[r]) \in Lifecycle!Lineups(members[r])
    <2>1. \A s \in Sides : Size(side[r], members[r], s) = TeamSize
        BY DEF MaterializeCompetitiveMatch, CanMaterialize, SideMembers, Size, On
    <2>2. \A p \in Players \ members[r] : side[r][p] = NoSide
        BY DEF SetupAt, Locked, DraftOK
    <2>3. members[r] \in SUBSET Players /\ side[r] \in [Players -> SideOrNone] /\ Cardinality(members[r]) = Capacity
        BY DEF TypeOK, SeatingAt, Locked
    <2> DEFINE m == match'[r]
    <2>4. m = [map |-> map, team |-> side[r]]
        BY <1>2
    <2> HIDE DEF m
    <2>5. LineupFor(m) \in Lifecycle!Lineups(members[r])
        BY ONLY <2>1, <2>2, <2>3, <2>4, map \in Maps, TeamsLineUp
    <2>6. QED
        BY <2>5 DEF m
<1>5. Lifecycle!GoLive(r)
    BY <1>1, <1>3, <1>4, WhatIsSeen DEF Lifecycle!GoLive
<1>6. QED
    BY <1>5 DEF Lifecycle!Next

LEMMA SetupRefines ==
    ASSUME TypeOK, TypeOK', NoEarlyMatch,
           NEW r \in Rooms, SeatingAt(r), SetupAt(r), \A q \in Rooms \ {r} : SameRoom(q),
           \/ \E p \in Players : \/ \E target \in Players : DraftPick(r, p, target)
                                \/ \E m \in Maps : MapVetoBan(r, p, m)
           \/ ReconcileDraft(r) \/ RecoverVeto(r) \/ ReconcileVeto(r) \/ CompleteSetup(r)
           \/ Allocate(r) \/ Finalize(r) \/ SeriesEnd(r) \/ Elapse(r)
    PROVE  [Lifecycle!Next]_Seen
<1>1. ASSUME UNCHANGED <<status, members, match>>
      PROVE  UNCHANGED Seen
    BY <1>1 DEF Seen, PhasesSeen, LineupsSeen
<1>2. CASE \/ \E p, target \in Players : DraftPick(r, p, target)
           \/ ReconcileDraft(r) \/ RecoverVeto(r) \/ Elapse(r)
    BY <1>1, <1>2 DEF DraftPick, ReconcileDraft, RecoverVeto, Elapse, roomVars
<1>3. ASSUME NEW m, Ban(r, m), status[r] = "SETUP", UNCHANGED members
      PROVE  [Lifecycle!Next]_Seen
    <2>1. CASE UNCHANGED <<status, match>>
        BY <1>1, <1>3, <2>1
    <2>2. ASSUME NEW last \in Maps, MaterializeCompetitiveMatch(r, last)
          PROVE  [Lifecycle!Next]_Seen
        BY <1>3, <2>2, MatchRefines
    <2>3. QED
        BY <1>3, <2>1, <2>2 DEF Ban, Unbanned
<1>4. CASE ReconcileVeto(r) \/ \E p \in Players : \E m \in Maps : MapVetoBan(r, p, m)
    BY <1>3, <1>4 DEF ReconcileVeto, MapVetoBan, VetoOpen
<1>5. CASE CompleteSetup(r)
    <2>1. ~HasMatch(r) /\ status[r] = "SETUP" /\ UNCHANGED members
        BY <1>5 DEF CompleteSetup, NoEarlyMatch
    <2>2. MaterializeCompetitiveMatch(r, veto[r].selected) /\ veto[r].phase = "DONE"
        BY <1>5, <2>1 DEF CompleteSetup
    <2>3. Over(bannedAt[r]) = {veto[r].selected}
        BY <2>1, <2>2 DEF SetupAt, Locked, VetoOK
    <2>4. veto[r].selected \in Maps
        BY <2>3 DEF Over
    <2>5. QED
        BY <2>1, <2>2, <2>4, MatchRefines
<1>6. CASE Allocate(r) \/ Finalize(r)
    <2>1. status[r] \in Live /\ status'[r] \in Live /\ UNCHANGED <<members, match>>
        BY <1>6 DEF Allocate, Finalize, Live, TypeOK
    <2>2. UNCHANGED <<PhasesSeen, members, LineupsSeen>>
        BY <2>1, SeesNothing, PhaseFacts
    <2>3. QED
        BY <2>2 DEF Seen
<1>7. CASE SeriesEnd(r)
    <2>1. /\ status[r] \in Live /\ status'[r] \in Final /\ match' = match
          /\ members' = [members EXCEPT ![r] = {}]
        BY <1>7 DEF SeriesEnd, Live, Final, TypeOK
    <2>2. /\ PhasesSeen[r] = "LIVE" /\ PhasesSeen' = [PhasesSeen EXCEPT ![r] = "OVER"]
          /\ LineupsSeen' = LineupsSeen
        BY <2>1, SeenOfOne, PhaseFacts DEF PhasesSeen, LineupsSeen
    <2>3. Lifecycle!Dissolve(r)
        BY <2>1, <2>2, WhatIsSeen DEF Lifecycle!Dissolve
    <2>4. QED
        BY <2>3 DEF Lifecycle!Next
<1>8. QED
    BY <1>2, <1>4, <1>5, <1>6, <1>7

LEMMA LifecycleStep == SetupInv /\ NoEarlyMatch /\ [Next]_vars => [Lifecycle!Next]_Seen
<1> SUFFICES ASSUME SetupInv, NoEarlyMatch, [Next]_vars
             PROVE  [Lifecycle!Next]_Seen
    OBVIOUS
<1>1. TypeOK /\ TypeOK'
    BY TypeInvStep DEF SetupInv, TypeInv
<1>2. ASSUME NEW r \in Rooms, RoomStep(r), \A q \in Rooms \ {r} : SameRoom(q)
      PROVE  [Lifecycle!Next]_Seen
    <2>1. SeatingAt(r) /\ SetupAt(r)
        BY DEF SetupInv
    <2>2. CASE \E p \in Players : Create(r, p) \/ Join(r, p) \/ Leave(r, p) \/ Cancel(r, p)
        BY <1>1, <1>2, <2>1, <2>2, SeatsRefine
    <2>3. CASE (\E p \in Players : Confirm(r, p)) \/ ReconcileConfirmation(r)
        BY <1>1, <1>2, <2>1, <2>3, ConfirmationsRefine
    <2>4. CASE \/ \E p \in Players : \/ \E target \in Players : DraftPick(r, p, target)
                                    \/ \E m \in Maps : MapVetoBan(r, p, m)
               \/ ReconcileDraft(r) \/ RecoverVeto(r) \/ ReconcileVeto(r) \/ CompleteSetup(r)
               \/ Allocate(r) \/ Finalize(r) \/ SeriesEnd(r) \/ Elapse(r)
        BY <1>1, <1>2, <2>1, <2>4, SetupRefines
    <2>5. QED
        BY <1>2, <2>2, <2>3, <2>4 DEF RoomStep, ReconcileRoom
<1>3. CASE \A q \in Rooms : SameRoom(q)
    BY <1>1, <1>3, SeenOfNone DEF Seen
<1>4. QED
    BY <1>1, <1>2, <1>3, OneRoomAtATime

(* The room with all its windows, rounds, drafts, vetos and server saga      *)
(* keeps what MatchLifecycle promises, for any number of players and rooms.  *)
THEOREM Refinement == Spec => ImplementsLifecycle
<1>1. Init => SetupInv /\ NoEarlyMatch
    BY SetupInvInit DEF Init, NoEarlyMatch, HasMatch, NoMatch
<1>2. SetupInv /\ NoEarlyMatch /\ [Next]_vars => SetupInv' /\ NoEarlyMatch'
    BY SetupInvStep, FreezeStep DEF SetupInv, TypeInv
<1>3. SetupInv /\ NoEarlyMatch /\ [Next]_vars => [Lifecycle!Next]_(Lifecycle!vars)
    BY LifecycleStep, WhatIsSeen DEF Seen, Lifecycle!vars
<1>4. QED
    BY <1>1, <1>2, <1>3, LifecycleInit, PTL DEF Spec, ImplementsLifecycle, Lifecycle!Spec

=============================================================================
