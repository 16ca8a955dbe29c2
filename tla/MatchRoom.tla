----------------------------- MODULE MatchRoom -----------------------------
(***************************************************************************)
(* The life of a match room, as match-room.repository.ts drives it: a      *)
(* creator opens it, players join until it is full, everybody confirms     *)
(* within a window, two random captains draft the teams and ban the maps   *)
(* in turn, and the competitive match is frozen when one map is left.      *)
(*                                                                         *)
(* Every operation is one database transaction that holds the room's row   *)
(* lock (lockRoom), so an operation is one action.  Time windows are only  *)
(* looked at when somebody reads or changes the room: a window first       *)
(* elapses, and is reconciled later, by whichever request comes along.  A  *)
(* request that finds an elapsed window commits the reconciliation first   *)
(* (the Reconcile... actions) and is then retried or refused.  A thrown    *)
(* TypeError rolls the transaction back: the action is then not enabled.   *)
(*                                                                         *)
(* The server saga's effect on a room is the three actions Allocate,       *)
(* Finalize and SeriesEnd; MatchServer has them in detail.                 *)
(***************************************************************************)
EXTENDS Naturals, FiniteSets

CONSTANTS
    Players,      \* player accounts
    Rooms,        \* room identifiers that may ever be used
    Maps,         \* the entries of the active map pool (7 in the code)
    TeamSize,     \* 5 in the code: MATCH_ROOM_CAPACITY is twice this
    MaxRound,     \* bound on the confirmation rounds of one room
    Volatile,     \* bound: players whose standing changes from outside
    NoPlayer,     \* a NULL player column
    NoMap         \* a NULL map column

ASSUME PlayersAssumption == IsFiniteSet(Players) /\ NoPlayer \notin Players
ASSUME MapsAssumption    == IsFiniteSet(Maps) /\ Cardinality(Maps) >= 2 /\ NoMap \notin Maps
ASSUME TeamAssumption    == TeamSize \in Nat /\ TeamSize >= 1
ASSUME BoundsAssumption  == MaxRound \in Nat \ {0} /\ Volatile \subseteq Players

VARIABLES
    status,           \* match_rooms.status, "NONE" when the id is not used yet
    creator,          \* match_rooms.creator_player_account_id
    members,          \* players with a participant row whose released_at is NULL
    round,            \* match_rooms.confirmation_round
    confirmed,        \* confirmed_round of a player's active row, 0 for NULL
    window,           \* the confirmation deadline
    draft,            \* the match_room_drafts row
    side,             \* team of a player's match_room_draft_assignments row
    pickedAt,         \* selection_order of that row, 0 for NULL
    veto,             \* the match_room_map_vetos row
    bannedAt,         \* action_order of a map's veto action, 0 when not banned
    bannedBy,         \* actor of that action
    match,            \* the competitive_matches row and its roster
    eligible,         \* active account, Steam linked, membership effective
    named             \* linked Steam profile has a non-empty personaname

roomVars  == <<status, creator, members>>
roundVars == <<round, confirmed, window>>
draftVars == <<draft, side, pickedAt>>
vetoVars  == <<veto, bannedAt, bannedBy>>
envVars   == <<eligible, named>>
vars      == <<roomVars, roundVars, draftVars, vetoVars, match, envVars>>

-----------------------------------------------------------------------------
Capacity  == 2 * TeamSize
LastPick  == Capacity - 2           \* the order written for LAST_REMAINING
LastBan   == Cardinality(Maps) - 1
Sides     == {"A", "B"}
NoSide    == "NONE"
Deadlines == {"NULL", "RUNNING", "ELAPSED"}
Statuses  == {"NONE", "FORMING", "CONFIRMING", "SETUP", "READY",
              "PROVISIONING", "JOINABLE", "FAILED", "CANCELLED", "COMPLETED"}

Gathering == {"FORMING", "CONFIRMING"}
Live      == {"READY", "PROVISIONING", "JOINABLE", "FAILED"}
Locked    == Live \cup {"SETUP"}
Active    == Gathering \cup Locked
Final     == {"CANCELLED", "COMPLETED"}

PlayerOrNull == Players \cup {NoPlayer}
MapOrNull    == Maps \cup {NoMap}
SideOrNone   == Sides \cup {NoSide}
Phases       == {"NONE", "OPEN", "DONE"}

DraftRows == [phase : Phases, captain : [Sides -> PlayerOrNull], first : PlayerOrNull,
              picker : PlayerOrNull, order : Nat, deadline : Deadlines]
VetoRows  == [phase : Phases, first : PlayerOrNull, vetoer : PlayerOrNull,
              order : Nat, deadline : Deadlines, selected : MapOrNull]
MatchRows == [map : MapOrNull, team : [Players -> SideOrNone]]

NoDraft == [phase |-> "NONE", captain |-> [s \in Sides |-> NoPlayer],
            first |-> NoPlayer, picker |-> NoPlayer, order |-> 0, deadline |-> "NULL"]
NoVeto  == [phase |-> "NONE", first |-> NoPlayer, vetoer |-> NoPlayer, order |-> 0,
            deadline |-> "NULL", selected |-> NoMap]
NoMatch == [map |-> NoMap, team |-> [p \in Players |-> NoSide]]

(* What a room looks like as soon as its roster is locked. *)
Captain(r, s)    == draft[r].captain[s]
Captains(r)      == {Captain(r, "A"), Captain(r, "B")}
OtherCaptain(r, p) == IF p = Captain(r, "A") THEN Captain(r, "B") ELSE Captain(r, "A")
SideMembers(r, s) == {p \in members[r] : side[r][p] = s}
Unassigned(r)    == {p \in members[r] : side[r][p] = NoSide}
Unbanned(r)      == {m \in Maps : bannedAt[r][m] = 0}

Seated(p)    == \E r \in Rooms : p \in members[r]
HasMatch(r)  == match[r].map # NoMap

(* A confirmation window somebody still has to reconcile. *)
WindowElapsed(r) == status[r] = "CONFIRMING" /\ window[r] = "ELAPSED"

-----------------------------------------------------------------------------
TypeOK ==
    /\ status   \in [Rooms -> Statuses]
    /\ creator  \in [Rooms -> PlayerOrNull]
    /\ members  \in [Rooms -> SUBSET Players]
    /\ round    \in [Rooms -> 0..MaxRound]
    /\ confirmed \in [Rooms -> [Players -> 0..MaxRound]]
    /\ window   \in [Rooms -> Deadlines]
    /\ draft    \in [Rooms -> DraftRows]
    /\ side     \in [Rooms -> [Players -> SideOrNone]]
    /\ pickedAt \in [Rooms -> [Players -> Nat]]
    /\ veto     \in [Rooms -> VetoRows]
    /\ bannedAt \in [Rooms -> [Maps -> Nat]]
    /\ bannedBy \in [Rooms -> [Maps -> PlayerOrNull]]
    /\ match    \in [Rooms -> MatchRows]
    /\ eligible \subseteq Players
    /\ named    \subseteq Players

-----------------------------------------------------------------------------
Init ==
    /\ status    = [r \in Rooms |-> "NONE"]
    /\ creator   = [r \in Rooms |-> NoPlayer]
    /\ members   = [r \in Rooms |-> {}]
    /\ round     = [r \in Rooms |-> 0]
    /\ confirmed = [r \in Rooms |-> [p \in Players |-> 0]]
    /\ window    = [r \in Rooms |-> "NULL"]
    /\ draft     = [r \in Rooms |-> NoDraft]
    /\ side      = [r \in Rooms |-> [p \in Players |-> NoSide]]
    /\ pickedAt  = [r \in Rooms |-> [p \in Players |-> 0]]
    /\ veto      = [r \in Rooms |-> NoVeto]
    /\ bannedAt  = [r \in Rooms |-> [m \in Maps |-> 0]]
    /\ bannedBy  = [r \in Rooms |-> [m \in Maps |-> NoPlayer]]
    /\ match     = [r \in Rooms |-> NoMatch]
    /\ eligible  = Players
    /\ named     = Players

(* The active row a player gets when seated carries no confirmation yet. *)
Seat(r, p) ==
    /\ ~Seated(p)               \* unique key uniq_match_room_active_player
    /\ members'   = [members EXCEPT ![r] = @ \cup {p}]
    /\ confirmed' = [confirmed EXCEPT ![r][p] = 0]

Create(r, p) ==
    /\ status[r] = "NONE"
    /\ p \in eligible
    /\ Seat(r, p)
    /\ status'  = [status EXCEPT ![r] = "FORMING"]
    /\ creator' = [creator EXCEPT ![r] = p]
    /\ UNCHANGED <<round, window, draftVars, vetoVars, match, envVars>>

(* The tenth participant opens a new confirmation round and its window. *)
Join(r, p) ==
    /\ status[r] = "FORMING"
    /\ p \in eligible
    /\ Cardinality(members[r]) < Capacity
    /\ Seat(r, p)
    /\ \/ /\ Cardinality(members[r]) + 1 < Capacity
          /\ UNCHANGED <<status, round, window>>
       \/ /\ Cardinality(members[r]) + 1 = Capacity
          /\ round[r] < MaxRound
          /\ status' = [status EXCEPT ![r] = "CONFIRMING"]
          /\ round'  = [round EXCEPT ![r] = @ + 1]
          /\ window' = [window EXCEPT ![r] = "RUNNING"]
    /\ UNCHANGED <<creator, draftVars, vetoVars, match, envVars>>

(* Mutant: leaving is possible once the roster is locked. *)
LeaveAnyTime(r, p) ==
    /\ status[r] \in Active
    /\ p # creator[r]
    /\ p \in members[r]
    /\ members' = [members EXCEPT ![r] = @ \ {p}]
    /\ UNCHANGED <<status, creator, roundVars, draftVars, vetoVars, match, envVars>>

Leave(r, p) ==
    /\ status[r] = "FORMING"
    /\ p # creator[r]
    /\ p \in members[r]
    /\ members' = [members EXCEPT ![r] = @ \ {p}]
    /\ UNCHANGED <<status, creator, roundVars, draftVars, vetoVars, match, envVars>>

(* Everybody's row is released: nobody is in the room any more. *)
Cancel(r, p) ==
    /\ p = creator[r]
    /\ status[r] \in {"FORMING", "CONFIRMING", "SETUP"}
    /\ ~WindowElapsed(r)
    /\ status'  = [status EXCEPT ![r] = "CANCELLED"]
    /\ window'  = [window EXCEPT ![r] = "NULL"]
    /\ members' = [members EXCEPT ![r] = {}]
    /\ UNCHANGED <<creator, round, confirmed, draftVars, vetoVars, match, envVars>>

-----------------------------------------------------------------------------
(* Two distinct captains and who picks first are drawn at random. *)
InitializeDraft(r) ==
    \E a, b \in members[r] : \E first \in {a, b} :
        /\ a # b
        /\ draft' = [draft EXCEPT ![r] =
               [phase |-> "OPEN", captain |-> [s \in Sides |-> IF s = "A" THEN a ELSE b],
                first |-> first, picker |-> first, order |-> 1, deadline |-> "RUNNING"]]
        /\ side'  = [side EXCEPT ![r] = [@ EXCEPT ![a] = "A", ![b] = "B"]]

(* Mutant: a confirmation of any round counts for the others. *)
ConfirmAnyRound(r, p) ==
    /\ status[r] = "CONFIRMING"
    /\ ~WindowElapsed(r)
    /\ p \in members[r]
    /\ confirmed[r][p] # round[r]
    /\ confirmed' = [confirmed EXCEPT ![r][p] = round[r]]
    /\ IF \A q \in members[r] \ {p} : confirmed[r][q] # 0
          THEN /\ status' = [status EXCEPT ![r] = "SETUP"]
               /\ window' = [window EXCEPT ![r] = "NULL"]
               /\ InitializeDraft(r)
          ELSE UNCHANGED <<status, window, draft, side>>
    /\ UNCHANGED <<creator, members, round, pickedAt, vetoVars, match, envVars>>

(* The last confirmation of the round locks the roster and opens the draft. *)
Confirm(r, p) ==
    /\ status[r] = "CONFIRMING"
    /\ ~WindowElapsed(r)
    /\ p \in members[r]
    /\ confirmed[r][p] # round[r]
    /\ confirmed' = [confirmed EXCEPT ![r][p] = round[r]]
    /\ \/ /\ \E q \in members[r] \ {p} : confirmed[r][q] # round[r]
          /\ UNCHANGED <<status, window, draft, side>>
       \/ /\ \A q \in members[r] \ {p} : confirmed[r][q] = round[r]
          /\ status' = [status EXCEPT ![r] = "SETUP"]
          /\ window' = [window EXCEPT ![r] = "NULL"]
          /\ InitializeDraft(r)
    /\ UNCHANGED <<creator, members, round, pickedAt, vetoVars, match, envVars>>

(* Mutant: the room goes on, without the creator when he did not confirm. *)
ReconcileEvictingCreator(r) ==
    /\ WindowElapsed(r)
    /\ window'  = [window EXCEPT ![r] = "NULL"]
    /\ status'  = [status EXCEPT ![r] = "FORMING"]
    /\ members' = [members EXCEPT ![r] = {p \in @ : confirmed[r][p] = round[r]}]
    /\ UNCHANGED <<creator, round, confirmed, draftVars, vetoVars, match, envVars>>

(* reconcileLocked: without the creator's confirmation the room is over;     *)
(* otherwise the players who did not confirm lose their seat.                *)
ReconcileConfirmation(r) ==
    /\ WindowElapsed(r)
    /\ window' = [window EXCEPT ![r] = "NULL"]
    /\ \/ /\ confirmed[r][creator[r]] # round[r]
          /\ status'  = [status EXCEPT ![r] = "CANCELLED"]
          /\ members' = [members EXCEPT ![r] = {}]
       \/ /\ confirmed[r][creator[r]] = round[r]
          /\ status'  = [status EXCEPT ![r] = "FORMING"]
          /\ members' = [members EXCEPT ![r] = {p \in @ : confirmed[r][p] = round[r]}]
    /\ UNCHANGED <<creator, round, confirmed, draftVars, vetoVars, match, envVars>>

-----------------------------------------------------------------------------
(* A veto starts with a captain drawn at random over the whole pool. *)
InitializeMapVeto(r) ==
    \E first \in Captains(r) :
        veto' = [veto EXCEPT ![r] = [phase |-> "OPEN", first |-> first, vetoer |-> first,
                                     order |-> 1, deadline |-> "RUNNING", selected |-> NoMap]]

ClosedDraft(r) ==
    [draft[r] EXCEPT !.phase = "DONE", !.picker = NoPlayer, !.order = 0, !.deadline = "NULL"]

DraftTurnPassed(r) ==
    [draft[r] EXCEPT !.picker = OtherCaptain(r, @), !.order = @ + 1, !.deadline = "RUNNING"]

PickerSide(r) == side[r][draft[r].picker]

(* Mutant: off by one, the last pick is compared with a complete team. *)
LastSideOffByOne(r) ==
    LET teamA == Cardinality(SideMembers(r, "A")) + (IF PickerSide(r) = "A" THEN 1 ELSE 0)
    IN  IF teamA = TeamSize THEN "A" ELSE "B"

(* The team of the last player is decided by how many team A has got. *)
LastSide(r) ==
    LET teamA == Cardinality(SideMembers(r, "A")) + (IF PickerSide(r) = "A" THEN 1 ELSE 0)
    IN  IF teamA = TeamSize - 1 THEN "A" ELSE "B"

(* Target p goes to the picker's team.  While two or more are left the other *)
(* captain picks next; when one is left it is placed at once, the draft is   *)
(* over and the map veto opens.                                              *)
Pick(r, p) ==
    \/ /\ Cardinality(Unassigned(r) \ {p}) > 1
       /\ side'     = [side EXCEPT ![r][p] = PickerSide(r)]
       /\ pickedAt' = [pickedAt EXCEPT ![r][p] = draft[r].order]
       /\ draft'    = [draft EXCEPT ![r] = DraftTurnPassed(r)]
       /\ UNCHANGED veto
    \/ \E last \in Players :
          /\ Unassigned(r) \ {p} = {last}
          /\ side'     = [side EXCEPT ![r] = [@ EXCEPT ![p] = PickerSide(r), ![last] = LastSide(r)]]
          /\ pickedAt' = [pickedAt EXCEPT ![r] = [@ EXCEPT ![p] = draft[r].order, ![last] = LastPick]]
          /\ draft'    = [draft EXCEPT ![r] = ClosedDraft(r)]
          /\ InitializeMapVeto(r)

DraftOpen(r) == status[r] = "SETUP" /\ draft[r].phase = "OPEN"

DraftPick(r, viewer, p) ==
    /\ DraftOpen(r)
    /\ draft[r].deadline = "RUNNING"
    /\ viewer = draft[r].picker
    /\ p \in Unassigned(r)
    /\ Pick(r, p)
    /\ UNCHANGED <<roomVars, roundVars, bannedAt, bannedBy, match, envVars>>

(* reconcileDraftLocked: TIMEOUT_AUTO_PICK of a random player, or the end of  *)
(* a draft in which nobody is left to pick (teams of one).                   *)
ReconcileDraft(r) ==
    /\ DraftOpen(r)
    /\ draft[r].deadline = "ELAPSED"
    /\ \/ \E p \in Unassigned(r) : Pick(r, p)
       \/ /\ Unassigned(r) = {}
          /\ draft' = [draft EXCEPT ![r] = ClosedDraft(r)]
          /\ InitializeMapVeto(r)
          /\ UNCHANGED <<side, pickedAt>>
    /\ UNCHANGED <<roomVars, roundVars, bannedAt, bannedBy, match, envVars>>

(* reconcileVetoRecoveryLocked: a drafted room without a veto gets one. *)
RecoverVeto(r) ==
    /\ status[r] = "SETUP"
    /\ draft[r].phase = "DONE"
    /\ veto[r].phase = "NONE"
    /\ InitializeMapVeto(r)
    /\ UNCHANGED <<roomVars, roundVars, draftVars, bannedAt, bannedBy, match, envVars>>

-----------------------------------------------------------------------------
(* validateCompetitiveMatchSetupInvariants throws unless this holds, and the *)
(* whole transaction is rolled back.                                         *)
CanMaterialize(r) ==
    /\ Cardinality(members[r]) = Capacity
    /\ \A s \in Sides : Cardinality(SideMembers(r, s)) = TeamSize
    /\ members[r] \subseteq named

(* The map and the two teams are frozen in the competitive match; the room   *)
(* is READY in the same transaction.                                         *)
MaterializeCompetitiveMatch(r, map) ==
    /\ CanMaterialize(r)
    /\ match'  = [match EXCEPT ![r] = [map |-> map, team |-> side[r]]]
    /\ status' = [status EXCEPT ![r] = "READY"]

VetoTurnPassed(r) ==
    [veto[r] EXCEPT !.vetoer = OtherCaptain(r, @), !.order = @ + 1, !.deadline = "RUNNING"]

ClosedVeto(r, map) ==
    [veto[r] EXCEPT !.phase = "DONE", !.vetoer = NoPlayer, !.order = 0,
                    !.deadline = "NULL", !.selected = map]

(* Map m is banned in the name of the captain whose turn it is.  After the   *)
(* last ban the one map left is selected and the match is made.              *)
Ban(r, m) ==
    /\ bannedAt' = [bannedAt EXCEPT ![r][m] = veto[r].order]
    /\ bannedBy' = [bannedBy EXCEPT ![r][m] = veto[r].vetoer]
    /\ \/ /\ veto[r].order < LastBan
          /\ veto' = [veto EXCEPT ![r] = VetoTurnPassed(r)]
          /\ UNCHANGED <<status, match>>
       \/ /\ veto[r].order >= LastBan
          /\ \E last \in Unbanned(r) \ {m} :
                /\ veto' = [veto EXCEPT ![r] = ClosedVeto(r, last)]
                /\ MaterializeCompetitiveMatch(r, last)

VetoOpen(r) == status[r] = "SETUP" /\ draft[r].phase = "DONE" /\ veto[r].phase = "OPEN"

MapVetoBan(r, viewer, m) ==
    /\ VetoOpen(r)
    /\ veto[r].deadline = "RUNNING"
    /\ viewer = veto[r].vetoer
    /\ m \in Unbanned(r)
    /\ Ban(r, m)
    /\ UNCHANGED <<creator, members, roundVars, draftVars, envVars>>

(* Mutant: off by one, the last ban is never made automatically. *)
ReconcileVetoButLast(r) ==
    /\ VetoOpen(r)
    /\ veto[r].deadline = "ELAPSED"
    /\ veto[r].order < LastBan
    /\ \E m \in Unbanned(r) : Ban(r, m)
    /\ UNCHANGED <<creator, members, roundVars, draftVars, envVars>>

(* reconcileVetoTimeoutLocked: TIMEOUT_AUTO_BAN of a random map. *)
ReconcileVeto(r) ==
    /\ VetoOpen(r)
    /\ veto[r].deadline = "ELAPSED"
    /\ \E m \in Unbanned(r) : Ban(r, m)
    /\ UNCHANGED <<creator, members, roundVars, draftVars, envVars>>

(* Mutant: the room is READY although it never got a match. *)
CompleteSetupBlindly(r) ==
    /\ status[r] = "SETUP"
    /\ draft[r].phase = "DONE"
    /\ veto[r].phase = "DONE"
    /\ status' = [status EXCEPT ![r] = "READY"]
    /\ UNCHANGED <<creator, members, roundVars, draftVars, vetoVars, match, envVars>>

(* The last part of reconcileRoom: a room still in SETUP with both phases    *)
(* done gets its match, unless it has one, and is READY.                     *)
CompleteSetup(r) ==
    /\ status[r] = "SETUP"
    /\ draft[r].phase = "DONE"
    /\ veto[r].phase = "DONE"
    /\ IF HasMatch(r)
          THEN status' = [status EXCEPT ![r] = "READY"] /\ UNCHANGED match
          ELSE MaterializeCompetitiveMatch(r, veto[r].selected)
    /\ UNCHANGED <<creator, members, roundVars, draftVars, vetoVars, envVars>>

-----------------------------------------------------------------------------
(* What the server saga does to a room; see MatchServer. *)
Allocate(r) ==
    /\ status[r] = "READY"
    /\ HasMatch(r)
    /\ status' = [status EXCEPT ![r] = "PROVISIONING"]
    /\ UNCHANGED <<creator, members, roundVars, draftVars, vetoVars, match, envVars>>

Finalize(r) ==
    /\ status[r] = "PROVISIONING"
    /\ \E outcome \in {"JOINABLE", "FAILED"} :
          /\ outcome = "JOINABLE" => members[r] \subseteq eligible
          /\ status' = [status EXCEPT ![r] = outcome]
    /\ UNCHANGED <<creator, members, roundVars, draftVars, vetoVars, match, envVars>>

SeriesEnd(r) ==
    /\ status[r] = "JOINABLE"
    /\ status'  = [status EXCEPT ![r] = "COMPLETED"]
    /\ members' = [members EXCEPT ![r] = {}]
    /\ UNCHANGED <<creator, roundVars, draftVars, vetoVars, match, envVars>>

-----------------------------------------------------------------------------
(* The thirty seconds of whichever window is open go by. *)
Elapse(r) ==
    /\ \/ /\ status[r] = "CONFIRMING" /\ window[r] = "RUNNING"
          /\ window' = [window EXCEPT ![r] = "ELAPSED"]
          /\ UNCHANGED <<draft, veto>>
       \/ /\ status[r] = "SETUP" /\ draft[r].deadline = "RUNNING"
          /\ draft' = [draft EXCEPT ![r].deadline = "ELAPSED"]
          /\ UNCHANGED <<window, veto>>
       \/ /\ status[r] = "SETUP" /\ veto[r].deadline = "RUNNING"
          /\ veto' = [veto EXCEPT ![r].deadline = "ELAPSED"]
          /\ UNCHANGED <<window, draft>>
    /\ UNCHANGED <<roomVars, round, confirmed, side, pickedAt, bannedAt, bannedBy,
                   match, envVars>>

(* An account is disabled or a membership lapses, and the other way round.   *)
ChangeEligibility(p) ==
    /\ p \in Volatile
    /\ eligible' = IF p \in eligible THEN eligible \ {p} ELSE eligible \cup {p}
    /\ UNCHANGED <<roomVars, roundVars, draftVars, vetoVars, match, named>>

(* A profile refresh overwrites personaname with what Steam answers.         *)
RefreshSteamProfile(p) ==
    /\ p \in Volatile
    /\ named' = IF p \in named THEN named \ {p} ELSE named \cup {p}
    /\ UNCHANGED <<roomVars, roundVars, draftVars, vetoVars, match, eligible>>

ReconcileRoom(r) ==
    \/ ReconcileConfirmation(r)
    \/ ReconcileDraft(r)
    \/ RecoverVeto(r)
    \/ ReconcileVeto(r)
    \/ CompleteSetup(r)

Next ==
    \/ \E r \in Rooms :
          \/ \E p \in Players :
                \/ Create(r, p)
                \/ Join(r, p)
                \/ Leave(r, p)
                \/ Cancel(r, p)
                \/ Confirm(r, p)
                \/ \E target \in Players : DraftPick(r, p, target)
                \/ \E m \in Maps : MapVetoBan(r, p, m)
          \/ ReconcileRoom(r)
          \/ Allocate(r)
          \/ Finalize(r)
          \/ SeriesEnd(r)
          \/ Elapse(r)
    \/ \E p \in Players :
          \/ ChangeEligibility(p)
          \/ RefreshSteamProfile(p)

Spec == Init /\ [][Next]_vars

-----------------------------------------------------------------------------
(* Nobody sits in two rooms at once, however creations, joins, timeouts and  *)
(* releases of different rooms interleave (uniq_match_room_active_player).   *)
OneActiveRoom ==
    \A r1, r2 \in Rooms : r1 # r2 => members[r1] \cap members[r2] = {}

(* An active room always seats its creator, a forming room still has a free  *)
(* seat, and from the confirmation window on the room is exactly full; an    *)
(* over room seats nobody.  A timed out window must neither evict the        *)
(* creator from a room that goes on nor leave a full room FORMING.           *)
Seating ==
    \A r \in Rooms :
        /\ status[r] \in Active => creator[r] \in members[r]
        /\ status[r] = "FORMING" => Cardinality(members[r]) < Capacity
        /\ status[r] \in Locked \cup {"CONFIRMING"} => Cardinality(members[r]) = Capacity
        /\ status[r] \in Final \cup {"NONE"} => members[r] = {}

(* A locked roster consists of players who confirmed the round that locked   *)
(* it: a confirmation given in an earlier round, or on a row released since, *)
(* never counts (confirm compares confirmed_round with the current round).   *)
LockedRosterConsented ==
    \A r \in Rooms :
        status[r] \in Locked => \A p \in members[r] : confirmed[r][p] = round[r]

(* The draft is fair and complete: picks alternate between the captains,     *)
(* starting with the one drawn, every order is used once, the last player    *)
(* left gets the order written for LAST_REMAINING and the teams come out     *)
(* even, whichever picks were made by hand and whichever by timeout.         *)
DraftFair ==
    \A r \in Rooms : status[r] \in Locked /\ draft[r].phase # "NONE" =>
        /\ \A p, q \in members[r] : pickedAt[r][p] = pickedAt[r][q] /\ pickedAt[r][p] # 0 => p = q
        /\ \A p \in members[r] : pickedAt[r][p] # 0 =>
               (side[r][p] = side[r][draft[r].first] <=> pickedAt[r][p] % 2 = 1)
        /\ draft[r].phase = "DONE" =>
               /\ \A s \in Sides : Cardinality(SideMembers(r, s)) = TeamSize
               /\ {pickedAt[r][p] : p \in members[r]} = 0..LastPick

(* The map veto is fair and complete: captains ban in turn, each map at most *)
(* once, and the map that is played is the only one nobody banned.           *)
VetoFair ==
    \A r \in Rooms : status[r] \in Locked /\ veto[r].phase # "NONE" =>
        /\ \A m, n \in Maps :
               /\ bannedAt[r][m] = bannedAt[r][n] /\ bannedAt[r][m] # 0 => m = n
               /\ bannedAt[r][n] = bannedAt[r][m] + 1 /\ bannedAt[r][m] # 0 =>
                     {bannedBy[r][m], bannedBy[r][n]} = Captains(r)
        /\ veto[r].phase = "DONE" => Unbanned(r) = {veto[r].selected}

(* Captains get the teams and the map that their own turns decided, also     *)
(* when some of the turns are taken for them.                                *)
SetupFair == DraftFair /\ VetoFair

(* Once the roster is locked nobody enters or leaves until everybody is      *)
(* released at the end, and a competitive match once made never changes,     *)
(* not even when profiles, memberships or other rooms do.                    *)
RosterFrozen ==
    [][\A r \in Rooms :
          /\ status[r] \in Locked => members'[r] = members[r] \/ status'[r] \in Final
          /\ HasMatch(r) => match'[r] = match[r]]_vars

-----------------------------------------------------------------------------
PhaseOf(r) ==
    CASE status[r] = "NONE"       -> "UNUSED"
      [] status[r] \in Gathering  -> "GATHERING"
      [] status[r] = "SETUP"      -> "LOCKED"
      [] status[r] \in Live       -> "LIVE"
      [] status[r] \in Final      -> "OVER"

Teams(r) == [s \in Sides |-> {p \in Players : match[r].team[p] = s}]

Lifecycle == INSTANCE MatchLifecycle WITH
    phase    <- [r \in Rooms |-> PhaseOf(r)],
    lineup   <- [r \in Rooms |-> IF HasMatch(r) THEN Teams(r) ELSE NoMap],
    NoLineup <- NoMap

(* Windows, rounds, drafts, vetos and the server saga are one way to keep    *)
(* the promises of MatchLifecycle: players enter only while the room         *)
(* gathers, only a full roster locks, and an even line-up of exactly that    *)
(* roster goes live.                                                         *)
ImplementsLifecycle == Lifecycle!Spec

(* Nobody has to press a button for windows to close: time passes, and some  *)
(* client keeps reading the room (getById, getCurrent and listRelevant all   *)
(* reconcile it).  The service itself runs no timer.                         *)
Progress == \A r \in Rooms : WF_vars(Elapse(r)) /\ WF_vars(ReconcileRoom(r))

(* A locked roster gets its match, or is cancelled, although captains may    *)
(* never act: automatic picks and bans finish the setup.  A missing Steam    *)
(* personaname rolls the last step back, so the promise only holds when      *)
(* profiles are eventually complete; the retry then succeeds.                *)
SetupEnds ==
    <>[](named = Players) => \A r \in Rooms : status[r] = "SETUP" ~> status[r] # "SETUP"

=============================================================================
