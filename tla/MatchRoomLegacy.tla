-------------------------- MODULE MatchRoomLegacy --------------------------
(***************************************************************************)
(* MatchRoom from the moment a roster is locked: by Confirm, or by an      *)
(* earlier release that left the room in SETUP.                            *)
(* The draft, the veto and the competitive match were added by migrations  *)
(* 0020, 0022 and 0023, one release after the other; reconcileRoom brings  *)
(* a room that stopped at one of those frontiers to READY.                 *)
(***************************************************************************)
EXTENDS MatchRoom, Functions

(* The players in the order they were drafted: two captains, then the picks. *)
Turns == Bijection(Players, 1..Capacity)

CONSTANT SeatOrders   \* bound: the orders in which a room was drafted, or is drawn

ASSUME SeatOrdersAssumption == SeatOrders \subseteq Turns

Stages == {"DRAFTED", "VETOED", "MATCHED"}

TurnSide(turn) == [p \in Players |-> IF turn[p] % 2 = 1 THEN "A" ELSE "B"]

Drawn(turn, k)      == CHOOSE p \in Players : turn[p] = k
CaptainsOf(turn)    == {Drawn(turn, 1), Drawn(turn, 2)}
DrawnCaptains(turn) == [s \in Sides |-> Drawn(turn, IF s = "A" THEN 1 ELSE 2)]

LegacyDraft(turn) ==
    [NoDraft EXCEPT !.phase = "DONE", !.first = Drawn(turn, 1), !.captain = DrawnCaptains(turn)]

LeftOver(ban) == CHOOSE m \in Maps : ban[m] = Cardinality(Maps)

LegacyVeto(turn, ban) ==
    [NoVeto EXCEPT !.phase = "DONE", !.first = Drawn(turn, 1), !.selected = LeftOver(ban)]

(* What every start below has in common: room r0 is full, every player       *)
(* confirmed its first round and its roster is locked.                       *)
LockedRoom(r0, host) ==
    /\ status    = [r \in Rooms |-> IF r = r0 THEN "SETUP" ELSE "NONE"]
    /\ creator   = [r \in Rooms |-> IF r = r0 THEN host ELSE NoPlayer]
    /\ members   = [r \in Rooms |-> IF r = r0 THEN Players ELSE {}]
    /\ round     = [r \in Rooms |-> IF r = r0 THEN 1 ELSE 0]
    /\ confirmed = [r \in Rooms |-> [p \in Players |-> IF r = r0 THEN 1 ELSE 0]]
    /\ window    = [r \in Rooms |-> "NULL"]
    /\ eligible  = Players
    /\ named     = Players

(* The state Confirm leaves behind when the last player confirms. *)
LockedInit ==
    \E r0 \in Rooms, host \in Players, turn \in SeatOrders : \E first \in CaptainsOf(turn) :
    LET row == [NoDraft EXCEPT !.phase = "OPEN", !.captain = DrawnCaptains(turn), !.first = first,
                               !.picker = first, !.order = 1, !.deadline = "RUNNING"]
    IN
    /\ LockedRoom(r0, host)
    /\ draft     = [r \in Rooms |-> IF r = r0 THEN row ELSE NoDraft]
    /\ side      = [r \in Rooms |-> [p \in Players |->
                       IF r = r0 /\ turn[p] <= 2 THEN TurnSide(turn)[p] ELSE NoSide]]
    /\ pickedAt  = [r \in Rooms |-> [p \in Players |-> 0]]
    /\ veto      = [r \in Rooms |-> NoVeto]
    /\ bannedAt  = [r \in Rooms |-> [m \in Maps |-> 0]]
    /\ bannedBy  = [r \in Rooms |-> [m \in Maps |-> NoPlayer]]
    /\ match     = [r \in Rooms |-> NoMatch]

(* What a release without the veto, without the match, or with both, left. *)
LegacyInit ==
    \E r0 \in Rooms, host \in Players, turn \in SeatOrders, stage \in Stages :
    \E ban \in Bijection(Maps, 1..Cardinality(Maps)) :
    LET vetoed   == stage \in {"VETOED", "MATCHED"}
        banned(r, m) == r = r0 /\ vetoed /\ ban[m] < Cardinality(Maps)
        made     == [map |-> LegacyVeto(turn, ban).selected, team |-> TurnSide(turn)]
    IN
    /\ LockedRoom(r0, host)
    /\ draft     = [r \in Rooms |-> IF r = r0 THEN LegacyDraft(turn) ELSE NoDraft]
    /\ side      = [r \in Rooms |-> [p \in Players |-> IF r = r0 THEN TurnSide(turn)[p] ELSE NoSide]]
    /\ pickedAt  = [r \in Rooms |-> [p \in Players |->
                       IF r = r0 /\ turn[p] > 2 THEN turn[p] - 2 ELSE 0]]
    /\ veto      = [r \in Rooms |-> IF r = r0 /\ vetoed THEN LegacyVeto(turn, ban) ELSE NoVeto]
    /\ bannedAt  = [r \in Rooms |-> [m \in Maps |-> IF banned(r, m) THEN ban[m] ELSE 0]]
    /\ bannedBy  = [r \in Rooms |-> [m \in Maps |->
                       IF banned(r, m) THEN Drawn(turn, IF ban[m] % 2 = 1 THEN 1 ELSE 2) ELSE NoPlayer]]
    /\ match     = [r \in Rooms |-> IF r = r0 /\ stage = "MATCHED" THEN made ELSE NoMatch]

UpgradeSpec ==
    /\ LockedInit \/ LegacyInit
    /\ [][Next]_vars
    /\ Progress

-----------------------------------------------------------------------------
(* Whatever frontier a room stopped at, once it is live it has a match on    *)
(* the map its veto left over, with the teams its draft made, and the match  *)
(* an earlier release may have made is kept.                                 *)
RecoveredMatchFaithful ==
    \A r \in Rooms : status[r] \in Live =>
        /\ match[r].map = veto[r].selected /\ HasMatch(r)
        /\ Unbanned(r) = {veto[r].selected}
        /\ \A s \in Sides : SideMembers(r, s) = {p \in Players : match[r].team[p] = s}

=============================================================================
