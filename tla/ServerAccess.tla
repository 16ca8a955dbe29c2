---------------------------- MODULE ServerAccess ----------------------------
(***************************************************************************)
(* Who may enter a game server, and who is told so.  Five places of the    *)
(* code read the same identity, account and membership: the general check  *)
(* of server-access, the seat check of the match room, the membership and  *)
(* the entitlements a player is shown, and the contextual check, which     *)
(* goes on to the server, its active assignment, the frozen roster and the *)
(* room.  The room's snapshot decides on its own whom it shows the server. *)
(* None writes anything, each is one query, so a decision is a function of *)
(* an identity and of the state of the server saga, which runs here with   *)
(* the rosters of its rooms: a player is seated in one room at a time      *)
(* (MatchRoom!OneActiveRoom).                                              *)
(***************************************************************************)
EXTENDS MatchServer, Sequences

CONSTANTS
    Players,      \* player accounts
    Roster        \* competitive_match_roster of each room

ASSUME RosterAssumption ==
    /\ Roster \in [Rooms -> SUBSET Players]
    /\ \A r, q \in LegacyRooms : r # q => Roster[r] \cap Roster[q] = {}

-----------------------------------------------------------------------------
MembershipStatuses == {"inactive", "active", "suspended", "expired", "cancelled"}

(* What the query finds behind a SteamID64; membership "NULL" for no row, and *)
(* the clock of the database before or after expires_at.                     *)
Standing(linked, account, membership, expires) ==
    [linked |-> linked, account |-> account, membership |-> membership, expires |-> expires]

Identities ==
    {Standing(linked, account, "active", "AHEAD") :
        linked \in BOOLEAN, account \in {"active", "disabled"}}
    \cup {Standing(TRUE, "active", "NULL", "NULL")}
    \cup {Standing(TRUE, "active", membership, expires) :
             membership \in MembershipStatuses, expires \in {"NULL", "AHEAD", "PASSED"}}

(* resolveMembershipEffectiveStatus *)
EffectiveStatus(i) ==
    IF i.membership \in {"expired", "cancelled"} \/ i.expires # "PASSED"
    THEN i.membership
    ELSE "expired"

(* The reason of the first check that does not hold: <<check, reason>> pairs. *)
FirstRefusal(checks, otherwise) ==
    LET failing == {k \in DOMAIN checks : ~checks[k][1]}
    IN  IF failing = {} THEN otherwise
        ELSE checks[CHOOSE k \in failing : \A j \in failing : k <= j][2]

(* decisionForMembershipStatus *)
MembershipDecision(status) ==
    CASE status = "inactive"  -> "membership_inactive"
      [] status = "active"    -> "membership_active"
      [] status = "suspended" -> "membership_suspended"
      [] status = "expired"   -> "membership_expired"
      [] status = "cancelled" -> "membership_cancelled"
      [] OTHER                -> "ERROR"

(* authorizeByIdentity; an account without a Steam id is not even found. *)
GeneralDecision == [i \in Identities |->
    FirstRefusal(<< <<i.linked, "steam_identity_not_linked">>,
                    <<i.account = "active", "player_account_disabled">>,
                    <<i.membership # "NULL", "membership_required">> >>,
                 MembershipDecision(EffectiveStatus(i)))]

(* eligibilityError of the match room. *)
SeatRefusal(i) ==
    FirstRefusal(<< <<i.account = "active", "player_account_disabled">>,
                    <<i.linked, "steam_identity_not_linked">>,
                    <<i.membership # "NULL", "membership_required">>,
                    <<EffectiveStatus(i) = "active", MembershipDecision(EffectiveStatus(i))>> >>, "NONE")

(* GET /player/membership *)
MembershipShown(i) == IF i.membership = "NULL" THEN "NULL" ELSE EffectiveStatus(i)

(* findMembershipByPlayerAccountId of the entitlements *)
MembershipForEntitlements(i) == IF i.membership = "NULL" THEN "NULL" ELSE EffectiveStatus(i)

(* getEntitlementsForPlayerAccount: those of the plan, or none. *)
Entitled(i) == MembershipForEntitlements(i) = "active"

(* Mutant: the membership's column is compared, whatever its expiry. *)
MembershipRefusalByColumn(i) ==
    FirstRefusal(<< <<i.membership # "NULL", "membership_required">>,
                    <<i.membership # "inactive", "membership_inactive">>,
                    <<i.membership # "suspended", "membership_suspended">>,
                    <<i.membership # "expired", "membership_expired">>,
                    <<i.membership # "cancelled", "membership_cancelled">> >>, "NONE")

MembershipRefusal(i) ==
    FirstRefusal(<< <<i.membership # "NULL", "membership_required">>,
                    <<EffectiveStatus(i) # "inactive", "membership_inactive">>,
                    <<EffectiveStatus(i) # "suspended", "membership_suspended">>,
                    <<EffectiveStatus(i) # "expired", "membership_expired">>,
                    <<EffectiveStatus(i) # "cancelled", "membership_cancelled">> >>, "NONE")

(* Mutant: a released assignment still counts. *)
AssignedEver(s) == {r \in Rooms : server[r] = s}

(* The rooms whose assignment is active on s: active_server_key is NULL once *)
(* the assignment is released.                                               *)
AssignedTo(s) == {r \in Rooms : Holds(r, s)}

(* What the room of the active assignment answers; ERROR is the TypeError.   *)
RoomDecision(r) ==
    CASE room[r] = "PROVISIONING" -> "server_preparing"
      [] room[r] = "JOINABLE"     -> "match_joinable"
      [] room[r] = "FAILED"       -> "match_failed"
      [] OTHER                    -> "ERROR"

(* The first three checks of the contextual authorize, then the other six:   *)
(* LIMIT 1 picks any active assignment.                                      *)
IdentityRefusal == [i \in Identities |->
    FirstRefusal(<< <<i.linked, "steam_identity_not_linked">>,
                    <<i.account = "active", "player_account_disabled">>,
                    <<MembershipRefusal(i) = "NONE", MembershipRefusal(i)>> >>, "NONE")]

MatchDecisions(p, s) ==
    LET refusal == FirstRefusal(<< <<s \in Servers, "server_not_registered">>,
                                   <<s \in enabled, "server_disabled">>,
                                   <<AssignedTo(s) # {}, "server_unassigned">> >>, "NONE")
    IN  IF refusal # "NONE" THEN {refusal}
        ELSE {IF p \in Roster[r] THEN RoomDecision(r) ELSE "not_match_roster" : r \in AssignedTo(s)}

ContextualDecisions(i, p, s) ==
    IF IdentityRefusal[i] # "NONE" THEN {IdentityRefusal[i]} ELSE MatchDecisions(p, s)

Admits(i, p, s) == "match_joinable" \in ContextualDecisions(i, p, s)

(* buildSnapshot: the server whose address room r shows to p; one without a  *)
(* join_reference or a launch_uri is not shown.                              *)
ViewerJoin(i, p, r) ==
    {s \in enabled \cap launchable : /\ room[r] = "JOINABLE" /\ p \in Roster[r]
                                     /\ SeatRefusal(i) = "NONE"
                                     /\ server[r] = s /\ r \notin released}

-----------------------------------------------------------------------------
(* Players of a room that is not over sit in no other room. *)
Playing(r) == room[r] \in {"READY", "PROVISIONING", "JOINABLE", "FAILED"}

AccessNext ==
    /\ Next
    /\ \A r, q \in Rooms :
          r # q /\ ~Playing(r) /\ room'[r] = "READY" /\ Playing(q) => Roster[q] \cap Roster[r] = {}

AccessSpec == Init /\ [][AccessNext]_vars /\ Fairness

-----------------------------------------------------------------------------
Unremarkable == Standing(TRUE, "active", "active", "AHEAD")

(* The checks of the code are written apart and must agree.  Whoever gets a  *)
(* seat is admitted in general, and the other way round; that is also what   *)
(* his membership and entitlements show.  Whatever the general check refuses *)
(* the contextual one refuses for the same reason, and where it does not the *)
(* match alone decides, at every server and every moment of every match.     *)
AccessChecksAgree ==
    \A i \in Identities :
        LET decision == GeneralDecision[i] IN
        /\ decision = "membership_active" <=> SeatRefusal(i) = "NONE"
        /\ i.linked /\ i.account = "active" =>
              /\ decision = "membership_active" <=> Entitled(i)
              /\ MembershipShown(i) # "NULL" => decision = MembershipDecision(MembershipShown(i))
        /\ \A p \in Players, s \in Servers :
              IF decision = "membership_active"
              THEN Admits(i, p, s) <=> Admits(Unremarkable, p, s)
              ELSE ContextualDecisions(i, p, s) = {decision}

(* A player in good standing is let into at most one server at a time, and   *)
(* only while his own match is being played there: prepared by the bridge,   *)
(* not failed and its series_end not stored.  Whoever is shown a server by a *)
(* room is admitted there, and whoever is admitted is shown it as long as it *)
(* has its launch_uri: without one, which may be lost after the match became *)
(* joinable, the server admits players whose room does not show it.  The     *)
(* check never meets a room it does not expect, however allocation,          *)
(* finalization and release of several matches interleave.                   *)
OneWayIn ==
    \A p \in Players :
        /\ \A s, t \in Servers :
              Admits(Unremarkable, p, s) /\ Admits(Unremarkable, p, t) => s = t
        /\ \A i \in Identities, s \in Servers :
              (\E r \in Rooms : s \in ViewerJoin(i, p, r)) <=> Admits(i, p, s) /\ s \in launchable
        /\ \A s \in Servers :
              /\ "ERROR" \notin ContextualDecisions(Unremarkable, p, s)
              /\ Admits(Unremarkable, p, s) =>
                    \E r \in Rooms : /\ p \in Roster[r] /\ server[r] = s
                                     /\ command[r] = "SUCCEEDED"
                                     /\ <<s, r>> \notin ended

=============================================================================
