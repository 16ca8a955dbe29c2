---------------------------- MODULE MatchServer ----------------------------
(***************************************************************************)
(* The server saga of a room that has its competitive match: the allocator *)
(* binds it to a free server and issues a PREPARE_MATCH command, the       *)
(* bridge of the server's node claims the command under a lease and posts  *)
(* a result, the result makes the room JOINABLE or FAILED, and the edge's  *)
(* series_end event completes it and frees the server.                     *)
(*                                                                         *)
(* A room has at most one competitive match, a match at most one           *)
(* assignment and an assignment one command, so all are indexed by room.   *)
(* Each action is one transaction of server-assignment.repository.ts,      *)
(* match-bridge.repository.ts or match-ingress.repository.ts.  The claim   *)
(* endpoint runs three of them (claim, assign, claim again) and requests   *)
(* of one node overlap, so they interleave freely.  The bridge and the     *)
(* edge are external: a reply may be lost, a request repeated, late or     *)
(* early, and the bridge may use any lease token it was ever given.        *)
(***************************************************************************)
EXTENDS Naturals, FiniteSets

CONSTANTS
    Rooms,        \* rooms that get a competitive match
    LegacyRooms,  \* those an earlier release left PROVISIONING with a PREPARED result
    Servers,      \* match_server_resources.server_key
    Nodes,        \* match_bridge_nodes.bridge_node_key
    NodeOf,       \* bridge_node_key of each server
    Bodies,       \* result codes with their JSON documents
    MaxAttempts,  \* bound on the claims of one command
    Volatile,     \* bound: servers and rooms whose standing changes from outside
    NoServer,     \* no assignment
    NoBody        \* no result yet

ASSUME RoomsAssumption    == IsFiniteSet(Rooms) /\ LegacyRooms \subseteq Rooms
ASSUME ServersAssumption  == NoServer \notin Servers /\ NodeOf \in [Servers -> Nodes]
ASSUME BodiesAssumption   == NoBody \notin Bodies
ASSUME AttemptsAssumption == MaxAttempts \in Nat /\ MaxAttempts >= 1

VARIABLES
    room,        \* match_rooms.status
    reason,      \* match_rooms.failure_reason
    readyAt,     \* rank of match_rooms.ready_at among the rooms that became READY
    server,      \* server of the room's assignment
    released,    \* rooms whose assignment has a released_at
    command,     \* match_server_commands.status
    issuedAt,    \* rank of its created_at, 0 when there is no command
    attempt,     \* attempt_count; each claim draws a new token, named by its attempt
    lease,       \* whether lease_expires_at has passed
    result,      \* result_code and result_json
    answeredBy,  \* token of the submission that was recorded (history)
    errored,     \* rooms whose bridge got an error for an exact replay
    ended,       \* stored series_end events: edge source and runtime match
    enabled,     \* servers that are enabled
    launchable,  \* servers with a join_reference and a launch_uri
    fit          \* rooms whose frozen roster is still eligible

sagaVars    == <<room, reason>>
bindVars    == <<server, released>>
commandVars == <<command, issuedAt, attempt, lease, result, answeredBy>>
envVars     == <<enabled, launchable, fit>>
vars        == <<sagaVars, readyAt, bindVars, commandVars, errored, ended, envVars>>

-----------------------------------------------------------------------------
Statuses == {"SETUP", "READY", "PROVISIONING", "JOINABLE", "FAILED", "COMPLETED"}
Reasons  == {"NULL", "prepare_match_failed", "roster_eligibility_lost",
             "server_resource_unavailable"}
Outcomes == {"SUCCEEDED", "FAILED"}

Bound(r)    == server[r] # NoServer
Holds(r, s) == server[r] = s /\ r \notin released
(* Mutant: a server is only taken while its match is being prepared. *)
FreeOncePrepared(s) == \A r \in Rooms : ~(Holds(r, s) /\ room[r] = "PROVISIONING")
Free(s)     == \A r \in Rooms : ~Holds(r, s)
Terminal(r) == command[r] \in Outcomes

(* Mutant: any READY room will do. *)
AnyReady(r) == room[r] = "READY"

(* READY rooms nobody else precedes, and claimable commands of a node. *)
FirstReady(r) ==
    /\ room[r] = "READY"
    /\ \A q \in Rooms : room[q] = "READY" => readyAt[r] <= readyAt[q]

(* Mutant: a command whose lease was lost is never handed out again. *)
OnlyPending(n) ==
    {r \in Rooms : Bound(r) /\ NodeOf[server[r]] = n /\ command[r] = "PENDING"}

Claimable(n) ==
    {r \in Rooms : /\ Bound(r)
                   /\ NodeOf[server[r]] = n
                   /\ \/ command[r] = "PENDING"
                      \/ command[r] = "CLAIMED" /\ lease[r] = "EXPIRED"}

Rank(at) == 1 + Cardinality({r \in Rooms : at[r] # 0})

TypeOK ==
    /\ room       \in [Rooms -> Statuses]
    /\ reason     \in [Rooms -> Reasons]
    /\ readyAt    \in [Rooms -> Nat]
    /\ server     \in [Rooms -> Servers \cup {NoServer}]
    /\ released   \subseteq Rooms
    /\ command    \in [Rooms -> {"NONE", "PENDING", "CLAIMED"} \cup Outcomes]
    /\ issuedAt   \in [Rooms -> Nat]
    /\ attempt    \in [Rooms -> 0..MaxAttempts]
    /\ lease      \in [Rooms -> {"NULL", "ACTIVE", "EXPIRED"}]
    /\ result     \in [Rooms -> Bodies \cup {NoBody}]
    /\ answeredBy \in [Rooms -> 0..MaxAttempts]
    /\ errored    \subseteq Rooms
    /\ ended      \subseteq Servers \X Rooms
    /\ enabled    \subseteq Servers
    /\ launchable \subseteq Servers
    /\ fit        \subseteq Rooms

-----------------------------------------------------------------------------
(* A legacy room holds a server of its own and its command has SUCCEEDED. *)
Init ==
    /\ server \in [Rooms -> Servers \cup {NoServer}]
    /\ \A r \in Rooms : Bound(r) <=> r \in LegacyRooms
    /\ \A r, q \in LegacyRooms : server[r] = server[q] => r = q
    /\ result \in [Rooms -> Bodies \cup {NoBody}]
    /\ \A r \in Rooms : result[r] # NoBody <=> r \in LegacyRooms
    /\ LET legacy(value, default) == [r \in Rooms |-> IF r \in LegacyRooms THEN value ELSE default]
       IN  /\ room       = legacy("PROVISIONING", "SETUP")
           /\ command    = legacy("SUCCEEDED", "NONE")
           /\ attempt    = legacy(1, 0)
           /\ answeredBy = legacy(1, 0)
           /\ lease      = legacy("EXPIRED", "NULL")
           /\ readyAt    = legacy(1, 0)
           /\ issuedAt   = legacy(1, 0)
    /\ reason     = [r \in Rooms |-> "NULL"]
    /\ released   = {}
    /\ errored    = {}
    /\ ended      = {}
    /\ enabled    = Servers
    /\ launchable = Servers
    /\ fit        = Rooms

(* The end of the map veto: MatchRoom!MaterializeCompetitiveMatch. *)
BecomeReady(r) ==
    /\ room[r] = "SETUP"
    /\ room'    = [room EXCEPT ![r] = "READY"]
    /\ readyAt' = [readyAt EXCEPT ![r] = Rank(readyAt)]
    /\ UNCHANGED <<reason, bindVars, commandVars, errored, ended, envVars>>

(* assignNextReadyForBridgeNode: the oldest READY room gets a free enabled   *)
(* server of the node, and a PREPARE_MATCH command for it.                   *)
AssignNextReady(n, s, r) ==
    /\ s \in enabled /\ NodeOf[s] = n
    /\ Free(s)
    /\ FirstReady(r)
    /\ ~Bound(r)
    /\ server'   = [server EXCEPT ![r] = s]
    /\ command'  = [command EXCEPT ![r] = "PENDING"]
    /\ issuedAt' = [issuedAt EXCEPT ![r] = Rank(issuedAt)]
    /\ room'     = [room EXCEPT ![r] = "PROVISIONING"]
    /\ UNCHANGED <<reason, readyAt, released, attempt, lease, result, answeredBy,
                   errored, ended, envVars>>

(* claimNextCommand: the node's oldest command that is PENDING or whose      *)
(* lease has run out is leased under a new token.                            *)
ClaimNextCommand(n, r) ==
    /\ r \in Claimable(n)
    /\ \A q \in Claimable(n) : issuedAt[r] <= issuedAt[q]
    /\ attempt[r] < MaxAttempts
    /\ command' = [command EXCEPT ![r] = "CLAIMED"]
    /\ attempt' = [attempt EXCEPT ![r] = @ + 1]
    /\ lease'   = [lease EXCEPT ![r] = "ACTIVE"]
    /\ UNCHANGED <<sagaVars, readyAt, bindVars, issuedAt, result, answeredBy,
                   errored, ended, envVars>>

(* The thirty seconds of a lease go by.  The bound on claims is that the     *)
(* bridge keeps its last lease until it answers.                             *)
ExpireLease(r) ==
    /\ lease[r] = "ACTIVE"
    /\ attempt[r] < MaxAttempts
    /\ lease' = [lease EXCEPT ![r] = "EXPIRED"]
    /\ UNCHANGED <<sagaVars, readyAt, bindVars, command, issuedAt, attempt, result,
                   answeredBy, errored, ended, envVars>>

-----------------------------------------------------------------------------
(* Mutant: the roster is looked at before the bridge's answer. *)
VerdictRosterFirst(r, outcome) ==
    CASE r \notin fit                              -> "roster_eligibility_lost"
      [] r \in fit /\ outcome = "FAILED"           -> "prepare_match_failed"
      [] r \in fit /\ outcome = "SUCCEEDED" /\ server[r] \notin enabled \cap launchable
                                                   -> "server_resource_unavailable"
      [] OTHER                                     -> "NULL"

(* What finalizePrepareMatchRoomOnConnection finds a PROVISIONING room fit   *)
(* for, in the order of its checks.                                          *)
Verdict(r, outcome) ==
    CASE outcome = "FAILED"                          -> "prepare_match_failed"
      [] outcome = "SUCCEEDED" /\ server[r] \notin enabled \cap launchable
                                                     -> "server_resource_unavailable"
      [] outcome = "SUCCEEDED" /\ server[r] \in enabled \cap launchable /\ r \notin fit
                                                     -> "roster_eligibility_lost"
      [] OTHER                                       -> "NULL"

Coherent(r, outcome) ==
    \/ room[r] = "JOINABLE" /\ outcome = "SUCCEEDED"
    \/ /\ room[r] = "FAILED"
       /\ outcome = "FAILED" <=> reason[r] = "prepare_match_failed"

(* It throws, and undoes the submission, unless this holds. *)
CanFinalize(r, outcome) ==
    /\ r \notin released
    /\ room[r] = "PROVISIONING" \/ Coherent(r, outcome)

(* A room that is already JOINABLE or FAILED is left as it is. *)
FinalizePrepareMatchRoom(r, outcome) ==
    \/ /\ room[r] = "PROVISIONING"
       /\ room'   = [room EXCEPT ![r] = IF Verdict(r, outcome) = "NULL" THEN "JOINABLE" ELSE "FAILED"]
       /\ reason' = [reason EXCEPT ![r] = Verdict(r, outcome)]
    \/ /\ room[r] # "PROVISIONING"
       /\ UNCHANGED sagaVars

(* The first result within the lease is recorded and finalizes the room. *)
RecordResult(r, token, outcome, body) ==
    /\ command[r] = "CLAIMED"
    /\ token = attempt[r]
    /\ lease[r] = "ACTIVE"
    /\ CanFinalize(r, outcome)
    /\ command'    = [command EXCEPT ![r] = outcome]
    /\ result'     = [result EXCEPT ![r] = body]
    /\ answeredBy' = [answeredBy EXCEPT ![r] = token]
    /\ FinalizePrepareMatchRoom(r, outcome)
    /\ UNCHANGED <<readyAt, bindVars, issuedAt, attempt, lease, errored, ended, envVars>>

ExactReplay(r, token, outcome, body) ==
    command[r] = outcome /\ result[r] = body /\ attempt[r] = token

(* An exact replay of a terminal result heals or checks the room; when the   *)
(* finalization throws the bridge gets an error.                             *)
ReplayResult(r, token, outcome, body) ==
    /\ ExactReplay(r, token, outcome, body)
    /\ \/ /\ CanFinalize(r, outcome)
          /\ FinalizePrepareMatchRoom(r, outcome)
          /\ UNCHANGED errored
       \/ /\ ~CanFinalize(r, outcome)
          /\ errored' = errored \cup {r}
          /\ UNCHANGED sagaVars
    /\ UNCHANGED <<readyAt, bindVars, commandVars, ended, envVars>>

(* Any other submission is refused without an effect: a result that differs  *)
(* from the recorded one, a stale token, a lease that ran out, a command     *)
(* nobody claimed.                                                           *)
SubmitCommandResult(r, token, outcome, body) ==
    \/ RecordResult(r, token, outcome, body)
    \/ ReplayResult(r, token, outcome, body)

-----------------------------------------------------------------------------
(* Mutant: the completed room keeps its server. *)
SeriesEndKeepsServer(s, r) ==
    /\ server[r] = s
    /\ room[r] \in {"JOINABLE", "COMPLETED"}
    /\ room'  = [room EXCEPT ![r] = "COMPLETED"]
    /\ ended' = ended \cup {<<s, r>>}
    /\ UNCHANGED <<reason, readyAt, bindVars, commandVars, errored, envVars>>

(* Mutant: a room that FAILED is completed as well. *)
SeriesEndAnyStatus(s, r) ==
    /\ server[r] = s
    /\ room[r] \in {"JOINABLE", "FAILED", "COMPLETED"}
    /\ room'     = [room EXCEPT ![r] = "COMPLETED"]
    /\ released' = released \cup {r}
    /\ ended'    = ended \cup {<<s, r>>}
    /\ UNCHANGED <<reason, readyAt, server, commandVars, errored, envVars>>

(* saveAndProjectSeriesEnd for runtime match r from the edge of server s.    *)
(* The event is stored and projected in one transaction: when the room is    *)
(* not JOINABLE or COMPLETED, or the source is not its server's, nothing is  *)
(* kept and the edge has to send the event again.                            *)
SeriesEnd(s, r) ==
    /\ server[r] = s
    /\ \/ /\ room[r] = "COMPLETED"
          /\ UNCHANGED <<sagaVars, released>>
       \/ /\ room[r] = "JOINABLE"
          /\ r \notin released
          /\ room'     = [room EXCEPT ![r] = "COMPLETED"]
          /\ released' = released \cup {r}
          /\ UNCHANGED reason
    /\ ended' = ended \cup {<<s, r>>}
    /\ UNCHANGED <<readyAt, server, commandVars, errored, envVars>>

-----------------------------------------------------------------------------
(* Operators change match_server_resources; accounts and memberships change. *)
ChangeServer(s) ==
    /\ s \in Volatile
    /\ \/ /\ enabled' = IF s \in enabled THEN enabled \ {s} ELSE enabled \cup {s}
          /\ UNCHANGED launchable
       \/ /\ launchable' = IF s \in launchable THEN launchable \ {s} ELSE launchable \cup {s}
          /\ UNCHANGED enabled
    /\ UNCHANGED <<sagaVars, readyAt, bindVars, commandVars, errored, ended, fit>>

ChangeRoster(r) ==
    /\ r \in Volatile
    /\ fit' = IF r \in fit THEN fit \ {r} ELSE fit \cup {r}
    /\ UNCHANGED <<sagaVars, readyAt, bindVars, commandVars, errored, ended, enabled, launchable>>

Next ==
    \/ \E r \in Rooms :
          \/ BecomeReady(r)
          \/ ExpireLease(r)
          \/ \E token \in 1..attempt[r], outcome \in Outcomes, body \in Bodies :
                SubmitCommandResult(r, token, outcome, body)
          \/ \E n \in Nodes :
                \/ \E s \in Servers : AssignNextReady(n, s, r)
                \/ ClaimNextCommand(n, r)
          \/ \E s \in Servers : SeriesEnd(s, r)
          \/ ChangeRoster(r)
    \/ \E s \in Servers : ChangeServer(s)

Spec == Init /\ [][Next]_vars

-----------------------------------------------------------------------------
(* Two matches never share a server: not while one is being prepared, played *)
(* or has failed, with any number of nodes polling at once (active_server_key *)
(* is unique; the allocator locks the resource rows before it looks).        *)
ServerExclusive ==
    \A r, q \in Rooms : \A s \in Servers : Holds(r, s) /\ Holds(q, s) => r = q

(* The room and its assignment: a server is held exactly from PROVISIONING   *)
(* until the room is COMPLETED, which is also when it is freed.              *)
AssignmentFollowsRoom ==
    \A r \in Rooms :
        /\ Bound(r) <=> room[r] \in {"PROVISIONING", "JOINABLE", "FAILED", "COMPLETED"}
        /\ r \in released <=> room[r] = "COMPLETED"

(* The room and its command: only a room whose preparation SUCCEEDED is ever *)
(* JOINABLE, prepare_match_failed means the bridge said so, and any other    *)
(* failure means it did not.  A new room never waits in PROVISIONING for a   *)
(* command that has its result.                                              *)
CommandFollowsRoom ==
    \A r \in Rooms :
        /\ room[r] \in {"SETUP", "READY"} <=> command[r] = "NONE"
        /\ room[r] = "PROVISIONING" => r \in LegacyRooms \/ ~Terminal(r)
        /\ room[r] \in {"JOINABLE", "COMPLETED"} => command[r] = "SUCCEEDED" /\ reason[r] = "NULL"
        /\ room[r] = "FAILED" =>
              /\ Terminal(r) /\ reason[r] # "NULL"
              /\ command[r] = "FAILED" <=> reason[r] = "prepare_match_failed"

(* Room, assignment, command and reason agree between any two transactions   *)
(* of the allocator, the bridge and the edge.                                *)
SagaCoherent == AssignmentFollowsRoom /\ CommandFollowsRoom

(* A bridge that lost its lease to a later claim never decides the outcome:  *)
(* the recorded result came with the token of the last claim.                *)
LeaseHolderAnswers ==
    \A r \in Rooms : Terminal(r) => answeredBy[r] = attempt[r]

(* Rooms are served in the order in which they became READY, across all      *)
(* nodes and servers: none gets its command before one that was READY first. *)
FifoService ==
    \A r, q \in Rooms \ LegacyRooms :
        readyAt[r] # 0 /\ readyAt[r] < readyAt[q] /\ issuedAt[q] # 0 =>
            issuedAt[r] # 0 /\ issuedAt[r] < issuedAt[q]

(* A series_end event is kept only together with its effect: the room it     *)
(* names is COMPLETED and was played on the server of that edge.  An event   *)
(* that came too early, or from another edge, has left no trace that would   *)
(* make its retry a duplicate.                                               *)
StoredEndIsProjected ==
    \A s \in Servers, r \in Rooms : <<s, r>> \in ended => room[r] = "COMPLETED" /\ server[r] = s

(* Whatever the bridge sends later, a recorded result is never replaced, and *)
(* a decided room keeps its decision: JOINABLE only completes, FAILED and    *)
(* COMPLETED are final.                                                      *)
ResultStands ==
    [][\A r \in Rooms :
          /\ Terminal(r) => /\ command'[r] = command[r]
                            /\ result'[r] = result[r]
                            /\ answeredBy'[r] = answeredBy[r]
          /\ room[r] = "JOINABLE" => room'[r] \in {"JOINABLE", "COMPLETED"}
          /\ room[r] \in {"FAILED", "COMPLETED"} => room'[r] = room[r] /\ reason'[r] = reason[r]]_vars

-----------------------------------------------------------------------------
(* The bridge keeps polling (claim, assign, claim) and answers some claim    *)
(* within its lease; the edge repeats series_end until it is accepted.       *)
Fairness ==
    /\ \A n \in Nodes : WF_vars(\E s \in Servers, r \in Rooms : AssignNextReady(n, s, r))
    /\ \A n \in Nodes : WF_vars(\E r \in Rooms : ClaimNextCommand(n, r))
    /\ \A r \in Rooms : WF_vars(ExpireLease(r))
    /\ \A r \in Rooms : SF_vars(\E body \in Bodies, outcome \in Outcomes :
                                   RecordResult(r, attempt[r], outcome, body))
    /\ \A r \in Rooms : WF_vars(\E s \in Servers : SeriesEnd(s, r))

(* A room given to a server is decided, however many leases were lost.       *)
ProvisioningResolves ==
    \A r \in Rooms \ LegacyRooms : room[r] = "PROVISIONING" ~> room[r] \in {"JOINABLE", "FAILED"}

(* A READY room gets its server as long as no room fails and servers stay    *)
(* enabled: matches end and free theirs.  A FAILED room holds its server for *)
(* good, so without this condition the promise does not hold.                *)
ReadyServed ==
    [](/\ \A r \in Rooms : room[r] # "FAILED"
       /\ enabled = Servers) =>
        \A r \in Rooms : room[r] = "READY" ~> room[r] # "READY"

-----------------------------------------------------------------------------
(* "terminal idempotente" (README.md:140) and "Valid exact replay: continue  *)
(* into MatchRoom finalization to heal PROVISIONING or check coherence"      *)
(* (match-bridge.repository.ts:356): an exact replay is accepted.            *)
ExactReplayAccepted ==
    \A r \in Rooms : r \notin errored

=============================================================================
