---------------------------- MODULE MatchIngress ----------------------------
(***************************************************************************)
(* Match events sent by the edges, stored under an idempotency key (source *)
(* and edge event id) and, for a series_end, projected onto the room of    *)
(* the match it names.  The edge repeats an event until it is accepted, so *)
(* several requests with one key overlap, and a request is several         *)
(* statements: look the key up, insert, look again when the insert was a   *)
(* duplicate, project, commit, answer.  For a series_end all but the       *)
(* answer are one transaction, whose uncommitted row makes the other       *)
(* inserts of the key wait; any other event is inserted on a connection of *)
(* its own.  A request that is cut off after its commit has stored what    *)
(* nobody was told.                                                        *)
(*                                                                         *)
(* MatchServer has the room's side of the projection in full.              *)
(***************************************************************************)
EXTENDS Naturals, FiniteSets

CONSTANTS
    Requests,     \* requests that can be in flight at a time
    Sources,      \* match_edge_source_key of the edges
    EventIds,     \* edge event ids
    Rooms,        \* rooms of the matches, which stand for runtime match ids
    EdgeOf,       \* edge of the server each room is assigned to
    Messages,     \* what the edges send: source, id, event name, room, text
    MaxCrashes,   \* bound on the requests that are cut off
    NoRoom,       \* an event that names no match
    Nothing       \* no row, no request, no message

ASSUME BoundsAssumption == MaxCrashes \in Nat
ASSUME EdgeAssumption == EdgeOf \in [Rooms -> Sources] /\ NoRoom \notin Rooms
ASSUME NothingAssumption == Nothing \notin Messages \cup Requests
ASSUME MessagesAssumption ==
    Messages \subseteq [source : Sources, id : EventIds, name : {"series_end", "round_end"},
                        room : Rooms \cup {NoRoom}, text : STRING]

VARIABLES
    row,          \* the committed match_ingress_events row of a key
    inserting,    \* the request whose uncommitted row holds a key
    phase,        \* how far a request has got
    message,      \* what it carries
    room,         \* match_rooms.status
    accepted,     \* answers "not a duplicate" given for a key (history)
    answered,     \* messages the edge was told are kept (history)
    unheard,      \* keys of rows whose "not a duplicate" was lost (history)
    crashes       \* requests cut off so far

histVars == <<accepted, answered, unheard>>
vars     == <<row, inserting, phase, message, room, histVars, crashes>>

Keys    == Sources \X EventIds
Key(m)  == <<m.source, m.id>>

(* STORED and REPEATED: committed, with the answer still to be given. *)
Phases  == {"IDLE", "RECEIVED", "MISSING", "INSERTED", "DUPLICATE", "STORED", "REPEATED"}

TypeOK ==
    /\ row       \in [Keys -> Messages \cup {Nothing}]
    /\ inserting \in [Keys -> Requests \cup {Nothing}]
    /\ phase     \in [Requests -> Phases]
    /\ message   \in [Requests -> Messages \cup {Nothing}]
    /\ room      \in [Rooms -> {"PROVISIONING", "JOINABLE", "FAILED", "COMPLETED"}]
    /\ accepted  \in [Keys -> Nat]
    /\ answered  \subseteq Messages
    /\ unheard   \subseteq Keys
    /\ crashes   \in 0..MaxCrashes

Init ==
    /\ row       = [k \in Keys |-> Nothing]
    /\ inserting = [k \in Keys |-> Nothing]
    /\ phase     = [q \in Requests |-> "IDLE"]
    /\ message   = [q \in Requests |-> Nothing]
    /\ room      = [r \in Rooms |-> "PROVISIONING"]
    /\ accepted  = [k \in Keys |-> 0]
    /\ answered  = {}
    /\ unheard   = {}
    /\ crashes   = 0

-----------------------------------------------------------------------------
(* validateParsedPayload: a series_end names its match. *)
WellFormed(m) == m.name = "series_end" => m.room # NoRoom

(* ingestEvent: a malformed request is refused before anything is read. *)
Receive(q, m) ==
    /\ phase[q] = "IDLE"
    /\ WellFormed(m)
    /\ phase'   = [phase EXCEPT ![q] = "RECEIVED"]
    /\ message' = [message EXCEPT ![q] = m]
    /\ UNCHANGED <<row, inserting, room, histVars, crashes>>

(* Mutant: the transaction of a refused request is left open. *)
FinishUnended(q) ==
    /\ phase'     = [phase EXCEPT ![q] = "IDLE"]
    /\ message'   = [message EXCEPT ![q] = Nothing]
    /\ UNCHANGED inserting

(* The transaction is over; its uncommitted row is committed or gone. *)
Release(q) == inserting' = [k \in Keys |-> IF inserting[k] = q THEN Nothing ELSE inserting[k]]

(* The request is over. *)
Finish(q) ==
    /\ phase'   = [phase EXCEPT ![q] = "IDLE"]
    /\ message' = [message EXCEPT ![q] = Nothing]
    /\ Release(q)

Refuse(q) == Finish(q) /\ UNCHANGED <<row, room, histVars>>

(* The request goes on to its next statement. *)
Continue(q, next) ==
    /\ phase' = [phase EXCEPT ![q] = next]
    /\ UNCHANGED <<message, histVars>>

(* { accepted: true, duplicate } *)
Answer(q) ==
    /\ phase[q] \in {"STORED", "REPEATED"}
    /\ Finish(q)
    /\ answered' = answered \cup {message[q]}
    /\ accepted' = IF phase[q] = "REPEATED" THEN accepted
                   ELSE [accepted EXCEPT ![Key(message[q])] = @ + 1]
    /\ UNCHANGED <<row, room, unheard>>

(* Mutant: the key alone makes it a duplicate. *)
FieldsNotCompared(m, stored) == Key(m) = Key(stored)

areFieldsIdentical(m, stored) == m = stored

(* A row was found under the key: the same event is a duplicate, which a     *)
(* series_end still projects; another event is an idempotency_conflict.      *)
Found(q) ==
    LET m == message[q] IN
    \/ /\ ~areFieldsIdentical(m, row[Key(m)])
       /\ Refuse(q)
    \/ /\ areFieldsIdentical(m, row[Key(m)])
       /\ Continue(q, IF m.name = "series_end" THEN "DUPLICATE" ELSE "REPEATED")
       /\ UNCHANGED <<row, inserting, room>>

(* findBySourceAndEdgeEventId, a plain read. *)
LookUp(q) ==
    /\ phase[q] = "RECEIVED"
    /\ \/ row[Key(message[q])] # Nothing /\ Found(q)
       \/ /\ row[Key(message[q])] = Nothing
          /\ Continue(q, "MISSING")
          /\ UNCHANGED <<row, inserting, room>>

(* Mutant: a row that appeared meanwhile is not noticed (INSERT IGNORE). *)
InsertIgnore(q) ==
    LET m == message[q] IN
    /\ phase[q] = "MISSING"
    /\ inserting[Key(m)] = Nothing
    /\ \/ /\ m.name = "series_end"
          /\ Continue(q, "INSERTED")
          /\ inserting' = [inserting EXCEPT ![Key(m)] = q]
          /\ UNCHANGED <<row, room>>
       \/ /\ m.name # "series_end"
          /\ Continue(q, "STORED")
          /\ row' = [row EXCEPT ![Key(m)] = IF @ = Nothing THEN m ELSE @]
          /\ UNCHANGED <<inserting, room>>

(* INSERT waits for an uncommitted row of its key.  ER_DUP_ENTRY: the row is *)
(* fetched again, which now sees it.  An event that is not a series_end is   *)
(* committed at once.                                                        *)
Insert(q) ==
    LET m == message[q] IN
    /\ phase[q] = "MISSING"
    /\ inserting[Key(m)] = Nothing
    /\ \/ row[Key(m)] # Nothing /\ Found(q)
       \/ /\ row[Key(m)] = Nothing
          /\ m.name = "series_end"
          /\ Continue(q, "INSERTED")
          /\ inserting' = [inserting EXCEPT ![Key(m)] = q]
          /\ UNCHANGED <<row, room>>
       \/ /\ row[Key(m)] = Nothing
          /\ m.name # "series_end"
          /\ Continue(q, "STORED")
          /\ row' = [row EXCEPT ![Key(m)] = m]
          /\ UNCHANGED <<inserting, room>>

CanProject(m) ==
    /\ EdgeOf[m.room] = m.source
    /\ room[m.room] \in {"JOINABLE", "COMPLETED"}

(* saveAndProjectSeriesEnd after the row: the room is locked, completed      *)
(* unless it already is, and everything commits; or nothing is kept.         *)
Project(q) ==
    LET m == message[q] IN
    /\ phase[q] \in {"INSERTED", "DUPLICATE"}
    /\ \/ ~CanProject(m) /\ Refuse(q)
       \/ /\ CanProject(m)
          /\ room' = [room EXCEPT ![m.room] = IF @ = "JOINABLE" THEN "COMPLETED" ELSE @]
          /\ row'  = [row EXCEPT ![Key(m)] = m]
          /\ Continue(q, IF phase[q] = "DUPLICATE" THEN "REPEATED" ELSE "STORED")
          /\ Release(q)

(* The process or a connection dies: what was not committed is undone, what  *)
(* was committed stays, and whoever sent the request hears nothing of it.    *)
Crash(q) ==
    /\ phase[q] # "IDLE"
    /\ crashes < MaxCrashes
    /\ crashes' = crashes + 1
    /\ Finish(q)
    /\ unheard' = unheard \cup (IF phase[q] = "STORED" THEN {Key(message[q])} ELSE {})
    /\ UNCHANGED <<row, room, accepted, answered>>

(* The bridge's answer arrives: MatchServer!FinalizePrepareMatchRoom. *)
FinalizePrepareMatchRoom(r) ==
    /\ room[r] = "PROVISIONING"
    /\ \E outcome \in {"JOINABLE", "FAILED"} : room' = [room EXCEPT ![r] = outcome]
    /\ UNCHANGED <<row, inserting, phase, message, histVars, crashes>>

Step(q) == (LookUp(q) \/ Insert(q) \/ Project(q) \/ Answer(q)) /\ UNCHANGED crashes

Next ==
    \/ \E q \in Requests : Step(q) \/ Crash(q) \/ \E m \in Messages : Receive(q, m)
    \/ \E r \in Rooms : FinalizePrepareMatchRoom(r)

(* The database answers, and the edge sends what it has again and again.     *)
Spec ==
    /\ Init /\ [][Next]_vars
    /\ \A q \in Requests : WF_vars(Step(q))
    /\ \A m \in Messages : SF_vars(\E q \in Requests : Receive(q, m))

-----------------------------------------------------------------------------
(* Whatever the edge was told is kept stays kept, unchanged, and a series_end *)
(* it was told is kept has completed its room: a request that looked before a *)
(* row was there and inserts after it, one that was rolled back and repeated, *)
(* and a second event under the same key leave the acknowledged one alone.    *)
AcknowledgedIsKept ==
    \A m \in answered :
        /\ row[Key(m)] = m
        /\ m.name = "series_end" => room[m.room] = "COMPLETED" /\ EdgeOf[m.room] = m.source

(* Of all the requests with one key, overlapping, repeated or cut off, at     *)
(* most one is answered "not a duplicate", and then its row is there.  None   *)
(* is, although there is a row, only while the request that stored it has its *)
(* answer still to give, or if it was cut off between its commit and its      *)
(* answer; after that none ever will be, whatever the edge repeats.           *)
AcceptedOnce ==
    \A k \in Keys :
        /\ accepted[k] <= 1
        /\ accepted[k] = 1 => row[k] # Nothing /\ k \notin unheard
        /\ row[k] # Nothing /\ accepted[k] = 0 =>
              \/ k \in unheard
              \/ \E q \in Requests : phase[q] = "STORED" /\ Key(message[q]) = k

SeriesEnds ==
    {m \in Messages : m.name = "series_end" /\ m.room # NoRoom /\ EdgeOf[m.room] = m.source}

(* A room whose match is over is completed although its series_end came too   *)
(* early at first or was cut off, as long as the edge sends it again and      *)
(* never reuses its key.                                                      *)
EndArrives ==
    \A m \in SeriesEnds :
        [](row[Key(m)] \in {Nothing, m}) =>
            (room[m.room] = "JOINABLE" ~> room[m.room] = "COMPLETED")

=============================================================================
