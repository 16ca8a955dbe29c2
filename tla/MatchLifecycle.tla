--------------------------- MODULE MatchLifecycle ---------------------------
(***************************************************************************)
(* What the match domain promises, without rounds, windows, drafts, vetos  *)
(* or servers: players gather in a room, the full roster is locked, a      *)
(* line-up of that roster is fixed once, the match is played, everybody is *)
(* let go.  MatchRoom implements it (MatchRoom!Lifecycle).                 *)
(***************************************************************************)
EXTENDS Naturals, FiniteSets

CONSTANTS Players, Rooms, Capacity, NoLineup

VARIABLES
    phase,    \* "UNUSED", "GATHERING", "LOCKED", "LIVE" or "OVER"
    members,  \* who sits in each room
    lineup    \* the teams of the room's match, NoLineup before it is made

vars == <<phase, members, lineup>>

Free(p) == \A r \in Rooms : p \notin members[r]

(* A line-up splits exactly the locked roster into two teams of equal size. *)
Lineups(roster) ==
    {[s \in {"A", "B"} |-> IF s = "A" THEN teamA ELSE roster \ teamA] :
        teamA \in {T \in SUBSET roster : 2 * Cardinality(T) = Capacity}}

Init ==
    /\ phase   = [r \in Rooms |-> "UNUSED"]
    /\ members = [r \in Rooms |-> {}]
    /\ lineup  = [r \in Rooms |-> NoLineup]

Open(r, p) ==
    /\ phase[r] = "UNUSED"
    /\ Free(p)
    /\ phase'   = [phase EXCEPT ![r] = "GATHERING"]
    /\ members' = [members EXCEPT ![r] = {p}]
    /\ UNCHANGED lineup

Enter(r, p) ==
    /\ phase[r] = "GATHERING"
    /\ Free(p)
    /\ Cardinality(members[r]) < Capacity
    /\ members' = [members EXCEPT ![r] = @ \cup {p}]
    /\ UNCHANGED <<phase, lineup>>

(* Some players leave or are put out; a room that goes on is never empty. *)
Depart(r) ==
    /\ phase[r] = "GATHERING"
    /\ \E stay \in (SUBSET members[r]) \ {{}} : members' = [members EXCEPT ![r] = stay]
    /\ UNCHANGED <<phase, lineup>>

Lock(r) ==
    /\ phase[r] = "GATHERING"
    /\ Cardinality(members[r]) = Capacity
    /\ phase' = [phase EXCEPT ![r] = "LOCKED"]
    /\ UNCHANGED <<members, lineup>>

GoLive(r) ==
    /\ phase[r] = "LOCKED"
    /\ \E teams \in Lineups(members[r]) : lineup' = [lineup EXCEPT ![r] = teams]
    /\ phase' = [phase EXCEPT ![r] = "LIVE"]
    /\ UNCHANGED members

(* The room is given up before its match exists, or the match is over. *)
Dissolve(r) ==
    /\ phase[r] \in {"GATHERING", "LOCKED", "LIVE"}
    /\ phase'   = [phase EXCEPT ![r] = "OVER"]
    /\ members' = [members EXCEPT ![r] = {}]
    /\ UNCHANGED lineup

Next ==
    \E r \in Rooms :
        \/ \E p \in Players : Open(r, p) \/ Enter(r, p)
        \/ Depart(r)
        \/ Lock(r)
        \/ GoLive(r)
        \/ Dissolve(r)

Spec == Init /\ [][Next]_vars

=============================================================================
