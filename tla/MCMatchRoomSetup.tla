-------------------------- MODULE MCMatchRoomSetup --------------------------
(***************************************************************************)
(* An instance of MatchRoomLegacy for TLC.                                 *)
(***************************************************************************)
EXTENDS MatchRoomLegacy

(* Only the volatile players are told apart from the others: they come first *)
(* (and are captains) or last.                                               *)
FirstOrLast == {CHOOSE t \in Turns : \A p \in Volatile : t[p] = k : k \in {1, Capacity}}

=============================================================================
