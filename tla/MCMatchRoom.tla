----------------------------- MODULE MCMatchRoom -----------------------------
(***************************************************************************)
(* Instances of MatchRoom for TLC.                                         *)
(***************************************************************************)
EXTENDS MatchRoom, TLC

(* Nobody's standing changes here, so players are interchangeable, and rooms. *)
Symmetry == Permutations(Players) \cup Permutations(Rooms)

=============================================================================
