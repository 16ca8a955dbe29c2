-------------------------- MODULE MCPlayerIdentity --------------------------
(***************************************************************************)
(* Instances of PlayerIdentity for TLC.                                    *)
(***************************************************************************)
EXTENDS PlayerIdentity, TLC

(* No identifier is told apart from another of its kind. *)
Symmetry == Permutations(Accounts) \cup Permutations(Emails) \cup Permutations(SteamIds)
                \cup Permutations(Tokens) \cup Permutations(Sessions)

=============================================================================
