---------------------------- MODULE MCMatchServer ----------------------------
(***************************************************************************)
(* Instances of MatchServer for TLC.                                       *)
(***************************************************************************)
EXTENDS MatchServer, TLC

CONSTANTS s1, s2, n1, n2

(* One server behind each of two bridge nodes. *)
TwoNodes == (s1 :> n1) @@ (s2 :> n2)

=============================================================================
