--------------------------- MODULE MCServerAccess ---------------------------
(***************************************************************************)
(* An instance of ServerAccess for TLC.                                    *)
(***************************************************************************)
EXTENDS ServerAccess, TLC

CONSTANTS s1, s2, n1, n2, r1, r2, r3, ana, bia

(* One server behind each of two bridge nodes; ana's second match is r1. *)
TwoNodes == (s1 :> n1) @@ (s2 :> n2)
Rosters  == (r1 :> {ana}) @@ (r2 :> {bia}) @@ (r3 :> {ana})

=============================================================================
