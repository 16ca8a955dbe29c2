------------------------- MODULE MCPlayerAnalytics -------------------------
(***************************************************************************)
(* Instances of PlayerAnalytics for TLC: generations whose manifests are   *)
(* older and newer, the first with several archives, one as old as the     *)
(* second generation's.                                                    *)
(***************************************************************************)
EXTENDS PlayerAnalytics, TLC

CONSTANTS g1, g2, g3, p1, p2, p3, q1, x1

GenerationOf == [p \in Packages |-> CASE p = p2 -> g2 [] p = p3 -> g3 [] OTHER -> g1]
GeneratedAt  == [p \in Packages |-> CASE p = p2 -> 2 [] p = p3 -> 3 [] p = q1 -> 2 [] OTHER -> 1]
IdOrder      == [g \in Generations |-> CASE g = g2 -> 2 [] g = g3 -> 3 [] OTHER -> 1]

(* Requests do the same, and so do workers. *)
Symmetry == Permutations(Uploads) \cup Permutations(Workers)

=============================================================================
