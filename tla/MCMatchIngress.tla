--------------------------- MODULE MCMatchIngress ---------------------------
(***************************************************************************)
(* An instance of MatchIngress for TLC: two edges, a room on one of them.  *)
(***************************************************************************)
EXTENDS MatchIngress, TLC

CONSTANTS e1, e2, i1, r1

OnFirstEdge == r1 :> e1

Event(source, name, r, text) ==
    [source |-> source, id |-> i1, name |-> name, room |-> r, text |-> text]

(* The end of r1, once more under the same key with another text, from the   *)
(* wrong edge, and an ordinary event; a series_end without a match.          *)
Sent == {Event(e1, "series_end", r1, "2:1"), Event(e1, "series_end", r1, "2:0"),
         Event(e2, "series_end", r1, "2:1"), Event(e2, "round_end", NoRoom, "1:0"),
         Event(e2, "series_end", NoRoom, "2:1")}

=============================================================================
