-------------------------- MODULE MembershipLedger --------------------------
(***************************************************************************)
(* What a membership is to the rest of the system: a standing that moves   *)
(* along a few edges, one audited change at a time, until it ends for      *)
(* good, by decision or because its time is up.                            *)
(***************************************************************************)
EXTENDS Naturals

CONSTANT Players

VARIABLES
    standing,     \* what a player's membership is worth now
    entries       \* changes on record

Moves == {<<"NONE", "ACTIVE">>, <<"INACTIVE", "ACTIVE">>, <<"ACTIVE", "SUSPENDED">>,
          <<"SUSPENDED", "ACTIVE">>, <<"ACTIVE", "ENDED">>, <<"SUSPENDED", "ENDED">>}

Init ==
    /\ standing \in [Players -> {"NONE", "INACTIVE"}]
    /\ entries = [p \in Players |-> 0]

Change(p, to) ==
    /\ <<standing[p], to>> \in Moves
    /\ standing' = [standing EXCEPT ![p] = to]
    /\ entries'  = [entries EXCEPT ![p] = @ + 1]

TimeUp(p) ==
    /\ standing[p] \notin {"NONE", "ENDED"}
    /\ standing' = [standing EXCEPT ![p] = "ENDED"]
    /\ UNCHANGED entries

Next ==
    \E p \in Players : TimeUp(p) \/ \E to \in {"ACTIVE", "SUSPENDED", "ENDED"} : Change(p, to)

Spec == Init /\ [][Next]_<<standing, entries>>

=============================================================================
