---------------------------- MODULE SeasonCalendar ----------------------------
(***************************************************************************)
(* What the seasons promise, without administrators, timers, locks or      *)
(* rows: a calendar of ranges that never touch, at most one season that    *)
(* runs, opened no earlier than it begins, and a past that stays as it is. *)
(* Seasons implements it (Seasons!Calendar).                               *)
(***************************************************************************)
EXTENDS Integers

CONSTANTS Seasons, Times, NoRange, NoSeason

VARIABLES
    plan,     \* the range of each season, NoRange before it is scheduled
    current,  \* the season that runs, or NoSeason
    past,     \* the seasons that are over
    clock

vars == <<plan, current, past, clock>>

Ranges == {r \in [start : Times, end : Times] : r.start < r.end}

(* Ranges include both ends. *)
Apart(r, q) == r.end < q.start \/ q.end < r.start

Init ==
    /\ plan    = [s \in Seasons |-> NoRange]
    /\ current = NoSeason
    /\ past    = {}
    /\ clock \in Times

Schedule(s, r) ==
    /\ s \notin past
    /\ \A t \in Seasons \ {s} : plan[t] # NoRange => Apart(plan[t], r)
    /\ plan' = [plan EXCEPT ![s] = r]
    /\ UNCHANGED <<current, past, clock>>

Open(s) ==
    /\ current = NoSeason
    /\ s \notin past
    /\ plan[s] # NoRange
    /\ plan[s].start <= clock
    /\ current' = s
    /\ UNCHANGED <<plan, past, clock>>

Close(s) ==
    /\ current = s
    /\ current' = NoSeason
    /\ past'    = past \cup {s}
    /\ UNCHANGED <<plan, clock>>

Tick ==
    /\ clock' \in {t \in Times : clock < t}
    /\ UNCHANGED <<plan, current, past>>

Next ==
    \/ \E s \in Seasons : Open(s) \/ Close(s) \/ \E r \in Ranges : Schedule(s, r)
    \/ Tick

Spec == Init /\ [][Next]_vars

=============================================================================
