\* Two administrators, who may never rest, and the timer; two seasons, five
\* instants: two ranges fit without touching, and time goes on after them.
SPECIFICATION FairSpec
CONSTANTS
    Slugs = {s1, s2}
    Admins = {a1, a2}
    Timers = {t1}
    MaxTime = 4
    NULL = NULL
INVARIANTS
    DisjointRanges
    DecisionsStand
PROPERTIES
    ImplementsCalendar
    ExpiredCloses
