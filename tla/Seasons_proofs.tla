---------------------------- MODULE Seasons_proofs ----------------------------
(***************************************************************************)
(* Theorems about Seasons, for any seasons, workers and bound on time.     *)
(***************************************************************************)
EXTENDS Seasons, TLAPS

-----------------------------------------------------------------------------
(* A worker that is not idle holds the lock, so there is at most one, and    *)
(* one that has decided knows what it was asked.                             *)
Holder ==
    \A w \in Workers :
        /\ pc[w] # "IDLE" => lock = w
        /\ pc[w] = "DECIDED" => request[w] \in Requests

(* A season that exists has a range.                                         *)
Dated ==
    \A s \in Slugs : Exists(s) =>
        startAt[s] \in Times /\ endAt[s] \in Times /\ startAt[s] < endAt[s]

(* What the timer closed is closed for good and has ended.                   *)
ClosedByTimer ==
    \A s \in Slugs : closedBy[s] = "system" =>
        status[s] = "closed" /\ endAt[s] \in Times /\ endAt[s] <= clock

IInv ==
    /\ TypeOK /\ Holder /\ Dated
    /\ DecisionsStand
    /\ OneActive /\ DisjointRanges /\ ClosedByTimer

(* What is known of a request by its kind.                                   *)
LEMMA RequestKinds ==
    ASSUME NEW q \in Requests
    PROVE  /\ q.slug \in Slugs
           /\ q.from \in Times \cup {NULL}
           /\ q.to \in Times \cup {NULL}
           /\ q.op \in {"create", "patch", "activate", "close", "reconcile"}
           /\ q.op = "create" => q.from \in Times /\ q.to \in Times /\ q.from < q.to
BY DEF Requests, AdminRequests, Creations, Patches, Switches, Reconciliations

LEMMA RequestSets ==
    /\ AdminRequests \subseteq Requests /\ Reconciliations \subseteq Requests
    /\ \A q \in Creations : q \in Requests /\ q.op = "create"
    /\ \A q \in Patches : q \in Requests /\ q.op = "patch"
    /\ \A q \in Switches : q \in Requests /\ q.op \in {"activate", "close"}
    /\ \A q \in Reconciliations : q \in Requests /\ q.op = "reconcile"
BY DEF Requests, AdminRequests, Creations, Patches, Switches, Reconciliations

LEMMA InitInv == Init => IInv
<1> SUFFICES ASSUME Init PROVE IInv
    OBVIOUS
<1>1. TypeOK
    BY TimeAssumption DEF Init, TypeOK, Times
<1>2. QED
    BY <1>1 DEF Init, IInv, Holder, Dated, DecisionsStand, OneActive, DisjointRanges,
                ClosedByTimer, Exists

-----------------------------------------------------------------------------
(* Two workers that are not idle are one.                                    *)
LEMMA Alone ==
    ASSUME IInv, NEW w \in Workers, NEW v \in Workers, pc[w] # "IDLE", pc[v] # "IDLE"
    PROVE  v = w
BY DEF IInv, Holder

(* Steps that leave the rows and the clock alone keep what is said of them.  *)
LEMMA RowsKept ==
    ASSUME IInv, UNCHANGED <<rows, clock>>
    PROVE  /\ Dated' /\ OneActive' /\ DisjointRanges' /\ ClosedByTimer'
           /\ \A q : FinalStart(q)' = FinalStart(q) /\ FinalEnd(q)' = FinalEnd(q)
           /\ \A a, b : Overlapping(a, b)' = Overlapping(a, b)
           /\ Active' = Active
BY DEF IInv, rows, Dated, OneActive, DisjointRanges, ClosedByTimer, Exists, FinalStart,
       FinalEnd, Overlapping, Active

(* Taking the lock, giving up, releasing and crashing: nobody is left that   *)
(* has decided.                                                              *)
LEMMA LockSteps ==
    ASSUME IInv, NEW w \in Workers,
           AdminLocks(w) \/ TimerLocks(w) \/ GiveUp(w) \/ Release(w) \/ Crash(w)
    PROVE  IInv'
<1>1. UNCHANGED <<rows, clock>>
    BY DEF AdminLocks, TimerLocks, GiveUp, Release, Crash
<1>2. TypeOK'
    <2>1. AdminRequests \subseteq Requests
        BY RequestSets
    <2>2. w \in Workers \cup {NULL} /\ lock' \in {w, NULL, lock}
        BY DEF AdminLocks, TimerLocks, GetLock, GiveUp, Release, Crash
    <2>3. \E l \in {"LOCKED", "DONE", "IDLE"} : pc' = [pc EXCEPT ![w] = l]
        BY DEF AdminLocks, TimerLocks, GetLock, GiveUp, Release, Crash
    <2>4. request' = request \/ \E q \in Requests \cup {NULL} : request' = [request EXCEPT ![w] = q]
        BY <2>1 DEF AdminLocks, TimerLocks, GiveUp, Release, Crash, Forget
    <2>5. seen' = seen \/ seen' = [seen EXCEPT ![w] = NULL]
        BY DEF AdminLocks, TimerLocks, GiveUp, Release, Crash, Forget
    <2>6. QED
        BY <1>1, <2>2, <2>3, <2>4, <2>5 DEF IInv, TypeOK, rows
<1>3. \A v \in Workers : v # w => pc'[v] = pc[v] /\ pc[v] = "IDLE"
    <2>1. \A v \in Workers : v # w => pc'[v] = pc[v]
        BY DEF IInv, TypeOK, AdminLocks, TimerLocks, GetLock, GiveUp, Release, Crash
    <2>2. lock = NULL \/ pc[w] # "IDLE"
        BY DEF AdminLocks, TimerLocks, GetLock, GiveUp, Release, Crash
    <2>3. \A v \in Workers : v # NULL
        BY NullAssumption DEF Workers
    <2>4. QED
        BY <2>1, <2>2, <2>3 DEF IInv, Holder
<1>4. pc'[w] # "DECIDED" /\ (pc'[w] # "IDLE" => lock' = w)
    BY DEF IInv, TypeOK, Holder, AdminLocks, TimerLocks, GetLock, GiveUp, Release, Crash
<1>5. Holder' /\ DecisionsStand'
    BY <1>3, <1>4 DEF Holder, DecisionsStand, Workers
<1>6. QED
    BY <1>1, <1>2, <1>5, RowsKept DEF IInv

(* Deciding: the conditions just read are what has to stand.                 *)
LEMMA ReadSteps ==
    ASSUME IInv, NEW w \in Workers, Reads(w)
    PROVE  IInv'
<1>1. PICK q \in Requests :
        /\ Decide(w, q)
        /\ q.op = "create" => Overlapping(q.from, q.to) = {}
        /\ q.op = "patch" =>
              /\ status[q.slug] \notin {"NONE", "closed"}
              /\ FinalStart(q) < FinalEnd(q)
              /\ Overlapping(FinalStart(q), FinalEnd(q)) \subseteq {q.slug}
        /\ q.op = "activate" => CanActivate(q.slug)
        /\ q.op = "close" => status[q.slug] = "active"
        /\ q.op = "reconcile" => status[q.slug] = "active" /\ Expired(q.slug)
    <2>1. CASE DecideCreate(w)
        BY <2>1, RequestSets DEF DecideCreate
    <2>2. CASE DecidePatch(w)
        BY <2>2, RequestSets DEF DecidePatch
    <2>3. CASE DecideActivate(w)
        BY <2>3, RequestSets DEF DecideActivate
    <2>4. CASE DecideClose(w)
        BY <2>4, RequestSets DEF DecideClose
    <2>5. CASE DecideReconcile(w)
        BY <2>5, RequestSets DEF DecideReconcile, Active
    <2>6. QED
        BY <2>1, <2>2, <2>3, <2>4, <2>5 DEF Reads
<1>2. UNCHANGED <<rows, clock>>
    BY <1>1 DEF Decide
<1>3. q.slug \in Slugs
    BY RequestKinds
<1>4. TypeOK'
    BY <1>1, <1>3 DEF IInv, TypeOK, Decide, rows
<1>5. /\ request'[w] = q /\ seen'[w] = status[q.slug] /\ pc'[w] = "DECIDED"
      /\ pc[w] = "LOCKED" /\ lock' = lock
      /\ \A v \in Workers : v # w => pc'[v] = pc[v]
    BY <1>1 DEF IInv, TypeOK, Decide
<1>6. \A v \in Workers : v # w => pc'[v] = "IDLE"
    BY <1>5, Alone
<1>7. Holder'
    BY <1>5, <1>6 DEF IInv, Holder, Workers
<1>8. q.op = "activate" => Active = {} /\ startAt[q.slug] <= clock /\ status[q.slug] = "draft"
    BY <1>1 DEF CanActivate, Active
<1>9. Applies(w)' \/ q.op = "create"
    BY <1>1, <1>2, <1>5, <1>8, RowsKept DEF Applies, Exists, Expired, rows
<1>10. DecisionStands(w)'
    BY <1>1, <1>2, <1>5, <1>8, <1>9, RowsKept DEF DecisionStands, rows
<1>11. DecisionsStand'
    BY <1>6, <1>10 DEF DecisionsStand, Workers
<1>12. QED
    BY <1>2, <1>4, <1>7, <1>11, RowsKept DEF IInv

-----------------------------------------------------------------------------
(* What all writes have in common: the request is known, what was decided    *)
(* stands, and nobody has decided afterwards.                                *)
LEMMA WriteSteps ==
    ASSUME IInv, NEW w \in Workers, Write(w)
    PROVE  /\ request[w] \in Requests
           /\ Applies(w) /\ DecisionStands(w)
           /\ pc' \in [Workers -> {"IDLE", "LOCKED", "DECIDED", "DONE"}]
           /\ request' \in [Workers -> Requests \cup {NULL}]
           /\ seen' \in [Workers -> {"NONE", "draft", "active", "closed", NULL}]
           /\ lock' = lock /\ clock' = clock
           /\ Holder' /\ DecisionsStand'
<1>1. pc[w] = "DECIDED" /\ Applies(w) /\ lock' = lock /\ clock' = clock
    BY DEF Write
<1>2. request[w] \in Requests /\ DecisionStands(w)
    BY <1>1 DEF IInv, Holder, DecisionsStand
<1>3. /\ pc' \in [Workers -> {"IDLE", "LOCKED", "DECIDED", "DONE"}]
      /\ pc'[w] = "DONE"
      /\ \A v \in Workers : v # w => pc'[v] = pc[v]
      /\ request' \in [Workers -> Requests \cup {NULL}]
      /\ seen' \in [Workers -> {"NONE", "draft", "active", "closed", NULL}]
    BY DEF IInv, TypeOK, Write, Forget
<1>4. \A v \in Workers : v # w => pc'[v] = "IDLE"
    BY <1>1, <1>3, Alone
<1>5. lock' = w
    BY <1>1 DEF IInv, Holder
<1>6. Holder' /\ DecisionsStand'
    BY <1>3, <1>4, <1>5 DEF Holder, DecisionsStand, Workers
<1>7. QED
    BY <1>1, <1>2, <1>3, <1>6

(* A season keeps its distance from all those its range does not overlap.    *)
LEMMA Distance ==
    ASSUME IInv, NEW s \in Slugs, NEW from \in Times, NEW to \in Times,
           Overlapping(from, to) \subseteq {s}
    PROVE  \A t \in Slugs : Exists(t) /\ t # s => endAt[t] < from \/ to < startAt[t]
<1> SUFFICES ASSUME NEW t \in Slugs, Exists(t), t # s
             PROVE  endAt[t] < from \/ to < startAt[t]
    OBVIOUS
<1>1. startAt[t] \in Int /\ endAt[t] \in Int /\ from \in Int /\ to \in Int
    BY TimeAssumption DEF IInv, Dated, Times
<1>2. ~(startAt[t] <= to /\ endAt[t] >= from)
    BY DEF Overlapping
<1>3. QED
    BY <1>1, <1>2

LEMMA CreateStep ==
    ASSUME IInv, NEW w \in Workers, WriteCreate(w)
    PROVE  IInv'
<1> DEFINE q == request[w]
           s == q.slug
<1>1. /\ q \in Requests /\ q.op = "create" /\ Applies(w) /\ DecisionStands(w)
      /\ status'  = [status  EXCEPT ![s] = "draft"]
      /\ startAt' = [startAt EXCEPT ![s] = q.from]
      /\ endAt'   = [endAt   EXCEPT ![s] = q.to]
      /\ closedBy' = closedBy /\ clock' = clock /\ lock' = lock
    BY WriteSteps DEF WriteCreate
<1>2. s \in Slugs /\ q.from \in Times /\ q.to \in Times /\ q.from < q.to
    BY <1>1, RequestKinds
<1>3. status[s] = "NONE" /\ Overlapping(q.from, q.to) = {}
    BY <1>1 DEF Applies, DecisionStands, Exists
<1>4. \A t \in Slugs : Exists(t) /\ t # s => endAt[t] < q.from \/ q.to < startAt[t]
    BY <1>2, <1>3, Distance
<1> HIDE DEF q, s
<1>5. TypeOK'
    BY <1>1, <1>2, WriteSteps DEF IInv, TypeOK, WriteCreate
<1>6. /\ status'[s] = "draft" /\ startAt'[s] = q.from /\ endAt'[s] = q.to
      /\ \A t \in Slugs : t # s =>
            status'[t] = status[t] /\ startAt'[t] = startAt[t] /\ endAt'[t] = endAt[t]
    BY <1>1, <1>2 DEF IInv, TypeOK
<1>7. Dated'
    BY <1>2, <1>6 DEF IInv, Dated, Exists
<1>8. OneActive'
    BY <1>2, <1>6 DEF IInv, OneActive
<1>9. DisjointRanges'
    BY <1>4, <1>6 DEF IInv, DisjointRanges, Exists
<1>10. ClosedByTimer'
    BY <1>1, <1>3, <1>6 DEF IInv, ClosedByTimer
<1>11. QED
    BY <1>5, <1>7, <1>8, <1>9, <1>10, WriteSteps DEF IInv, WriteCreate

LEMMA PatchStep ==
    ASSUME IInv, NEW w \in Workers, WritePatch(w)
    PROVE  IInv'
<1> DEFINE q == request[w]
           s == q.slug
<1>1. /\ q \in Requests /\ q.op = "patch" /\ Applies(w) /\ DecisionStands(w)
      /\ startAt' = [startAt EXCEPT ![s] = IF q.from = NULL THEN @ ELSE q.from]
      /\ endAt'   = [endAt   EXCEPT ![s] = IF q.to   = NULL THEN @ ELSE q.to]
      /\ status' = status /\ closedBy' = closedBy /\ clock' = clock /\ lock' = lock
    BY WriteSteps DEF WritePatch
<1>2. /\ s \in Slugs /\ q.from \in Times \cup {NULL} /\ q.to \in Times \cup {NULL}
      /\ status[s] \notin {"NONE", "closed"}
      /\ FinalStart(q) < FinalEnd(q)
      /\ Overlapping(FinalStart(q), FinalEnd(q)) \subseteq {s}
    BY <1>1, RequestKinds DEF DecisionStands
<1>3. FinalStart(q) \in Times /\ FinalEnd(q) \in Times
    BY <1>2 DEF IInv, Dated, Exists, FinalStart, FinalEnd
<1>4. \A t \in Slugs : Exists(t) /\ t # s =>
          endAt[t] < FinalStart(q) \/ FinalEnd(q) < startAt[t]
    BY <1>2, <1>3, Distance
<1>5. /\ startAt'[s] = FinalStart(q) /\ endAt'[s] = FinalEnd(q)
      /\ \A t \in Slugs : t # s => startAt'[t] = startAt[t] /\ endAt'[t] = endAt[t]
      /\ startAt' \in [Slugs -> Times \cup {NULL}]
      /\ endAt'   \in [Slugs -> Times \cup {NULL}]
    BY <1>1, <1>2 DEF IInv, TypeOK, FinalStart, FinalEnd
<1>6. TypeOK'
    BY <1>1, <1>5, WriteSteps DEF IInv, TypeOK, WritePatch
<1> HIDE DEF q, s
<1>7. Dated'
    BY <1>1, <1>2, <1>3, <1>5 DEF IInv, Dated, Exists
<1>8. OneActive'
    BY <1>1 DEF IInv, OneActive
<1>9. DisjointRanges'
    BY <1>1, <1>4, <1>5 DEF IInv, DisjointRanges, Exists
<1>10. ClosedByTimer'
    BY <1>1, <1>2, <1>5 DEF IInv, ClosedByTimer
<1>11. QED
    BY <1>6, <1>7, <1>8, <1>9, <1>10, WriteSteps DEF IInv, WritePatch

LEMMA ActivateStep ==
    ASSUME IInv, NEW w \in Workers, WriteActivate(w)
    PROVE  IInv'
<1> DEFINE s == request[w].slug
<1>1. /\ s \in Slugs /\ Applies(w) /\ request[w].op = "activate"
      /\ status' = [status EXCEPT ![s] = "active"]
      /\ UNCHANGED <<startAt, endAt, closedBy>> /\ clock' = clock /\ lock' = lock
    BY WriteSteps, RequestKinds DEF WriteActivate
<1>2. status[s] = "draft" /\ Active = {}
    BY <1>1 DEF Applies
<1> HIDE DEF s
<1>3. TypeOK'
    BY <1>1, WriteSteps DEF IInv, TypeOK, WriteActivate
<1>4. status'[s] = "active" /\ \A t \in Slugs : t # s => status'[t] = status[t]
    BY <1>1 DEF IInv, TypeOK
<1>5. Dated' /\ DisjointRanges'
    BY <1>1, <1>2, <1>4 DEF IInv, Dated, DisjointRanges, Exists
<1>6. OneActive'
    BY <1>2, <1>4 DEF OneActive, Active
<1>7. ClosedByTimer'
    BY <1>1, <1>2, <1>4 DEF IInv, ClosedByTimer
<1>8. QED
    BY <1>3, <1>5, <1>6, <1>7, WriteSteps DEF IInv, WriteActivate

LEMMA CloseStep ==
    ASSUME IInv, NEW w \in Workers, WriteClose(w)
    PROVE  IInv'
<1> DEFINE s == request[w].slug
           by == IF request[w].op = "close" THEN "admin" ELSE "system"
<1>1. /\ s \in Slugs /\ Applies(w) /\ request[w].op \in {"close", "reconcile"}
      /\ status'   = [status EXCEPT ![s] = "closed"]
      /\ closedBy' = [closedBy EXCEPT ![s] = by]
      /\ UNCHANGED <<startAt, endAt>> /\ clock' = clock /\ lock' = lock
    BY WriteSteps, RequestKinds DEF WriteClose
<1>2. /\ status[s] = "active" /\ by \in {"admin", "system"}
      /\ by = "system" => endAt[s] <= clock
    BY <1>1 DEF Applies, Expired
<1> HIDE DEF s, by
<1>3. TypeOK'
    BY <1>1, <1>2, WriteSteps DEF IInv, TypeOK, WriteClose
<1>4. /\ status'[s] = "closed" /\ closedBy'[s] = by
      /\ \A t \in Slugs : t # s => status'[t] = status[t] /\ closedBy'[t] = closedBy[t]
    BY <1>1 DEF IInv, TypeOK
<1>5. Dated' /\ DisjointRanges'
    BY <1>1, <1>2, <1>4 DEF IInv, Dated, DisjointRanges, Exists
<1>6. OneActive'
    BY <1>4 DEF IInv, OneActive
<1>7. endAt[s] \in Times
    BY <1>1, <1>2 DEF IInv, Dated, Exists
<1>8. ClosedByTimer'
    BY <1>1, <1>2, <1>4, <1>7 DEF IInv, ClosedByTimer
<1>9. QED
    BY <1>3, <1>5, <1>6, <1>8, WriteSteps DEF IInv, WriteClose

(* Time only strengthens what was found begun or ended.                      *)
LEMMA TickStep ==
    ASSUME IInv, Tick
    PROVE  IInv'
<1>1. clock \in Int /\ clock' \in Times /\ clock' = clock + 1 /\ UNCHANGED <<rows, work>>
    BY TimeAssumption DEF IInv, TypeOK, Times, Tick
<1>2. TypeOK'
    BY <1>1 DEF IInv, TypeOK, rows, work
<1>3. Holder' /\ Dated' /\ OneActive' /\ DisjointRanges'
    BY <1>1 DEF IInv, rows, work, Holder, Dated, OneActive, DisjointRanges, Exists
<1>4. ClosedByTimer'
    BY <1>1, TimeAssumption DEF IInv, ClosedByTimer, rows, Times
<1>5. ASSUME NEW w \in Workers, pc'[w] = "DECIDED"
      PROVE  DecisionStands(w)'
    <2>1. DecisionStands(w) /\ request' = request /\ request[w] \in Requests
        BY <1>1, <1>5 DEF IInv, DecisionsStand, Holder, work
    <2>2. request[w].slug \in Slugs
        BY <2>1, RequestKinds
    <2>3. ASSUME status[request[w].slug] # "NONE"
          PROVE  startAt[request[w].slug] \in Int /\ endAt[request[w].slug] \in Int
        BY <2>2, <2>3, TimeAssumption DEF IInv, Dated, Exists, Times
    <2>4. Applies(w) => Applies(w)'
        BY <1>1, <2>1, <2>3 DEF Applies, Exists, Active, Expired, rows, work
    <2>5. request[w].op = "activate" => startAt'[request[w].slug] <= clock'
        BY <1>1, <2>1, <2>3 DEF DecisionStands, Applies, rows
    <2>6. QED
        BY <1>1, <2>1, <2>4, <2>5 DEF DecisionStands, FinalStart, FinalEnd, Overlapping,
                                      Exists, rows, work
<1>6. DecisionsStand'
    BY <1>5 DEF DecisionsStand, Workers
<1>7. QED
    BY <1>2, <1>3, <1>4, <1>6 DEF IInv

LEMMA NextInv == IInv /\ [Next]_vars => IInv'
<1> SUFFICES ASSUME IInv, [Next]_vars PROVE IInv'
    OBVIOUS
<1>1. CASE UNCHANGED vars
    BY <1>1 DEF vars, rows, work, IInv, TypeOK, Holder, Dated, DecisionsStand, DecisionStands,
                OneActive, DisjointRanges, ClosedByTimer, Exists, Applies, Active, Expired,
                Overlapping, FinalStart, FinalEnd
<1>2. CASE Tick
    BY <1>2, TickStep
<1>3. ASSUME NEW w \in Workers,
             \/ AdminLocks(w) \/ TimerLocks(w) \/ Reads(w) \/ Writes(w)
             \/ GiveUp(w) \/ Release(w) \/ Crash(w)
      PROVE  IInv'
    BY <1>3, LockSteps, ReadSteps, CreateStep, PatchStep, ActivateStep, CloseStep DEF Writes
<1>4. QED
    BY <1>1, <1>2, <1>3 DEF Next

LEMMA Invariance == Spec => []IInv
BY InitInv, NextInv, PTL DEF Spec

-----------------------------------------------------------------------------
(* Every column and every variable of a worker keeps its type.               *)
THEOREM TypeCorrect == Spec => []TypeOK
<1>1. IInv => TypeOK
    BY DEF IInv
<1>2. QED
    BY <1>1, Invariance, PTL

(* Two administrators, or an administrator and the timer, never leave two    *)
(* seasons active.                                                           *)
THEOREM OnlyOneActive == Spec => []OneActive
<1>1. IInv => OneActive
    BY DEF IInv
<1>2. QED
    BY <1>1, Invariance, PTL

(* Creations and patches decided on stale reads would let ranges overlap:    *)
(* they never do.                                                            *)
THEOREM RangesDisjoint == Spec => []DisjointRanges
<1>1. IInv => DisjointRanges
    BY DEF IInv
<1>2. QED
    BY <1>1, Invariance, PTL

(* Between the reads of a transaction and its write nothing happens that     *)
(* would have changed its decision.                                          *)
THEOREM DecisionsHold == Spec => []DecisionsStand
<1>1. IInv => DecisionsStand
    BY DEF IInv
<1>2. QED
    BY <1>1, Invariance, PTL

(* The timer closes no season early, and nobody extends it afterwards.       *)
THEOREM AutoCloseRight == Spec => []AutoCloseJustified
<1>1. IInv => AutoCloseJustified
    BY DEF IInv, ClosedByTimer, AutoCloseJustified
<1>2. QED
    BY <1>1, Invariance, PTL

-----------------------------------------------------------------------------
(* The current season of the calendar is the active one.                     *)
LEMMA CurrentSeason ==
    /\ Active = {} => Current = NULL
    /\ \A s : Active = {s} => Current = s
BY DEF Current, NoSeason

LEMMA CurrentSeasonNext ==
    /\ Active' = {} => Current' = NULL
    /\ \A s : Active' = {s} => Current' = s
BY DEF Current, NoSeason

(* An existing season's range is one of the calendar's; NULL is in none.     *)
LEMMA Scheduled ==
    ASSUME NEW from \in Times, NEW to \in Times, from < to
    PROVE  /\ [start |-> from, end |-> to] \in Calendar!Ranges
           /\ [start |-> from, end |-> to] # NoRange
<1>1. from # NULL
    BY TimeAssumption, NullAssumption DEF Times
<1>2. [start |-> from, end |-> to].start # NoRange.start
    BY <1>1 DEF NoRange
<1>3. QED
    BY <1>2 DEF Calendar!Ranges

LEMMA InitRefines == Init => Calendar!Init
<1> SUFFICES ASSUME Init PROVE Calendar!Init
    OBVIOUS
<1>1. Active = {} /\ \A s \in Slugs : ~Exists(s) /\ status[s] # "closed"
    BY DEF Init, Active, Exists
<1>2. Current = NoSeason
    BY <1>1, CurrentSeason DEF NoSeason
<1>3. clock \in Times
    BY TimeAssumption DEF Init, Times
<1>4. QED
    BY <1>1, <1>2, <1>3 DEF Calendar!Init, Range

(* Only commits and the clock reach the calendar.                            *)
LEMMA OtherStepsStutter ==
    ASSUME UNCHANGED <<rows, clock>>
    PROVE  UNCHANGED Calendar!vars
BY DEF rows, Calendar!vars, Range, Exists, NoRange, Current, Active, NoSeason

(* A season that gets a range free of all others is scheduled.               *)
LEMMA ScheduleStep ==
    ASSUME IInv, NEW s \in Slugs, NEW from \in Times, NEW to \in Times, from < to,
           status[s] # "closed",
           Overlapping(from, to) \subseteq {s},
           \A t \in Slugs : t # s => Range(t)' = Range(t),
           Range(s)' = [start |-> from, end |-> to],
           Active' = Active,
           \A t \in Slugs : status'[t] = "closed" <=> status[t] = "closed",
           clock' = clock
    PROVE  Calendar!Schedule(s, [start |-> from, end |-> to])
<1> DEFINE r == [start |-> from, end |-> to]
           plan == [t \in Slugs |-> Range(t)]
<1>1. \A t \in Slugs \ {s} : plan[t] # NoRange => Calendar!Apart(plan[t], r)
    <2> SUFFICES ASSUME NEW t \in Slugs \ {s}, Range(t) # NoRange
                 PROVE  Calendar!Apart(Range(t), r)
        OBVIOUS
    <2>1. Exists(t) /\ Range(t) = [start |-> startAt[t], end |-> endAt[t]]
        BY DEF Range
    <2>2. endAt[t] < from \/ to < startAt[t]
        BY <2>1, Distance
    <2>3. QED
        BY <2>1, <2>2 DEF Calendar!Apart
<1>2. plan' = [plan EXCEPT ![s] = r]
    OBVIOUS
<1>3. Current' = Current
    BY DEF Current
<1>4. {t \in Slugs : status[t] = "closed"}' = {t \in Slugs : status[t] = "closed"}
    OBVIOUS
<1>5. s \notin {t \in Slugs : status[t] = "closed"}
    OBVIOUS
<1>6. QED
    BY <1>1, <1>2, <1>3, <1>4, <1>5 DEF Calendar!Schedule

LEMMA CreateRefines ==
    ASSUME IInv, NEW w \in Workers, WriteCreate(w)
    PROVE  Calendar!Next
<1>0. PICK q, s : q = request[w] /\ s = q.slug
    OBVIOUS
<1>1. /\ s \in Slugs /\ q.from \in Times /\ q.to \in Times /\ q.from < q.to
      /\ ~Exists(s) /\ Overlapping(q.from, q.to) = {}
      /\ status'  = [status  EXCEPT ![s] = "draft"]
      /\ startAt' = [startAt EXCEPT ![s] = q.from]
      /\ endAt'   = [endAt   EXCEPT ![s] = q.to]
      /\ clock' = clock
    BY <1>0, WriteSteps, RequestKinds DEF WriteCreate, Applies, DecisionStands
<1>2. /\ status'[s] = "draft" /\ startAt'[s] = q.from /\ endAt'[s] = q.to
      /\ \A t \in Slugs : t # s =>
            status'[t] = status[t] /\ startAt'[t] = startAt[t] /\ endAt'[t] = endAt[t]
    BY <1>1 DEF IInv, TypeOK
<1>3. \A t \in Slugs : t # s => Range(t)' = Range(t)
    BY <1>2 DEF Range, Exists, NoRange
<1>4. Range(s)' = [start |-> q.from, end |-> q.to]
    BY <1>2 DEF Range, Exists
<1>5. /\ status[s] # "closed" /\ Active' = Active
      /\ \A t \in Slugs : status'[t] = "closed" <=> status[t] = "closed"
    BY <1>1, <1>2 DEF Active, Exists
<1>6. Calendar!Schedule(s, [start |-> q.from, end |-> q.to])
    BY <1>1, <1>3, <1>4, <1>5, ScheduleStep
<1>7. QED
    BY <1>1, <1>6, Scheduled DEF Calendar!Next

LEMMA PatchRefines ==
    ASSUME IInv, NEW w \in Workers, WritePatch(w)
    PROVE  Calendar!Next
<1>0. PICK q, s : q = request[w] /\ s = q.slug
    OBVIOUS
<1>1. /\ s \in Slugs /\ q.from \in Times \cup {NULL} /\ q.to \in Times \cup {NULL}
      /\ status[s] \notin {"NONE", "closed"}
      /\ FinalStart(q) < FinalEnd(q)
      /\ Overlapping(FinalStart(q), FinalEnd(q)) \subseteq {s}
      /\ startAt' = [startAt EXCEPT ![s] = IF q.from = NULL THEN @ ELSE q.from]
      /\ endAt'   = [endAt   EXCEPT ![s] = IF q.to   = NULL THEN @ ELSE q.to]
      /\ status' = status /\ clock' = clock
    BY <1>0, WriteSteps, RequestKinds DEF WritePatch, DecisionStands
<1>2. FinalStart(q) \in Times /\ FinalEnd(q) \in Times
    BY <1>0, <1>1 DEF IInv, Dated, Exists, FinalStart, FinalEnd
<1>3. /\ startAt'[s] = FinalStart(q) /\ endAt'[s] = FinalEnd(q)
      /\ \A t \in Slugs : t # s => startAt'[t] = startAt[t] /\ endAt'[t] = endAt[t]
    BY <1>0, <1>1 DEF IInv, TypeOK, FinalStart, FinalEnd
<1>4. \A t \in Slugs : t # s => Range(t)' = Range(t)
    BY <1>1, <1>3 DEF Range, Exists, NoRange
<1>5. Range(s)' = [start |-> FinalStart(q), end |-> FinalEnd(q)]
    BY <1>1, <1>3 DEF Range, Exists
<1>6. Active' = Active
    BY <1>1 DEF Active
<1>7. Calendar!Schedule(s, [start |-> FinalStart(q), end |-> FinalEnd(q)])
    BY <1>1, <1>2, <1>4, <1>5, <1>6, ScheduleStep
<1>8. QED
    BY <1>1, <1>2, <1>7, Scheduled DEF Calendar!Next

LEMMA ActivateRefines ==
    ASSUME IInv, NEW w \in Workers, WriteActivate(w)
    PROVE  Calendar!Next
<1>0. PICK s : s = request[w].slug
    OBVIOUS
<1>1. /\ s \in Slugs /\ status[s] = "draft" /\ Active = {} /\ startAt[s] <= clock
      /\ status' = [status EXCEPT ![s] = "active"]
      /\ UNCHANGED <<startAt, endAt>> /\ clock' = clock
    BY <1>0, WriteSteps, RequestKinds DEF WriteActivate, Applies, DecisionStands
<1>2. status'[s] = "active" /\ \A t \in Slugs : t # s => status'[t] = status[t]
    BY <1>1 DEF IInv, TypeOK
<1>3. Active' = {s}
    BY <1>1, <1>2 DEF Active
<1>4. Current = NoSeason /\ Current' = s
    BY <1>1, <1>3, CurrentSeason, CurrentSeasonNext DEF NoSeason
<1>5. \A t \in Slugs : Range(t)' = Range(t)
    BY <1>1, <1>2 DEF Range, Exists, NoRange
<1>6. {t \in Slugs : status[t] = "closed"}' = {t \in Slugs : status[t] = "closed"}
    BY <1>1, <1>2
<1>7. Range(s) # NoRange /\ Range(s).start = startAt[s]
    BY <1>1, Scheduled DEF IInv, Dated, Exists, Range
<1>8. Calendar!Open(s)
    BY <1>1, <1>4, <1>5, <1>6, <1>7 DEF Calendar!Open
<1>9. QED
    BY <1>1, <1>8 DEF Calendar!Next

LEMMA CloseRefines ==
    ASSUME IInv, NEW w \in Workers, WriteClose(w)
    PROVE  Calendar!Next
<1>0. PICK s : s = request[w].slug
    OBVIOUS
<1>1. /\ s \in Slugs /\ status[s] = "active"
      /\ status' = [status EXCEPT ![s] = "closed"]
      /\ UNCHANGED <<startAt, endAt>> /\ clock' = clock
    BY <1>0, WriteSteps, RequestKinds DEF WriteClose, Applies
<1>2. status'[s] = "closed" /\ \A t \in Slugs : t # s => status'[t] = status[t]
    BY <1>1 DEF IInv, TypeOK
<1>3. Active = {s} /\ Active' = {}
    BY <1>1, <1>2 DEF IInv, OneActive, Active
<1>4. Current = s /\ Current' = NoSeason
    BY <1>3, CurrentSeason, CurrentSeasonNext DEF NoSeason
<1>5. \A t \in Slugs : Range(t)' = Range(t)
    BY <1>1, <1>2 DEF Range, Exists, NoRange
<1>6. {t \in Slugs : status[t] = "closed"}' = {t \in Slugs : status[t] = "closed"} \cup {s}
    BY <1>1, <1>2
<1>7. Calendar!Close(s)
    BY <1>1, <1>4, <1>5, <1>6 DEF Calendar!Close
<1>8. QED
    BY <1>1, <1>7 DEF Calendar!Next

LEMMA TickRefines ==
    ASSUME IInv, Tick
    PROVE  Calendar!Next
<1>1. clock' \in {t \in Times : clock < t} /\ UNCHANGED rows
    BY TimeAssumption DEF IInv, TypeOK, Times, Tick
<1>2. /\ \A t \in Slugs : Range(t)' = Range(t)
      /\ Current' = Current
      /\ {t \in Slugs : status[t] = "closed"}' = {t \in Slugs : status[t] = "closed"}
    BY <1>1 DEF rows, Range, Exists, NoRange, Current, Active, NoSeason
<1>3. Calendar!Tick
    BY <1>1, <1>2 DEF Calendar!Tick
<1>4. QED
    BY <1>3 DEF Calendar!Next

LEMMA NextRefines == IInv /\ [Next]_vars => [Calendar!Next]_(Calendar!vars)
<1> SUFFICES ASSUME IInv, [Next]_vars PROVE [Calendar!Next]_(Calendar!vars)
    OBVIOUS
<1>1. CASE UNCHANGED vars
    BY <1>1, OtherStepsStutter DEF vars
<1>2. CASE Tick
    BY <1>2, TickRefines
<1>3. ASSUME NEW w \in Workers, Writes(w)
      PROVE  Calendar!Next
    BY <1>3, CreateRefines, PatchRefines, ActivateRefines, CloseRefines DEF Writes
<1>4. ASSUME NEW w \in Workers,
             \/ AdminLocks(w) \/ TimerLocks(w) \/ Reads(w)
             \/ GiveUp(w) \/ Release(w) \/ Crash(w)
      PROVE  UNCHANGED <<rows, clock>>
    BY <1>4 DEF AdminLocks, TimerLocks, Reads, DecideCreate, DecidePatch, DecideActivate,
                DecideClose, DecideReconcile, Decide, GiveUp, Release, Crash
<1>5. QED
    BY <1>1, <1>2, <1>3, <1>4, OtherStepsStutter DEF Next

(* Seasons keeps the calendar: locks, transactions, crashes and the timer    *)
(* never make it move in a way the abstract calendar would not.              *)
THEOREM Refinement == Spec => ImplementsCalendar
BY InitRefines, NextRefines, Invariance, PTL DEF Spec, ImplementsCalendar, Calendar!Spec

=============================================================================
