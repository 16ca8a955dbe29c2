------------------------------- MODULE Seasons -------------------------------
(***************************************************************************)
(* Seasons: administrators create, patch, activate and close them over     *)
(* HTTP, and a systemd timer closes the active season once it has ended.   *)
(*                                                                         *)
(* Every change is made by a worker (an HTTP request or a run of the timer *)
(* script) on a connection of its own: it takes the advisory lock, begins  *)
(* a transaction, reads and decides, writes and commits, and releases the  *)
(* lock.  Each of these is a step, and the clock and the other workers go  *)
(* on in between.  A worker that finds the lock taken gives up without     *)
(* having done anything (an administrator after five seconds, the timer at *)
(* once), so that is no step here.  A worker may stop anywhere: MySQL then *)
(* rolls its transaction back and frees its lock.                          *)
(*                                                                         *)
(* Names, descriptions and covers never decide anything and are left out.  *)
(* The clock of the service and that of the database are one clock.        *)
(***************************************************************************)
EXTENDS Integers, FiniteSets

CONSTANTS
    Slugs,     \* seasons, created or not
    Admins,    \* HTTP requests under way
    Timers,    \* runs of scripts/reconcile-seasons.js
    MaxTime,   \* bound on the clock and on dates
    NULL

ASSUME TimeAssumption == MaxTime \in Nat
ASSUME NullAssumption == NULL \notin Slugs \cup Admins \cup Timers \cup Int
ASSUME WorkersAssumption == Admins \cap Timers = {}

VARIABLES
    status,    \* seasons.status, "NONE" before the row exists
    startAt,   \* seasons.start_at
    endAt,     \* seasons.end_at
    closedBy,  \* admin_audit_log.via of the season's closing
    lock,      \* who holds hsc:seasons:lifecycle:v1
    pc,        \* where each worker is
    request,   \* what it was asked to do
    seen,      \* the status its transaction read
    clock

rows == <<status, startAt, endAt, closedBy>>
work == <<lock, pc, request, seen>>
vars == <<rows, work, clock>>

-----------------------------------------------------------------------------
Workers == Admins \cup Timers
Times   == 0..MaxTime

(* validateSeasonInput has compared the dates of a creation already.  A      *)
(* patch names one date or both; without any it changes nothing modelled.    *)
Creations ==
    {q \in [op : {"create"}, slug : Slugs, from : Times, to : Times] : q.from < q.to}
Patches ==
    {q \in [op : {"patch"}, slug : Slugs, from : Times \cup {NULL}, to : Times \cup {NULL}] :
        q.from # NULL \/ q.to # NULL}
Switches == [op : {"activate", "close"}, slug : Slugs, from : {NULL}, to : {NULL}]
Reconciliations == [op : {"reconcile"}, slug : Slugs, from : {NULL}, to : {NULL}]

AdminRequests == Creations \cup Patches \cup Switches
Requests      == AdminRequests \cup Reconciliations

TypeOK ==
    /\ status   \in [Slugs -> {"NONE", "draft", "active", "closed"}]
    /\ startAt  \in [Slugs -> Times \cup {NULL}]
    /\ endAt    \in [Slugs -> Times \cup {NULL}]
    /\ closedBy \in [Slugs -> {"nobody", "admin", "system"}]
    /\ lock     \in Workers \cup {NULL}
    /\ pc       \in [Workers -> {"IDLE", "LOCKED", "DECIDED", "DONE"}]
    /\ request  \in [Workers -> Requests \cup {NULL}]
    /\ seen     \in [Workers -> {"NONE", "draft", "active", "closed", NULL}]
    /\ clock    \in Times

Exists(s)  == status[s] # "NONE"
Active     == {s \in Slugs : status[s] = "active"}
Expired(s) == endAt[s] <= clock

(* Mutant: a shared instant is no overlap. *)
OverlappingStrictly(from, to) ==
    {s \in Slugs : Exists(s) /\ startAt[s] < to /\ endAt[s] > from}

(* start_at <= ? AND end_at >= ?: a shared instant is an overlap. *)
Overlapping(from, to) == {s \in Slugs : Exists(s) /\ startAt[s] <= to /\ endAt[s] >= from}

(* The range a patch leaves behind. *)
FinalStart(q) == IF q.from = NULL THEN startAt[q.slug] ELSE q.from
FinalEnd(q)   == IF q.to   = NULL THEN endAt[q.slug]   ELSE q.to

Init ==
    /\ status   = [s \in Slugs |-> "NONE"]
    /\ startAt  = [s \in Slugs |-> NULL]
    /\ endAt    = [s \in Slugs |-> NULL]
    /\ closedBy = [s \in Slugs |-> "nobody"]
    /\ lock     = NULL
    /\ pc       = [w \in Workers |-> "IDLE"]
    /\ request  = [w \in Workers |-> NULL]
    /\ seen     = [w \in Workers |-> NULL]
    /\ clock    = 0

-----------------------------------------------------------------------------
(* Mutant: the result of GET_LOCK is not looked at. *)
GetLockUnchecked(w) ==
    /\ pc[w] = "IDLE"
    /\ lock' = w
    /\ pc'   = [pc EXCEPT ![w] = "LOCKED"]

(* GET_LOCK and BEGIN.                                                       *)
GetLock(w) ==
    /\ pc[w] = "IDLE"
    /\ lock = NULL
    /\ lock' = w
    /\ pc'   = [pc EXCEPT ![w] = "LOCKED"]

AdminLocks(w) ==
    /\ w \in Admins
    /\ GetLock(w)
    /\ \E q \in AdminRequests : request' = [request EXCEPT ![w] = q]
    /\ UNCHANGED <<rows, seen, clock>>

TimerLocks(w) ==
    /\ w \in Timers
    /\ GetLock(w)
    /\ UNCHANGED <<rows, request, seen, clock>>

(* The reads of a transaction and what is decided from them: q goes on to    *)
(* its write.                                                                *)
Decide(w, q) ==
    /\ pc[w] = "LOCKED"
    /\ pc'      = [pc EXCEPT ![w] = "DECIDED"]
    /\ request' = [request EXCEPT ![w] = q]
    /\ seen'    = [seen EXCEPT ![w] = status[q.slug]]
    /\ UNCHANGED <<rows, lock, clock>>

DecideCreate(w) ==
    /\ request[w] \in Creations
    /\ Overlapping(request[w].from, request[w].to) = {}
    /\ Decide(w, request[w])

DecidePatch(w) == LET q == request[w] IN
    /\ q \in Patches
    /\ status[q.slug] \notin {"NONE", "closed"}
    /\ FinalStart(q) < FinalEnd(q)
    /\ Overlapping(FinalStart(q), FinalEnd(q)) \subseteq {q.slug}
    /\ Decide(w, q)

(* Mutant: activation before the season begins. *)
CanActivateEarly(s) == status[s] = "draft" /\ Active \subseteq {s} /\ clock < endAt[s]

CanActivate(s) ==
    /\ status[s] = "draft"
    /\ Active \subseteq {s}
    /\ startAt[s] <= clock /\ clock < endAt[s]

DecideActivate(w) == LET q == request[w] IN
    /\ q \in Switches /\ q.op = "activate"
    /\ CanActivate(q.slug)
    /\ Decide(w, q)

DecideClose(w) == LET q == request[w] IN
    /\ q \in Switches /\ q.op = "close"
    /\ status[q.slug] = "active"
    /\ Decide(w, q)

(* The timer closes the season it finds active, if it has ended.             *)
DecideReconcile(w) ==
    /\ w \in Timers
    /\ \E q \in Reconciliations :
          /\ Active = {q.slug}
          /\ Expired(q.slug)
          /\ Decide(w, q)

-----------------------------------------------------------------------------
(* The conditions the statement itself carries: WHERE, unique keys.          *)
Applies(w) == LET q == request[w] IN
    /\ q.op = "create"    => ~Exists(q.slug)
    /\ q.op = "patch"     => status[q.slug] = seen[w]
    /\ q.op = "activate"  => status[q.slug] = "draft" /\ Active = {}
    /\ q.op = "close"     => status[q.slug] = "active"
    /\ q.op = "reconcile" => status[q.slug] = "active" /\ Expired(q.slug)

Forget(w) ==
    /\ request' = [request EXCEPT ![w] = NULL]
    /\ seen'    = [seen EXCEPT ![w] = NULL]

(* The write of the transaction and its COMMIT.                              *)
Write(w) ==
    /\ pc[w] = "DECIDED"
    /\ Applies(w)
    /\ pc' = [pc EXCEPT ![w] = "DONE"]
    /\ Forget(w)
    /\ UNCHANGED <<lock, clock>>

WriteCreate(w) == LET q == request[w] IN
    /\ Write(w)
    /\ q.op = "create"
    /\ status'  = [status  EXCEPT ![q.slug] = "draft"]
    /\ startAt' = [startAt EXCEPT ![q.slug] = q.from]
    /\ endAt'   = [endAt   EXCEPT ![q.slug] = q.to]
    /\ UNCHANGED closedBy

(* Only the dates the patch names are SET. *)
WritePatch(w) == LET q == request[w] IN
    /\ Write(w)
    /\ q.op = "patch"
    /\ startAt' = [startAt EXCEPT ![q.slug] = IF q.from = NULL THEN @ ELSE q.from]
    /\ endAt'   = [endAt   EXCEPT ![q.slug] = IF q.to   = NULL THEN @ ELSE q.to]
    /\ UNCHANGED <<status, closedBy>>

WriteActivate(w) ==
    /\ Write(w)
    /\ request[w].op = "activate"
    /\ status' = [status EXCEPT ![request[w].slug] = "active"]
    /\ UNCHANGED <<startAt, endAt, closedBy>>

WriteClose(w) ==
    /\ Write(w)
    /\ request[w].op \in {"close", "reconcile"}
    /\ status'   = [status EXCEPT ![request[w].slug] = "closed"]
    /\ closedBy' = [closedBy EXCEPT ![request[w].slug] =
                        IF request[w].op = "close" THEN "admin" ELSE "system"]
    /\ UNCHANGED <<startAt, endAt>>

(* Mutant: the lock is only released after a commit. *)
GiveUpKeepingLock(w) ==
    /\ pc[w] \in {"LOCKED", "DECIDED"}
    /\ pc' = [pc EXCEPT ![w] = "IDLE"]
    /\ Forget(w)
    /\ UNCHANGED <<rows, lock, clock>>

(* A refusal, an error (rolled back), or nothing to do.                      *)
GiveUp(w) ==
    /\ pc[w] \in {"LOCKED", "DECIDED"}
    /\ pc' = [pc EXCEPT ![w] = "DONE"]
    /\ Forget(w)
    /\ UNCHANGED <<rows, lock, clock>>

Release(w) ==
    /\ pc[w] = "DONE"
    /\ pc'   = [pc EXCEPT ![w] = "IDLE"]
    /\ lock' = NULL
    /\ UNCHANGED <<rows, request, seen, clock>>

(* The process or its connection is gone before the commit.                  *)
Crash(w) ==
    /\ pc[w] \in {"LOCKED", "DECIDED"}
    /\ pc'   = [pc EXCEPT ![w] = "IDLE"]
    /\ lock' = NULL
    /\ Forget(w)
    /\ UNCHANGED <<rows, clock>>

Tick ==
    /\ clock < MaxTime
    /\ clock' = clock + 1
    /\ UNCHANGED <<rows, work>>

Reads(w)  == \/ DecideCreate(w) \/ DecidePatch(w) \/ DecideActivate(w)
             \/ DecideClose(w) \/ DecideReconcile(w)
Writes(w) == WriteCreate(w) \/ WritePatch(w) \/ WriteActivate(w) \/ WriteClose(w)

Next ==
    \/ \E w \in Workers :
          \/ AdminLocks(w) \/ TimerLocks(w)
          \/ Reads(w) \/ Writes(w)
          \/ GiveUp(w) \/ Release(w) \/ Crash(w)
    \/ Tick

Spec == Init /\ [][Next]_vars

-----------------------------------------------------------------------------
(* The database never shows two active seasons.                              *)
OneActive == \A s, t \in Slugs : status[s] = "active" /\ status[t] = "active" => s = t

(* Seasons, closed ones included, share no instant, whatever creations and   *)
(* patches were decided at the same time.                                    *)
DisjointRanges ==
    \A s, t \in Slugs : Exists(s) /\ Exists(t) /\ s # t =>
        endAt[s] < startAt[t] \/ endAt[t] < startAt[s]

(* What a transaction decided from its reads is still true when it writes,   *)
(* with the clock and other workers going on in between: its defensive WHERE *)
(* never refuses (season_update_failed, season_close_failed,                 *)
(* season_auto_close_failed, season_activation_failed are never answered),   *)
(* and the range it found free is still free.                                *)
DecisionStands(w) == LET q == request[w] IN
    /\ q.op # "create" => Applies(w)
    /\ q.op = "create" => Overlapping(q.from, q.to) = {}
    /\ q.op = "patch" =>
          /\ status[q.slug] \notin {"NONE", "closed"}
          /\ FinalStart(q) < FinalEnd(q)
          /\ Overlapping(FinalStart(q), FinalEnd(q)) \subseteq {q.slug}
    /\ q.op = "activate" => startAt[q.slug] <= clock

DecisionsStand == \A w \in Workers : pc[w] = "DECIDED" => DecisionStands(w)

(* What the system closed has ended, also after the fact: no patch that was  *)
(* under way gives a season closed by the timer a later end.                 *)
AutoCloseJustified == \A s \in Slugs : closedBy[s] = "system" => endAt[s] <= clock

NoSeason == NULL
NoRange  == [start |-> NULL, end |-> NULL]
Range(s) == IF Exists(s) THEN [start |-> startAt[s], end |-> endAt[s]] ELSE NoRange
Current  == IF Active = {} THEN NoSeason ELSE CHOOSE s \in Active : TRUE

Calendar == INSTANCE SeasonCalendar WITH
    Seasons <- Slugs,
    plan    <- [s \in Slugs |-> Range(s)],
    current <- Current,
    past    <- {s \in Slugs : status[s] = "closed"}

(* Locks, transactions, crashes and the timer are one way to keep the        *)
(* calendar: every commit is one step of it, every other step is none.  In   *)
(* particular a season opens only after it begins, and what is over is       *)
(* neither opened nor moved again.                                           *)
ImplementsCalendar == Calendar!Spec

(* A worker on a living connection gets on with its transaction and releases *)
(* the lock; the timer comes back every five minutes, for ever, so that it   *)
(* finds the lock free at times and is not always cut short.                 *)
Fairness ==
    /\ \A w \in Workers :
          /\ WF_vars(Reads(w) \/ Writes(w) \/ GiveUp(w))
          /\ WF_vars(Release(w))
    /\ \A w \in Timers :
          /\ SF_vars(TimerLocks(w))
          /\ SF_vars(DecideReconcile(w))
          /\ SF_vars(WriteClose(w))

FairSpec == Spec /\ Fairness

(* An active season that has ended is closed, or given a later end, however  *)
(* busy the administrators keep the lock.                                    *)
ExpiredCloses ==
    \A s \in Slugs : status[s] = "active" /\ endAt[s] <= clock
                        ~> ~(status[s] = "active" /\ endAt[s] <= clock)

=============================================================================
