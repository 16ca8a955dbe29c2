---------------------------- MODULE AdminConsole ----------------------------
(***************************************************************************)
(* The back office: administrators sign in by a link sent to their mail,   *)
(* every request passes AdminAuthGuard and is then handled, and what the   *)
(* handlers change here are the users themselves, the memberships of        *)
(* players and the news.                                                   *)
(*                                                                         *)
(* Following a link is three statements without a transaction: find it,    *)
(* open a session, mark it used.  Guard and handler are two steps as well: *)
(* somebody may be demoted between them.  A handler is one transaction,    *)
(* the audit entry included; memberships are changed under the lock of     *)
(* their row, after checks on their effective status.                      *)
(***************************************************************************)
EXTENDS Naturals, FiniteSets

CONSTANTS
    Users,        \* email addresses of back office users
    Players,      \* player accounts
    Articles,     \* rows of news that may ever be created
    Links,        \* magic links that may ever be issued
    Sessions,     \* sessions that may ever be opened
    Requests,     \* HTTP requests that can be in flight at a time
    Root,         \* an administrator the database starts with
    Key,          \* who acts with the x-admin-key header
    MaxEntries,   \* bound on the audited changes of one membership
    NoOne,        \* a NULL user
    NoLink        \* a session or request without a link

ASSUME UsersAssumption == Root \in Users /\ Key \notin Users /\ NoOne \notin Users \cup {Key}
ASSUME LinksAssumption == NoLink \notin Links /\ MaxEntries \in Nat
ASSUME FiniteAssumption == IsFiniteSet(Requests) /\ IsFiniteSet(Sessions)

VARIABLES
    role,         \* users.role, "NONE" when there is no such row
    link,         \* magic_links: whose it is and whether it can be followed
    session,      \* sessions: whose it is and the link that opened it (history)
    request,      \* requests in flight
    membership,   \* player_memberships, one row per account
    entries,      \* audit entries of the player's membership
    news          \* rows of news: the status, and whether published_at is set

authVars == <<link, session>>
members  == <<membership, entries>>
vars     == <<role, authVars, request, members, news>>

-----------------------------------------------------------------------------
Roles == {"NONE", "editor", "admin"}

LinkRows == [user : Users \cup {NoOne}, status : {"UNISSUED", "USABLE", "USED", "EXPIRED"}]

SessionRows == [user : Users \cup {NoOne}, from : Links \cup {NoLink}, expired : BOOLEAN]

RequestStates == [phase : {"IDLE", "FOUND", "OPENED", "ADMITTED"},
                  link : Links \cup {NoLink}, actor : Users \cup {Key, NoOne}]

Idle == [phase |-> "IDLE", link |-> NoLink, actor |-> NoOne]

MembershipRows ==
    [status    : {"NONE", "inactive", "active", "suspended", "expired", "cancelled"},
     expires   : {"NULL", "AHEAD", "PASSED"},
     started   : BOOLEAN, suspended : BOOLEAN, cancelled : BOOLEAN]

NoMembership == [status |-> "NONE", expires |-> "NULL",
                 started |-> FALSE, suspended |-> FALSE, cancelled |-> FALSE]

TypeOK ==
    /\ role       \in [Users -> Roles]
    /\ link       \in [Links -> LinkRows]
    /\ session    \in [Sessions -> SessionRows]
    /\ request    \in [Requests -> RequestStates]
    /\ membership \in [Players -> MembershipRows]
    /\ entries    \in [Players -> Nat]
    /\ news       \in [Articles -> [status : {"NONE", "draft", "published", "DELETED"}, dated : BOOLEAN]]

(* A membership row written before the console existed is inactive. *)
Init ==
    /\ role       = [u \in Users |-> IF u = Root THEN "admin" ELSE "NONE"]
    /\ link       = [l \in Links |-> [user |-> NoOne, status |-> "UNISSUED"]]
    /\ session    = [s \in Sessions |-> [user |-> NoOne, from |-> NoLink, expired |-> FALSE]]
    /\ request    = [q \in Requests |-> Idle]
    /\ membership \in [Players -> {NoMembership} \cup
                          {[NoMembership EXCEPT !.status = "inactive", !.expires = e] : e \in {"NULL", "AHEAD"}}]
    /\ entries    = [p \in Players |-> 0]
    /\ news       = [n \in Articles |-> [status |-> "NONE", dated |-> FALSE]]

-----------------------------------------------------------------------------
(* findEligibleAdminByEmail *)
EligibleAdmin(u) == role[u] = "admin"

CreateLink(l, u) ==
    /\ link[l].status = "UNISSUED"
    /\ link' = [link EXCEPT ![l] = [user |-> u, status |-> "USABLE"]]

(* AdminMagicLinkRequestService.request: only an administrator gets a link.  *)
(* A failing delivery leaves a link that nobody follows.                     *)
RequestLink(l, u) ==
    /\ EligibleAdmin(u)
    /\ CreateLink(l, u)
    /\ UNCHANGED <<role, session, request, members, news>>

(* Mutant: a used link is found as long as it has not expired. *)
UsableLinkAgain(l) == link[l].status \in {"USABLE", "USED"}

(* findUsableMagicLinkByToken *)
UsableLink(l) == link[l].status = "USABLE"

(* consume: the link's user and his role of now; somebody who is no          *)
(* administrator any more is forbidden.                                      *)
FindLink(q, l) ==
    /\ request[q].phase = "IDLE"
    /\ UsableLink(l)
    /\ role[link[l].user] = "admin"
    /\ request' = [request EXCEPT ![q] = [phase |-> "FOUND", link |-> l, actor |-> link[l].user]]
    /\ UNCHANGED <<role, authVars, members, news>>

(* createSessionForUser *)
OpenSession(q, s) ==
    /\ request[q].phase = "FOUND"
    /\ session[s].user = NoOne
    /\ session' = [session EXCEPT ![s].user = request[q].actor, ![s].from = request[q].link]
    /\ request' = [request EXCEPT ![q].phase = "OPENED"]
    /\ UNCHANGED <<role, link, members, news>>

(* markMagicLinkAsUsed does not look whether it already is. *)
MarkUsed(q) ==
    /\ request[q].phase = "OPENED"
    /\ link'    = [link EXCEPT ![request[q].link].status = "USED"]
    /\ request' = [request EXCEPT ![q] = Idle]
    /\ UNCHANGED <<role, session, members, news>>

(* The time to live of a link or of a session is over. *)
ExpireLink(l) ==
    /\ link[l].status = "USABLE"
    /\ link' = [link EXCEPT ![l].status = "EXPIRED"]
    /\ UNCHANGED <<role, session, request, members, news>>

ExpireSession(s) ==
    /\ session[s].user # NoOne
    /\ ~session[s].expired
    /\ session' = [session EXCEPT ![s].expired = TRUE]
    /\ UNCHANGED <<role, link, request, members, news>>

-----------------------------------------------------------------------------
(* findActiveSessionByToken *)
ActiveSession(s) == session[s].user # NoOne /\ ~session[s].expired

(* Mutant: the role was good when the session was opened. *)
AnySession(s) == ActiveSession(s)

(* resolveSessionAdmin: the role is the one the user has now. *)
SessionAdmin(s) == ActiveSession(s) /\ role[session[s].user] = "admin"

Admit(q, actor) ==
    /\ request[q].phase = "IDLE"
    /\ request' = [request EXCEPT ![q] = [Idle EXCEPT !.phase = "ADMITTED", !.actor = actor]]
    /\ UNCHANGED <<role, authVars, members, news>>

(* AdminAuthGuard *)
AdmitBySession(q, s) == SessionAdmin(s) /\ Admit(q, session[s].user)

(* resolveAdmin: the key of the configuration will do. *)
AdmitByKey(q) == Admit(q, Key)

(* The handler refuses its input, the transaction fails, or the process dies *)
(* before the next statement of a link's consumption.                        *)
Drop(q) ==
    /\ request[q].phase # "IDLE"
    /\ request' = [request EXCEPT ![q] = Idle]
    /\ UNCHANGED <<role, authVars, members, news>>

Admitted(q) == request[q].phase = "ADMITTED" /\ request' = [request EXCEPT ![q] = Idle]

(* AdminUsersRepository: the email is unique. *)
InsertUser(u, new) ==
    /\ role[u] = "NONE"
    /\ role' = [role EXCEPT ![u] = new]

SetUser(u, new) ==
    /\ role[u] # "NONE"
    /\ role' = [role EXCEPT ![u] = new]

CreateUser(q, u, new) ==
    /\ Admitted(q)
    /\ InsertUser(u, new)
    /\ UNCHANGED <<authVars, members, news>>

(* Nothing keeps the last administrator, or the one who asks, from being     *)
(* demoted.                                                                  *)
UpdateUser(q, u, new) ==
    /\ Admitted(q)
    /\ SetUser(u, new)
    /\ UNCHANGED <<authVars, members, news>>

-----------------------------------------------------------------------------
(* resolveMembershipEffectiveStatus: the column, unless the time is up. *)
EffectiveStatus(m) ==
    IF m.status \in {"NONE", "expired", "cancelled"} \/ m.expires # "PASSED"
    THEN m.status
    ELSE "expired"

(* AdminAuditService.insert, in the transaction of the change. *)
Audit(p) ==
    /\ entries[p] < MaxEntries
    /\ entries' = [entries EXCEPT ![p] = @ + 1]

Granted(expires) == [NoMembership EXCEPT !.status = "active", !.expires = expires, !.started = TRUE]

(* Mutant: a second grant renews the row there is. *)
RenewMembership(p, expires) ==
    /\ expires # "PASSED"
    /\ membership' = [membership EXCEPT ![p] = Granted(expires)]
    /\ Audit(p)

(* grantMembership: an expiry that is still ahead, and no row yet. *)
GrantMembership(p, expires) ==
    /\ expires # "PASSED"
    /\ membership[p].status = "NONE"
    /\ membership' = [membership EXCEPT ![p] = Granted(expires)]
    /\ Audit(p)

(* POST /admin/memberships *)
Grant(q, p, expires) ==
    /\ Admitted(q)
    /\ GrantMembership(p, expires)
    /\ UNCHANGED <<role, authVars, news>>

(* assertMembershipCan...: what the effective status must be. *)
Allowed(action) ==
    CASE action = "activate"   -> {"inactive"}
      [] action = "suspend"    -> {"active"}
      [] action = "reactivate" -> {"suspended"}
      [] action = "cancel"     -> {"active", "suspended"}

(* Mutant: a reactivated membership keeps the date of its suspension. *)
ChangedKeepingDate(m, action) ==
    CASE action = "activate"   -> [m EXCEPT !.status = "active", !.started = TRUE, !.suspended = FALSE]
      [] action = "suspend"    -> [m EXCEPT !.status = "suspended", !.suspended = TRUE]
      [] action = "reactivate" -> [m EXCEPT !.status = "active"]
      [] action = "cancel"     -> [m EXCEPT !.status = "cancelled", !.cancelled = TRUE]

(* The columns each action writes. *)
Changed(m, action) ==
    CASE action = "activate"   -> [m EXCEPT !.status = "active", !.started = TRUE, !.suspended = FALSE]
      [] action = "suspend"    -> [m EXCEPT !.status = "suspended", !.suspended = TRUE]
      [] action = "reactivate" -> [m EXCEPT !.status = "active", !.suspended = FALSE]
      [] action = "cancel"     -> [m EXCEPT !.status = "cancelled", !.cancelled = TRUE]

(* transitionMembership, under the lock of the row. *)
TransitionMembership(p, action) ==
    /\ EffectiveStatus(membership[p]) \in Allowed(action)
    /\ membership' = [membership EXCEPT ![p] = Changed(@, action)]
    /\ Audit(p)

(* POST /admin/memberships/:id/<action> *)
RunLifecycleAction(q, p, action) ==
    /\ Admitted(q)
    /\ TransitionMembership(p, action)
    /\ UNCHANGED <<role, authVars, news>>

(* The database's clock reaches expires_at; the row does not change. *)
TimeUp(p) ==
    /\ membership[p].expires = "AHEAD"
    /\ membership' = [membership EXCEPT ![p].expires = "PASSED"]
    /\ UNCHANGED <<role, authVars, request, entries, news>>

-----------------------------------------------------------------------------
(* A new article is a draft; its slug is unique. *)
InsertNews(n) ==
    /\ news[n].status = "NONE"
    /\ news' = [news EXCEPT ![n].status = "draft"]

(* Any text changes, the status never does. *)
SetText(n) == news[n].status \in {"draft", "published"} /\ UNCHANGED news

(* publish: of a draft; an older date stays. *)
Publish(n) ==
    /\ news[n].status = "draft"
    /\ news' = [news EXCEPT ![n] = [status |-> "published", dated |-> TRUE]]

Unpublish(n) ==
    /\ news[n].status = "published"
    /\ news' = [news EXCEPT ![n] = [status |-> "draft", dated |-> FALSE]]

Delete(n) ==
    /\ news[n].status \in {"draft", "published"}
    /\ news' = [news EXCEPT ![n] = [status |-> "DELETED", dated |-> FALSE]]

(* POST /admin/news *)
CreateNews(q, n) ==
    /\ Admitted(q)
    /\ InsertNews(n)
    /\ UNCHANGED <<role, authVars, members>>

(* PATCH /admin/news/:id *)
UpdateNews(q, n) ==
    /\ Admitted(q)
    /\ SetText(n)
    /\ UNCHANGED <<role, authVars, members>>

(* POST /admin/news/:id/publish and unpublish, DELETE /admin/news/:id *)
ChangeNews(q, n) ==
    /\ Admitted(q)
    /\ Publish(n) \/ Unpublish(n) \/ Delete(n)
    /\ UNCHANGED <<role, authVars, members>>

-----------------------------------------------------------------------------
LifecycleActions == {"activate", "suspend", "reactivate", "cancel"}

Next ==
    \/ \E l \in Links : ExpireLink(l) \/ \E u \in Users : RequestLink(l, u)
    \/ \E s \in Sessions : ExpireSession(s)
    \/ \E p \in Players : TimeUp(p)
    \/ \E q \in Requests :
          \/ \E l \in Links : FindLink(q, l)
          \/ \E s \in Sessions : OpenSession(q, s) \/ AdmitBySession(q, s)
          \/ MarkUsed(q)
          \/ AdmitByKey(q)
          \/ Drop(q)
          \/ \E u \in Users, new \in Roles \ {"NONE"} : CreateUser(q, u, new) \/ UpdateUser(q, u, new)
          \/ \E n \in Articles : CreateNews(q, n) \/ UpdateNews(q, n) \/ ChangeNews(q, n)
          \/ \E p \in Players :
                \/ \E expires \in {"NULL", "AHEAD", "PASSED"} : Grant(q, p, expires)
                \/ \E action \in LifecycleActions : RunLifecycleAction(q, p, action)

Spec == Init /\ [][Next]_vars

-----------------------------------------------------------------------------
Following(l) == {q \in Requests : request[q].phase = "FOUND" /\ request[q].link = l}
OpenedBy(l)  == {s \in Sessions : session[s].from = l}

(* A link that was followed to its end is spent: it opens no session for     *)
(* anybody who comes later.  Only requests that had found it before it was   *)
(* marked used still open theirs, at most one each; the three statements of  *)
(* consume leave no other way in, whatever crashes between them.             *)
LinkSpent ==
    [][\A l \in Links : link[l].status \in {"USED", "EXPIRED"} =>
          /\ Following(l)' \subseteq Following(l)
          /\ Cardinality(OpenedBy(l)') + Cardinality(Following(l)')
                <= Cardinality(OpenedBy(l)) + Cardinality(Following(l))]_vars

(* Demotion cuts off: while somebody is no administrator the requests that   *)
(* act in his name only become fewer, although his sessions live on and his  *)
(* links stay usable; what was admitted before may still finish.             *)
DemotionCutsOff ==
    [][\A u \in Users : role[u] # "admin" =>
          {q \in Requests : request'[q].actor = u} \subseteq {q \in Requests : request[q].actor = u}]_vars

(* ContentNewsRepository: what the public sees. *)
PublicNews == {n \in Articles : news[n].status = "published"}

(* The date columns tell the story of the row however often it is suspended  *)
(* and reactivated: suspended_at belongs to a suspension that still stands,  *)
(* or stood when the membership was cancelled.  And what the content pages   *)
(* list has the date they order it by.                                       *)
DatesTellTheStory ==
    /\ \A p \in Players : LET m == membership[p] IN
        /\ m.cancelled <=> m.status = "cancelled"
        /\ m.started <=> m.status \in {"active", "suspended", "cancelled"}
        /\ m.status = "suspended" => m.suspended
        /\ m.status \in {"NONE", "inactive", "active"} => ~m.suspended
    /\ \A n \in Articles : n \in PublicNews <=> news[n].dated

StandingOf(m) ==
    CASE EffectiveStatus(m) = "NONE"                      -> "NONE"
      [] EffectiveStatus(m) = "inactive"                  -> "INACTIVE"
      [] EffectiveStatus(m) = "active"                    -> "ACTIVE"
      [] EffectiveStatus(m) = "suspended"                 -> "SUSPENDED"
      [] EffectiveStatus(m) \in {"expired", "cancelled"}  -> "ENDED"

Ledger == INSTANCE MembershipLedger WITH standing <- [p \in Players |-> StandingOf(membership[p])]

(* Rows, clocks, repeated grants and racing administrators come to no more   *)
(* than MembershipLedger: every change of standing but the passing of time   *)
(* is one audited move, and a membership that ended never comes back.        *)
ImplementsLedger == Ledger!Spec

=============================================================================
