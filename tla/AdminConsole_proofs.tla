------------------------- MODULE AdminConsole_proofs -------------------------
(***************************************************************************)
(* Theorems about AdminConsole, for any users, players, articles, links,   *)
(* sessions and requests.                                                  *)
(***************************************************************************)
EXTENDS AdminConsole, FiniteSetTheorems, TLAPS

-----------------------------------------------------------------------------
(* A link that was issued is somebody's, a request that follows a link acts  *)
(* for a user and the link was issued, and a session that was not opened yet *)
(* has no link.                                                              *)
Owned ==
    /\ \A l \in Links : link[l].status # "UNISSUED" => link[l].user \in Users
    /\ \A q \in Requests : request[q].phase \in {"FOUND", "OPENED"} =>
          /\ request[q].actor \in Users
          /\ request[q].link \in Links /\ link[request[q].link].status # "UNISSUED"
    /\ \A s \in Sessions : session[s].user = NoOne => session[s].from = NoLink

TypeInv == TypeOK /\ Owned

LEMMA InitTyped == Init => TypeInv
<1> SUFFICES ASSUME Init PROVE TypeInv
    OBVIOUS
<1>1. \A e \in {"NULL", "AHEAD"} :
          [NoMembership EXCEPT !.status = "inactive", !.expires = e] \in MembershipRows
    BY DEF NoMembership, MembershipRows
<1>2. NoMembership \in MembershipRows
    BY DEF NoMembership, MembershipRows
<1>3. membership \in [Players -> MembershipRows]
    BY <1>1, <1>2, Zenon DEF Init
<1>4. TypeOK
    BY <1>3 DEF Init, TypeOK, Roles, LinkRows, SessionRows, RequestStates, Idle
<1>5. Owned
    BY DEF Init, Owned, Idle
<1>6. QED
    BY <1>4, <1>5 DEF TypeInv

(* The rows a membership can be given are rows.                              *)
LEMMA MembershipTyped ==
    ASSUME TypeInv, NEW p \in Players
    PROVE  /\ \A expires \in {"NULL", "AHEAD", "PASSED"} :
                 GrantMembership(p, expires) => membership' \in [Players -> MembershipRows]
           /\ \A action \in LifecycleActions :
                 TransitionMembership(p, action) => membership' \in [Players -> MembershipRows]
           /\ TimeUp(p) => membership' \in [Players -> MembershipRows]
<1>1. membership \in [Players -> MembershipRows]
    BY DEF TypeInv, TypeOK
<1>2. \A expires \in {"NULL", "AHEAD", "PASSED"} : Granted(expires) \in MembershipRows
    BY DEF Granted, NoMembership, MembershipRows
<1>3. \A action \in LifecycleActions : Changed(membership[p], action) \in MembershipRows
    BY <1>1 DEF Changed, LifecycleActions, MembershipRows
<1>4. [membership[p] EXCEPT !.expires = "PASSED"] \in MembershipRows
    BY <1>1 DEF MembershipRows
<1>5. \A expires \in {"NULL", "AHEAD", "PASSED"} :
          GrantMembership(p, expires) => membership' \in [Players -> MembershipRows]
    BY <1>1, <1>2 DEF GrantMembership
<1>6. \A action \in LifecycleActions :
          TransitionMembership(p, action) => membership' \in [Players -> MembershipRows]
    BY <1>1, <1>3 DEF TransitionMembership
<1>7. TimeUp(p) => membership' \in [Players -> MembershipRows]
    BY <1>1, <1>4 DEF TimeUp
<1>8. QED
    BY <1>5, <1>6, <1>7

(* An audit entry is counted. *)
LEMMA AuditTyped ==
    ASSUME TypeInv, NEW p \in Players, Audit(p)
    PROVE  entries' \in [Players -> Nat]
BY DEF TypeInv, TypeOK, Audit

(* What a step does, by the columns it may write.                            *)
LinkStep(l) ==
    \/ ExpireLink(l)
    \/ \E u \in Users : RequestLink(l, u)

RequestStep(q) ==
    \/ \E l \in Links : FindLink(q, l)
    \/ \E s \in Sessions : AdmitBySession(q, s)
    \/ AdmitByKey(q)
    \/ Drop(q)

UserStep(q) ==
    \E u \in Users, new \in Roles \ {"NONE"} : CreateUser(q, u, new) \/ UpdateUser(q, u, new)

NewsStep(q) ==
    \E n \in Articles : CreateNews(q, n) \/ UpdateNews(q, n) \/ ChangeNews(q, n)

MemberStep(q, p) ==
    \/ \E expires \in {"NULL", "AHEAD", "PASSED"} : Grant(q, p, expires)
    \/ \E action \in LifecycleActions : RunLifecycleAction(q, p, action)

LEMMA Steps ==
    ASSUME Next
    PROVE  \/ \E l \in Links : LinkStep(l)
           \/ \E s \in Sessions : ExpireSession(s)
           \/ \E p \in Players : TimeUp(p)
           \/ \E q \in Requests : RequestStep(q)
           \/ \E q \in Requests, s \in Sessions : OpenSession(q, s)
           \/ \E q \in Requests : MarkUsed(q)
           \/ \E q \in Requests : UserStep(q)
           \/ \E q \in Requests : NewsStep(q)
           \/ \E q \in Requests, p \in Players : MemberStep(q, p)
<1>1. CASE \E l \in Links : ExpireLink(l) \/ \E u \in Users : RequestLink(l, u)
    BY <1>1 DEF LinkStep
<1>2. ASSUME NEW q \in Requests,
             \/ \E l \in Links : FindLink(q, l)
             \/ \E s \in Sessions : OpenSession(q, s) \/ AdmitBySession(q, s)
             \/ MarkUsed(q)
             \/ AdmitByKey(q)
             \/ Drop(q)
             \/ \E u \in Users, new \in Roles \ {"NONE"} : CreateUser(q, u, new) \/ UpdateUser(q, u, new)
             \/ \E n \in Articles : CreateNews(q, n) \/ UpdateNews(q, n) \/ ChangeNews(q, n)
             \/ \E p \in Players :
                   \/ \E expires \in {"NULL", "AHEAD", "PASSED"} : Grant(q, p, expires)
                   \/ \E action \in LifecycleActions : RunLifecycleAction(q, p, action)
      PROVE  \/ RequestStep(q) \/ MarkUsed(q) \/ UserStep(q) \/ NewsStep(q)
             \/ \E s \in Sessions : OpenSession(q, s)
             \/ \E p \in Players : MemberStep(q, p)
    BY <1>2, Zenon DEF RequestStep, UserStep, NewsStep, MemberStep
<1>3. QED
    BY <1>1, <1>2 DEF Next

LEMMA TypeStep == TypeInv /\ [Next]_vars => TypeInv'
<1> SUFFICES ASSUME TypeInv, [Next]_vars PROVE TypeInv'
    OBVIOUS
<1> USE DEF TypeInv, TypeOK, Owned
<1>1. CASE UNCHANGED vars
    BY <1>1 DEF vars, authVars, members
<1>2. ASSUME NEW l \in Links, LinkStep(l) PROVE TypeInv'
    <2>1. ASSUME ExpireLink(l) PROVE TypeInv'
        <3>1. link' \in [Links -> LinkRows] /\ link'[l].user = link[l].user
            BY <2>1 DEF ExpireLink, LinkRows
        <3>2. QED
            BY <2>1, <3>1 DEF ExpireLink, members
    <2>2. ASSUME NEW u \in Users, RequestLink(l, u) PROVE TypeInv'
        BY <2>2 DEF RequestLink, CreateLink, LinkRows, members
    <2>3. QED
        BY <1>2, <2>1, <2>2 DEF LinkStep
<1>3. ASSUME NEW s \in Sessions, ExpireSession(s) PROVE TypeInv'
    BY <1>3 DEF ExpireSession, SessionRows, members
<1>4. ASSUME NEW p \in Players, TimeUp(p) PROVE TypeInv'
    <2>1. membership' \in [Players -> MembershipRows]
        BY <1>4, MembershipTyped
    <2>2. QED
        BY <1>4, <2>1 DEF TimeUp, authVars
<1>5. ASSUME NEW q \in Requests, RequestStep(q) PROVE TypeInv'
    <2>1. ASSUME NEW l \in Links, FindLink(q, l) PROVE TypeInv'
        BY <2>1 DEF FindLink, UsableLink, RequestStates, authVars, members
    <2>2. ASSUME NEW s \in Sessions, AdmitBySession(q, s) PROVE TypeInv'
        <3>1. session[s].user \in Users
            BY <2>2 DEF AdmitBySession, SessionAdmin, ActiveSession, SessionRows
        <3>2. QED
            BY <2>2, <3>1 DEF AdmitBySession, Admit, Idle, RequestStates, authVars, members
    <2>3. CASE AdmitByKey(q)
        BY <2>3 DEF AdmitByKey, Admit, Idle, RequestStates, authVars, members
    <2>4. CASE Drop(q)
        BY <2>4 DEF Drop, Idle, RequestStates, authVars, members
    <2>5. QED
        BY <1>5, <2>1, <2>2, <2>3, <2>4 DEF RequestStep
<1>6. ASSUME NEW q \in Requests, NEW s \in Sessions, OpenSession(q, s) PROVE TypeInv'
    <2>1. request[q].actor \in Users /\ request[q].link \in Links
        BY <1>6 DEF OpenSession
    <2>2. session' = [session EXCEPT ![s] = [@ EXCEPT !.user = request[q].actor, !.from = request[q].link]]
        BY <1>6 DEF OpenSession, SessionRows
    <2>3. session' \in [Sessions -> SessionRows]
        <3>1. [session[s] EXCEPT !.user = request[q].actor, !.from = request[q].link] \in SessionRows
            BY <2>1 DEF SessionRows
        <3>2. QED
            BY <2>2, <3>1
    <2>4. \A x \in Sessions : session'[x].user = NoOne => session'[x].from = NoLink
        BY <2>1, <2>2, UsersAssumption DEF SessionRows
    <2>5. request' \in [Requests -> RequestStates]
        BY <1>6 DEF OpenSession, RequestStates
    <2>6. QED
        BY <1>6, <2>1, <2>3, <2>4, <2>5 DEF OpenSession, RequestStates, members
<1>7. ASSUME NEW q \in Requests, MarkUsed(q) PROVE TypeInv'
    <2>1. request[q].link \in Links /\ link[request[q].link] \in LinkRows
        BY <1>7 DEF MarkUsed
    <2>2. link' = [link EXCEPT ![request[q].link] = [@ EXCEPT !.status = "USED"]]
        BY <1>7, <2>1 DEF MarkUsed
    <2>3. link' \in [Links -> LinkRows]
        BY <2>1, <2>2 DEF LinkRows
    <2>4. \A l \in Links : link'[l].user = link[l].user /\
              (link'[l].status # "UNISSUED" => l = request[q].link \/ link[l].status # "UNISSUED")
        BY <2>1, <2>2 DEF LinkRows
    <2>5. request' \in [Requests -> RequestStates] /\ request' = [request EXCEPT ![q] = Idle]
        BY <1>7 DEF MarkUsed, Idle, RequestStates
    <2>6. link[request[q].link].status # "UNISSUED"
        BY <1>7 DEF MarkUsed
    <2>7. Owned'
        BY <1>7, <2>4, <2>5, <2>6 DEF MarkUsed, Idle
    <2>8. QED
        BY <1>7, <2>3, <2>5, <2>7 DEF MarkUsed, members
<1>8. ASSUME NEW q \in Requests, UserStep(q) PROVE TypeInv'
    <2>1. /\ request' = [request EXCEPT ![q] = Idle] /\ UNCHANGED <<authVars, members, news>>
          /\ \E u \in Users, new \in Roles : role' = [role EXCEPT ![u] = new]
        BY <1>8 DEF UserStep, CreateUser, UpdateUser, InsertUser, SetUser, Admitted
    <2>2. role' \in [Users -> Roles]
        BY <2>1
    <2>3. QED
        BY <2>1, <2>2 DEF Idle, RequestStates, authVars, members
<1>9. ASSUME NEW q \in Requests, NewsStep(q) PROVE TypeInv'
    <2>1. request' = [request EXCEPT ![q] = Idle] /\ UNCHANGED <<role, authVars, members>>
        BY <1>9 DEF NewsStep, CreateNews, UpdateNews, ChangeNews, Admitted
    <2>2. news' \in [Articles -> [status : {"NONE", "draft", "published", "DELETED"}, dated : BOOLEAN]]
        <3>1. PICK n \in Articles : InsertNews(n) \/ SetText(n) \/ Publish(n) \/ Unpublish(n) \/ Delete(n)
            BY <1>9 DEF NewsStep, CreateNews, UpdateNews, ChangeNews
        <3>2. \/ UNCHANGED news
              \/ \E row \in [status : {"NONE", "draft", "published", "DELETED"}, dated : BOOLEAN] :
                    news' = [news EXCEPT ![n] = row]
            BY <3>1 DEF InsertNews, SetText, Publish, Unpublish, Delete
        <3>3. QED
            BY <3>2
    <2>3. QED
        BY <2>1, <2>2 DEF Idle, RequestStates, authVars, members
<1>10. ASSUME NEW q \in Requests, NEW p \in Players, MemberStep(q, p) PROVE TypeInv'
    <2>1. /\ request' = [request EXCEPT ![q] = Idle] /\ UNCHANGED <<role, authVars, news>>
          /\ membership' \in [Players -> MembershipRows]
          /\ Audit(p)
        BY <1>10, MembershipTyped
        DEF MemberStep, Grant, GrantMembership, RunLifecycleAction, TransitionMembership, Admitted
    <2>2. entries' \in [Players -> Nat]
        BY <2>1, AuditTyped
    <2>3. QED
        BY <2>1, <2>2 DEF Idle, RequestStates, authVars
<1>11. QED
    BY <1>1, <1>2, <1>3, <1>4, <1>5, <1>6, <1>7, <1>8, <1>9, <1>10, Steps

(* Every reachable state is well typed: a followed link is a user's, and so  *)
(* is every session.                                                         *)
THEOREM TypeCorrect == Spec => []TypeOK
<1>1. TypeInv => TypeOK
    BY DEF TypeInv
<1>2. QED
    BY InitTyped, TypeStep, <1>1, PTL DEF Spec

-----------------------------------------------------------------------------
(* Only a link that can be followed and an open session of somebody who is   *)
(* an administrator now make a request act in a user's name.                 *)
LEMMA CutOffStep ==
    ASSUME TypeInv, [Next]_vars, NEW u \in Users, role[u] # "admin", NEW q \in Requests,
           request'[q].actor = u
    PROVE  request[q].actor = u
<1> USE DEF TypeInv, TypeOK
<1>1. Idle.actor = NoOne /\ NoOne # u /\ Key # u
    BY UsersAssumption DEF Idle
<1>2. CASE UNCHANGED vars
    BY <1>2 DEF vars
<1>3. CASE \/ \E l \in Links : LinkStep(l)
           \/ \E s \in Sessions : ExpireSession(s)
           \/ \E p \in Players : TimeUp(p)
    BY <1>3 DEF LinkStep, ExpireLink, RequestLink, ExpireSession, TimeUp
<1>4. ASSUME NEW x \in Requests, RequestStep(x) PROVE request[q].actor = u
    <2>1. ASSUME NEW l \in Links, FindLink(x, l) PROVE request[q].actor = u
        BY <2>1 DEF FindLink
    <2>2. ASSUME NEW s \in Sessions, AdmitBySession(x, s) PROVE request[q].actor = u
        BY <2>2, <1>1 DEF AdmitBySession, SessionAdmin, Admit, Idle
    <2>3. CASE AdmitByKey(x)
        BY <2>3, <1>1 DEF AdmitByKey, Admit, Idle
    <2>4. CASE Drop(x)
        BY <2>4, <1>1 DEF Drop
    <2>5. QED
        BY <1>4, <2>1, <2>2, <2>3, <2>4 DEF RequestStep
<1>5. ASSUME NEW x \in Requests, NEW s \in Sessions, OpenSession(x, s) PROVE request[q].actor = u
    BY <1>5 DEF OpenSession, RequestStates
<1>6. ASSUME NEW x \in Requests,
             MarkUsed(x) \/ UserStep(x) \/ NewsStep(x) \/ \E p \in Players : MemberStep(x, p)
      PROVE  request[q].actor = u
    <2>1. request' = [request EXCEPT ![x] = Idle]
        BY <1>6 DEF MarkUsed, UserStep, CreateUser, UpdateUser, NewsStep, CreateNews, UpdateNews,
           ChangeNews, MemberStep, Grant, RunLifecycleAction, Admitted
    <2>2. QED
        BY <2>1, <1>1
<1>7. QED
    BY <1>2, <1>3, <1>4, <1>5, <1>6, Steps

(* While somebody is no administrator, the requests in his name only become  *)
(* fewer, whatever sessions and links he still has.                          *)
THEOREM CutOff == Spec => DemotionCutsOff
<1>1. TypeInv /\ [Next]_vars =>
          [\A u \in Users : role[u] # "admin" =>
              {q \in Requests : request'[q].actor = u} \subseteq {q \in Requests : request[q].actor = u}]_vars
    BY CutOffStep
<1>2. QED
    BY <1>1, InitTyped, TypeStep, PTL DEF Spec, DemotionCutsOff

-----------------------------------------------------------------------------
(* The dates of one membership. *)
Told(m) ==
    /\ m.cancelled <=> m.status = "cancelled"
    /\ m.started <=> m.status \in {"active", "suspended", "cancelled"}
    /\ m.status = "suspended" => m.suspended
    /\ m.status \in {"NONE", "inactive", "active"} => ~m.suspended

(* What can happen to a membership keeps its story straight.                 *)
LEMMA MembershipTold ==
    ASSUME NEW m \in MembershipRows, Told(m)
    PROVE  /\ \A expires \in {"NULL", "AHEAD", "PASSED"} : Told(Granted(expires))
           /\ \A action \in LifecycleActions :
                 EffectiveStatus(m) \in Allowed(action) => Told(Changed(m, action))
           /\ Told([m EXCEPT !.expires = "PASSED"])
<1>1. \A expires \in {"NULL", "AHEAD", "PASSED"} : Told(Granted(expires))
    BY DEF Told, Granted, NoMembership
<1>2. ASSUME NEW action \in LifecycleActions, EffectiveStatus(m) \in Allowed(action)
      PROVE  Told(Changed(m, action))
    <2>1. m.status = EffectiveStatus(m)
        BY <1>2 DEF EffectiveStatus, Allowed, LifecycleActions
    <2>2. CASE action = "activate"
        BY <1>2, <2>1, <2>2 DEF Told, Changed, Allowed, MembershipRows
    <2>3. CASE action = "suspend"
        BY <1>2, <2>1, <2>3 DEF Told, Changed, Allowed, MembershipRows
    <2>4. CASE action = "reactivate"
        BY <1>2, <2>1, <2>4 DEF Told, Changed, Allowed, MembershipRows
    <2>5. CASE action = "cancel"
        BY <1>2, <2>1, <2>5 DEF Told, Changed, Allowed, MembershipRows
    <2>6. QED
        BY <2>2, <2>3, <2>4, <2>5 DEF LifecycleActions
<1>3. Told([m EXCEPT !.expires = "PASSED"])
    BY DEF Told, MembershipRows
<1>4. QED
    BY <1>1, <1>2, <1>3

(* One step of memberships and news. *)
LEMMA MembershipSteps ==
    ASSUME TypeInv, [Next]_vars
    PROVE  \/ UNCHANGED <<membership, entries>>
           \/ \E p \in Players : TimeUp(p)
           \/ \E p \in Players, expires \in {"NULL", "AHEAD", "PASSED"} : GrantMembership(p, expires)
           \/ \E p \in Players, action \in LifecycleActions : TransitionMembership(p, action)
<1>1. CASE UNCHANGED vars
    BY <1>1 DEF vars, members
<1>2. CASE \/ \E l \in Links : LinkStep(l)
           \/ \E s \in Sessions : ExpireSession(s)
           \/ \E q \in Requests, s \in Sessions : OpenSession(q, s)
           \/ \E q \in Requests : MarkUsed(q)
    BY <1>2 DEF LinkStep, ExpireLink, RequestLink, ExpireSession, OpenSession, MarkUsed, members
<1>3. CASE \E q \in Requests : RequestStep(q)
    BY <1>3 DEF RequestStep, FindLink, AdmitBySession, AdmitByKey, Admit, Drop, members
<1>4. CASE \E q \in Requests : UserStep(q) \/ NewsStep(q)
    BY <1>4 DEF UserStep, CreateUser, UpdateUser, NewsStep, CreateNews, UpdateNews, ChangeNews, members
<1>5. ASSUME NEW q \in Requests, NEW p \in Players, MemberStep(q, p)
      PROVE  \/ \E expires \in {"NULL", "AHEAD", "PASSED"} : GrantMembership(p, expires)
             \/ \E action \in LifecycleActions : TransitionMembership(p, action)
    BY <1>5 DEF MemberStep, Grant, RunLifecycleAction
<1>6. QED
    BY <1>1, <1>2, <1>3, <1>4, <1>5, Steps

LEMMA NewsSteps ==
    ASSUME TypeInv, [Next]_vars
    PROVE  \/ UNCHANGED news
           \/ \E n \in Articles : InsertNews(n) \/ Publish(n) \/ Unpublish(n) \/ Delete(n)
<1>1. CASE UNCHANGED vars
    BY <1>1 DEF vars
<1>2. CASE \/ \E l \in Links : LinkStep(l)
           \/ \E s \in Sessions : ExpireSession(s)
           \/ \E p \in Players : TimeUp(p)
           \/ \E q \in Requests, s \in Sessions : OpenSession(q, s)
           \/ \E q \in Requests : MarkUsed(q)
    BY <1>2 DEF LinkStep, ExpireLink, RequestLink, ExpireSession, TimeUp, OpenSession, MarkUsed
<1>3. CASE \E q \in Requests : RequestStep(q) \/ UserStep(q) \/ \E p \in Players : MemberStep(q, p)
    BY <1>3 DEF RequestStep, FindLink, AdmitBySession, AdmitByKey, Admit, Drop,
       UserStep, CreateUser, UpdateUser, MemberStep, Grant, RunLifecycleAction
<1>4. ASSUME NEW q \in Requests, NewsStep(q)
      PROVE  \/ UNCHANGED news
             \/ \E n \in Articles : InsertNews(n) \/ Publish(n) \/ Unpublish(n) \/ Delete(n)
    BY <1>4 DEF NewsStep, CreateNews, UpdateNews, ChangeNews, SetText
<1>5. QED
    BY <1>1, <1>2, <1>3, <1>4, Steps

LEMMA StoryStep == TypeInv /\ DatesTellTheStory /\ [Next]_vars => DatesTellTheStory'
<1> SUFFICES ASSUME TypeInv, DatesTellTheStory, [Next]_vars PROVE DatesTellTheStory'
    OBVIOUS
<1>1. membership \in [Players -> MembershipRows] /\ \A p \in Players : Told(membership[p])
    BY DEF TypeInv, TypeOK, DatesTellTheStory, Told
<1>2. \A p \in Players : Told(membership'[p])
    <2>1. CASE UNCHANGED <<membership, entries>>
        BY <2>1, <1>1
    <2>2. ASSUME NEW p \in Players, TimeUp(p) PROVE \A x \in Players : Told(membership'[x])
        <3>1. membership' = [membership EXCEPT ![p] = [membership[p] EXCEPT !.expires = "PASSED"]]
            BY <2>2, <1>1 DEF TimeUp
        <3>2. Told([membership[p] EXCEPT !.expires = "PASSED"])
            BY <1>1, MembershipTold
        <3>3. QED
            BY <3>1, <3>2, <1>1
    <2>3. ASSUME NEW p \in Players, NEW expires \in {"NULL", "AHEAD", "PASSED"},
                 GrantMembership(p, expires)
          PROVE  \A x \in Players : Told(membership'[x])
        <3>1. membership' = [membership EXCEPT ![p] = Granted(expires)]
            BY <2>3 DEF GrantMembership
        <3>2. Told(Granted(expires))
            BY <1>1, MembershipTold
        <3>3. QED
            BY <3>1, <3>2, <1>1
    <2>4. ASSUME NEW p \in Players, NEW action \in LifecycleActions, TransitionMembership(p, action)
          PROVE  \A x \in Players : Told(membership'[x])
        <3>1. /\ membership' = [membership EXCEPT ![p] = Changed(membership[p], action)]
              /\ EffectiveStatus(membership[p]) \in Allowed(action)
            BY <2>4 DEF TransitionMembership
        <3>2. Told(Changed(membership[p], action))
            BY <1>1, <3>1, MembershipTold
        <3>3. QED
            BY <3>1, <3>2, <1>1
    <2>5. QED
        BY <2>1, <2>2, <2>3, <2>4, MembershipSteps
<1>3. \A n \in Articles : (news[n].status = "published") <=> news[n].dated
    BY DEF DatesTellTheStory, PublicNews
<1>4. \A n \in Articles : (news'[n].status = "published") <=> news'[n].dated
    <2>1. CASE UNCHANGED news
        BY <2>1, <1>3
    <2>2. ASSUME NEW n \in Articles, InsertNews(n) \/ Publish(n) \/ Unpublish(n) \/ Delete(n)
          PROVE  \A x \in Articles : (news'[x].status = "published") <=> news'[x].dated
        <3>1. \A x \in Articles : x # n => news'[x] = news[x]
            BY <2>2 DEF InsertNews, Publish, Unpublish, Delete, TypeInv, TypeOK
        <3>2. (news'[n].status = "published") <=> news'[n].dated
            BY <2>2, <1>3 DEF InsertNews, Publish, Unpublish, Delete, TypeInv, TypeOK
        <3>3. QED
            BY <3>1, <3>2, <1>3
    <2>3. QED
        BY <2>1, <2>2, NewsSteps
<1>5. QED
    BY <1>2, <1>4 DEF DatesTellTheStory, Told, PublicNews

(* However memberships are granted, suspended, reactivated and cancelled and *)
(* articles published and withdrawn, the date columns agree with the status. *)
THEOREM StoryTold == Spec => []DatesTellTheStory
<1>1. Init => DatesTellTheStory
    <2>1. \A e \in {"NULL", "AHEAD"} : Told([NoMembership EXCEPT !.status = "inactive", !.expires = e])
        BY DEF Told, NoMembership
    <2>2. Told(NoMembership)
        BY DEF Told, NoMembership
    <2>3. ASSUME Init PROVE \A p \in Players : Told(membership[p])
        <3>1. \A p \in Players :
                 membership[p] \in {NoMembership} \cup
                    {[NoMembership EXCEPT !.status = "inactive", !.expires = e] : e \in {"NULL", "AHEAD"}}
            BY <2>3, Zenon DEF Init
        <3>2. QED
            BY <3>1, <2>1, <2>2
    <2>4. Init => \A n \in Articles : n \in PublicNews <=> news[n].dated
        BY DEF Init, PublicNews
    <2>5. QED
        BY <2>3, <2>4 DEF DatesTellTheStory, Told
<1>2. QED
    BY <1>1, InitTyped, TypeStep, StoryStep, PTL DEF Spec

-----------------------------------------------------------------------------
LEMMA FollowingFinite ==
    ASSUME NEW l \in Links
    PROVE  IsFiniteSet(Following(l)) /\ IsFiniteSet(OpenedBy(l))
BY FiniteAssumption, FS_Subset DEF Following, OpenedBy

(* A step in which nobody finds link l and no session is opened from it.     *)
LEMMA OnlyFewer ==
    ASSUME NEW l \in Links, Following(l)' \subseteq Following(l), OpenedBy(l)' = OpenedBy(l)
    PROVE  Cardinality(OpenedBy(l)') + Cardinality(Following(l)')
              <= Cardinality(OpenedBy(l)) + Cardinality(Following(l))
<1>1. IsFiniteSet(Following(l)) /\ IsFiniteSet(OpenedBy(l))
    BY FollowingFinite
<1>2. IsFiniteSet(Following(l)') /\ Cardinality(Following(l)') <= Cardinality(Following(l))
    BY <1>1, FS_Subset
<1>3. /\ Cardinality(Following(l)) \in Nat /\ Cardinality(Following(l)') \in Nat
      /\ Cardinality(OpenedBy(l)) \in Nat
    BY <1>1, <1>2, FS_CardinalityType
<1>4. QED
    BY <1>2, <1>3

(* A request that had found the link opens its session: one fewer follows,   *)
(* one more is open.                                                         *)
LEMMA OpenedFromFollowing ==
    ASSUME TypeInv, NEW q \in Requests, NEW s \in Sessions, OpenSession(q, s),
           NEW l \in Links, request[q].link = l
    PROVE  /\ Following(l)' \subseteq Following(l)
           /\ Cardinality(OpenedBy(l)') + Cardinality(Following(l)')
                 <= Cardinality(OpenedBy(l)) + Cardinality(Following(l))
<1> USE DEF TypeInv, TypeOK, Owned
<1>1. q \in Following(l) /\ s \notin OpenedBy(l)
    BY LinksAssumption DEF OpenSession, Following, OpenedBy
<1>2. \A x \in Requests : x # q => request'[x] = request[x]
    BY DEF OpenSession
<1>3. request'[q].phase = "OPENED"
    BY DEF OpenSession, RequestStates
<1>4. Following(l)' = Following(l) \ {q}
    BY <1>2, <1>3 DEF Following
<1>5. \A x \in Sessions : x # s => session'[x] = session[x]
    BY DEF OpenSession
<1>6. session'[s].from = l
    BY DEF OpenSession, SessionRows
<1>7. OpenedBy(l)' = OpenedBy(l) \cup {s}
    BY <1>5, <1>6 DEF OpenedBy
<1>8. IsFiniteSet(Following(l)) /\ IsFiniteSet(OpenedBy(l))
    BY FollowingFinite
<1>9. Cardinality(Following(l)') = Cardinality(Following(l)) - 1
    BY <1>1, <1>4, <1>8, FS_RemoveElement
<1>10. Cardinality(OpenedBy(l)') = Cardinality(OpenedBy(l)) + 1
    BY <1>1, <1>7, <1>8, FS_AddElement
<1>11. Cardinality(Following(l)) \in Nat /\ Cardinality(OpenedBy(l)) \in Nat
    BY <1>8, FS_CardinalityType
<1>12. QED
    BY <1>4, <1>9, <1>10, <1>11

LEMMA SpentStep ==
    ASSUME TypeInv, [Next]_vars, NEW l \in Links, link[l].status \in {"USED", "EXPIRED"}
    PROVE  /\ Following(l)' \subseteq Following(l)
           /\ Cardinality(OpenedBy(l)') + Cardinality(Following(l)')
                 <= Cardinality(OpenedBy(l)) + Cardinality(Following(l))
<1> USE DEF TypeInv, TypeOK, Owned
<1>1. ASSUME NEW q \in Requests, NEW s \in Sessions, OpenSession(q, s), request[q].link # l
      PROVE  Following(l)' \subseteq Following(l) /\ OpenedBy(l)' = OpenedBy(l)
    <2>1. \A x \in Requests : request'[x].link = request[x].link /\
              (request'[x].phase = "FOUND" => request[x].phase = "FOUND")
        BY <1>1 DEF OpenSession, RequestStates
    <2>2. \A x \in Sessions : x # s => session'[x] = session[x]
        BY <1>1 DEF OpenSession
    <2>3. session[s].from # l /\ session'[s].from # l
        BY <1>1, LinksAssumption DEF OpenSession, SessionRows
    <2>4. QED
        BY <2>1, <2>2, <2>3 DEF Following, OpenedBy
<1>2. CASE ~\E q \in Requests, s \in Sessions : OpenSession(q, s)
    <2>1. OpenedBy(l)' = OpenedBy(l)
        <3>1. CASE \E s \in Sessions : ExpireSession(s)
            BY <3>1 DEF ExpireSession, SessionRows, OpenedBy
        <3>2. CASE \E q \in Requests : RequestStep(q) \/ UserStep(q) \/ NewsStep(q)
            BY <3>2 DEF RequestStep, FindLink, AdmitBySession, AdmitByKey, Admit, Drop, UserStep,
               CreateUser, UpdateUser, NewsStep, CreateNews, UpdateNews, ChangeNews, authVars, OpenedBy
        <3>3. CASE \/ \E x \in Links : LinkStep(x)
                   \/ \E p \in Players : TimeUp(p)
                   \/ \E q \in Requests : MarkUsed(q) \/ \E p \in Players : MemberStep(q, p)
                   \/ UNCHANGED vars
            BY <3>3 DEF LinkStep, ExpireLink, RequestLink, TimeUp, MarkUsed, MemberStep, Grant,
               RunLifecycleAction, authVars, vars, OpenedBy
        <3>4. QED
            BY <1>2, <3>1, <3>2, <3>3, Steps
    <2>2. Following(l)' \subseteq Following(l)
        <3>1. CASE \/ \E x \in Links : LinkStep(x)
                   \/ \E s \in Sessions : ExpireSession(s)
                   \/ \E p \in Players : TimeUp(p)
                   \/ UNCHANGED vars
            BY <3>1 DEF LinkStep, ExpireLink, RequestLink, ExpireSession, TimeUp, vars, Following
        <3>2. ASSUME NEW q \in Requests, NEW x \in Links, FindLink(q, x)
              PROVE  Following(l)' \subseteq Following(l)
            <4>1. x # l /\ request' = [request EXCEPT ![q] = [phase |-> "FOUND", link |-> x, actor |-> link[x].user]]
                BY <3>2 DEF FindLink, UsableLink
            <4>2. QED
                BY <4>1 DEF Following
        <3>3. ASSUME NEW q \in Requests, NEW row, row.phase # "FOUND", request' = [request EXCEPT ![q] = row]
              PROVE  Following(l)' \subseteq Following(l)
            BY <3>3 DEF Following
        <3>4. ASSUME NEW q \in Requests, RequestStep(q) PROVE Following(l)' \subseteq Following(l)
            BY <3>4, <3>2, <3>3 DEF RequestStep, AdmitBySession, AdmitByKey, Admit, Drop, Idle
        <3>5. ASSUME NEW q \in Requests,
                     MarkUsed(q) \/ UserStep(q) \/ NewsStep(q) \/ \E p \in Players : MemberStep(q, p)
              PROVE  Following(l)' \subseteq Following(l)
            <4>1. request' = [request EXCEPT ![q] = Idle] /\ Idle.phase # "FOUND"
                BY <3>5 DEF MarkUsed, UserStep, CreateUser, UpdateUser, NewsStep, CreateNews, UpdateNews,
                   ChangeNews, MemberStep, Grant, RunLifecycleAction, Admitted, Idle
            <4>2. QED
                BY <4>1, <3>3
        <3>6. QED
            BY <1>2, <3>1, <3>4, <3>5, Steps
    <2>3. QED
        BY <2>1, <2>2, OnlyFewer
<1>3. QED
    BY <1>1, <1>2, OnlyFewer, OpenedFromFollowing

(* However the three statements of a consumption interleave with others and  *)
(* wherever they are cut off, a spent link opens no session for anybody who  *)
(* had not found it before.                                                  *)
THEOREM LinksAreSpent == Spec => LinkSpent
<1>1. TypeInv /\ [Next]_vars =>
          [\A l \in Links : link[l].status \in {"USED", "EXPIRED"} =>
              /\ Following(l)' \subseteq Following(l)
              /\ Cardinality(OpenedBy(l)') + Cardinality(Following(l)')
                    <= Cardinality(OpenedBy(l)) + Cardinality(Following(l))]_vars
    BY SpentStep
<1>2. QED
    BY <1>1, InitTyped, TypeStep, PTL DEF Spec, LinkSpent

-----------------------------------------------------------------------------
Standings == [p \in Players |-> StandingOf(membership[p])]

LEMMA InitRefines == Init => Ledger!Init
<1> SUFFICES ASSUME Init PROVE Ledger!Init
    OBVIOUS
<1>1. \A p \in Players :
          membership[p] \in {NoMembership} \cup
             {[NoMembership EXCEPT !.status = "inactive", !.expires = e] : e \in {"NULL", "AHEAD"}}
    BY Zenon DEF Init
<1>2. StandingOf(NoMembership) = "NONE"
    BY DEF StandingOf, EffectiveStatus, NoMembership
<1>3. ASSUME NEW e \in {"NULL", "AHEAD"}
      PROVE  StandingOf([NoMembership EXCEPT !.status = "inactive", !.expires = e]) = "INACTIVE"
    BY DEF StandingOf, EffectiveStatus, NoMembership
<1>4. \A p \in Players : StandingOf(membership[p]) \in {"NONE", "INACTIVE"}
    BY <1>1, <1>2, <1>3
<1>5. QED
    BY <1>4 DEF Init, Ledger!Init

(* What a move of one membership is in the ledger.                           *)
LEMMA Moved ==
    ASSUME TypeInv, NEW p \in Players, NEW row, Audit(p),
           membership' = [membership EXCEPT ![p] = row],
           <<StandingOf(membership[p]), StandingOf(row)>> \in Ledger!Moves
    PROVE  Ledger!Next
<1>1. Standings' = [Standings EXCEPT ![p] = StandingOf(row)]
    BY DEF Standings, TypeInv, TypeOK
<1>2. StandingOf(row) \in {"ACTIVE", "SUSPENDED", "ENDED"}
    BY DEF Ledger!Moves
<1>3. Ledger!Change(p, StandingOf(row))
    BY <1>1 DEF Ledger!Change, Standings, Audit
<1>4. QED
    BY <1>2, <1>3 DEF Ledger!Next

LEMMA StepRefines == TypeInv /\ [Next]_vars => [Ledger!Next]_<<Standings, entries>>
<1> SUFFICES ASSUME TypeInv, [Next]_vars PROVE [Ledger!Next]_<<Standings, entries>>
    OBVIOUS
<1>1. membership \in [Players -> MembershipRows]
    BY DEF TypeInv, TypeOK
<1>2. CASE UNCHANGED <<membership, entries>>
    BY <1>2 DEF Standings
<1>3. ASSUME NEW p \in Players, TimeUp(p) PROVE [Ledger!Next]_<<Standings, entries>>
    <2> DEFINE row == [membership[p] EXCEPT !.expires = "PASSED"]
    <2>1. membership' = [membership EXCEPT ![p] = row] /\ entries' = entries
        BY <1>3, <1>1 DEF TimeUp
    <2>2. Standings' = [Standings EXCEPT ![p] = StandingOf(row)]
        BY <2>1, <1>1 DEF Standings
    <2> HIDE DEF row
    <2>3. \/ StandingOf(row) = StandingOf(membership[p])
          \/ StandingOf(row) = "ENDED" /\ StandingOf(membership[p]) \notin {"NONE", "ENDED"}
        <3>1. membership[p] \in MembershipRows /\ membership[p].expires = "AHEAD"
            BY <1>3, <1>1 DEF TimeUp
        <3>2. row.status = membership[p].status /\ row.expires = "PASSED"
            BY <3>1 DEF MembershipRows, row
        <3>3. EffectiveStatus(membership[p]) = membership[p].status
            BY <3>1 DEF EffectiveStatus
        <3>4. CASE membership[p].status \in {"NONE", "expired", "cancelled"}
            <4>1. EffectiveStatus(row) = EffectiveStatus(membership[p])
                BY <3>2, <3>3, <3>4 DEF EffectiveStatus
            <4>2. QED
                BY <3>3, <3>4, <4>1 DEF StandingOf
        <3>5. CASE membership[p].status \in {"inactive", "active", "suspended"}
            <4>1. EffectiveStatus(row) = "expired"
                BY <3>2, <3>5 DEF EffectiveStatus
            <4>2. StandingOf(row) = "ENDED"
                BY <4>1 DEF StandingOf
            <4>3. EffectiveStatus(membership[p]) \in {"inactive", "active", "suspended"}
                BY <3>3, <3>5
            <4>4. StandingOf(membership[p]) \notin {"NONE", "ENDED"}
                BY <4>3 DEF StandingOf
            <4>5. QED
                BY <4>2, <4>4
        <3>6. QED
            BY <3>1, <3>4, <3>5 DEF MembershipRows
    <2>4. CASE StandingOf(row) = StandingOf(membership[p])
        BY <2>1, <2>2, <2>4 DEF Standings
    <2>5. CASE StandingOf(row) = "ENDED" /\ StandingOf(membership[p]) \notin {"NONE", "ENDED"}
        <3>1. Ledger!TimeUp(p)
            BY <2>1, <2>2, <2>5 DEF Ledger!TimeUp, Standings
        <3>2. QED
            BY <3>1 DEF Ledger!Next
    <2>6. QED
        BY <2>3, <2>4, <2>5
<1>4. ASSUME NEW p \in Players, NEW expires \in {"NULL", "AHEAD", "PASSED"}, GrantMembership(p, expires)
      PROVE  Ledger!Next
    <2>1. StandingOf(membership[p]) = "NONE"
        BY <1>4 DEF GrantMembership, StandingOf, EffectiveStatus
    <2>2. StandingOf(Granted(expires)) = "ACTIVE"
        BY <1>4 DEF GrantMembership, Granted, NoMembership, StandingOf, EffectiveStatus
    <2>3. QED
        BY <1>4, <2>1, <2>2, Moved DEF GrantMembership, Ledger!Moves
<1>5. ASSUME NEW p \in Players, NEW action \in LifecycleActions, TransitionMembership(p, action)
      PROVE  Ledger!Next
    <2> DEFINE m == membership[p]
    <2>1. /\ EffectiveStatus(m) \in Allowed(action) /\ Audit(p)
          /\ membership' = [membership EXCEPT ![p] = Changed(m, action)]
        BY <1>5 DEF TransitionMembership
    <2>2. m.status = EffectiveStatus(m) /\ m.expires # "PASSED" /\ m \in MembershipRows
        BY <2>1, <1>1 DEF EffectiveStatus, Allowed, LifecycleActions
    <2>3. <<StandingOf(m), StandingOf(Changed(m, action))>> \in Ledger!Moves
        <3>1. CASE action = "activate"
            BY <2>1, <2>2, <3>1 DEF Allowed, Changed, StandingOf, EffectiveStatus, MembershipRows, Ledger!Moves
        <3>2. CASE action = "suspend"
            BY <2>1, <2>2, <3>2 DEF Allowed, Changed, StandingOf, EffectiveStatus, MembershipRows, Ledger!Moves
        <3>3. CASE action = "reactivate"
            BY <2>1, <2>2, <3>3 DEF Allowed, Changed, StandingOf, EffectiveStatus, MembershipRows, Ledger!Moves
        <3>4. CASE action = "cancel"
            BY <2>1, <2>2, <3>4 DEF Allowed, Changed, StandingOf, EffectiveStatus, MembershipRows, Ledger!Moves
        <3>5. QED
            BY <3>1, <3>2, <3>3, <3>4 DEF LifecycleActions
    <2>4. QED
        BY <2>1, <2>3, Moved
<1>6. QED
    BY <1>2, <1>3, <1>4, <1>5, MembershipSteps

(* The console keeps the ledger: one audited move at a time, and an ended    *)
(* membership never comes back.                                              *)
THEOREM Refinement == Spec => ImplementsLedger
BY InitTyped, TypeStep, InitRefines, StepRefines, PTL DEF Spec, ImplementsLedger, Ledger!Spec, Standings

=============================================================================
