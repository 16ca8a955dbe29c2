--------------------------- MODULE PlayerIdentity ---------------------------
(***************************************************************************)
(* Player accounts, the email and Steam identities they sign in with, the  *)
(* one-time tokens mailed or handed out, and the sessions opened.          *)
(*                                                                         *)
(* Each repository method is one transaction that locks the account row    *)
(* (a token is always read FOR UPDATE together with its account), or the   *)
(* steam_profiles row, so it is one action.  Signing in takes two steps:   *)
(* the password or the Steam id is checked first, and the session is       *)
(* inserted by a later transaction; anything may happen in between.  A     *)
(* token may be presented at any time and any number of times: a request   *)
(* with a token that is not LIVE changes nothing and is no action here.    *)
(*                                                                         *)
(* An account has at most one email identity and at most one Steam         *)
(* identity (unique keys on player_account_id), so both are indexed by     *)
(* account.  Mails, OpenID and password hashing are external.              *)
(***************************************************************************)
EXTENDS Naturals, FiniteSets

CONSTANTS
    Accounts,     \* player_accounts.id, used or not
    Emails,       \* addresses
    SteamIds,     \* steamid64
    Tokens,       \* ids of one-time tokens and link intents
    Sessions,     \* player_sessions.id
    MaxResets,    \* bound on the password resets of one account
    MaxPending,   \* bound on the sign-ins under way
    NoAccount, NoEmail, NoSteam, NoToken

ASSUME NullsAssumption ==
    /\ NoAccount \notin Accounts /\ NoEmail \notin Emails
    /\ NoSteam \notin SteamIds /\ NoToken \notin Tokens
ASSUME LimitsAssumption == MaxResets \in Nat /\ MaxPending \in Nat

VARIABLES
    status,    \* player_accounts.status, "NONE" when the id is not used yet
    email,     \* address of the account's email identity
    steam,     \* steamid64 of the account's Steam identity
    verified,  \* accounts whose email identity has a verified_at
    resets,    \* how often the account's password_hash was replaced
    token,     \* verification and reset tokens, email and Steam link intents
    session,   \* player_sessions
    signIn     \* sign-ins that were checked and have no session yet

identityVars == <<email, steam, verified>>
vars == <<status, identityVars, resets, token, session, signIn>>

-----------------------------------------------------------------------------
LinkKinds  == {"EMAIL_LINK", "STEAM_LINK"}
TokenKinds == LinkKinds \cup {"NONE", "VERIFY", "RESET"}

(* VOID: expired, or used up by another token of the same account. *)
TokenRows ==
    [kind : TokenKinds, state : {"UNISSUED", "LIVE", "USED", "VOID"},
     account : Accounts \cup {NoAccount}, email : Emails \cup {NoEmail}, era : 0..MaxResets]

(* OVER: revoked or expired.  via, from and era record how it was opened. *)
SessionRows ==
    [state : {"FREE", "LIVE", "OVER"}, account : Accounts \cup {NoAccount},
     via : {"NONE", "VERIFY", "EMAIL", "STEAM"}, from : Tokens \cup {NoToken},
     era : 0..MaxResets]

SignIns == [via : {"EMAIL", "STEAM"}, account : Accounts]

Unissued == [kind |-> "NONE", state |-> "UNISSUED", account |-> NoAccount,
             email |-> NoEmail, era |-> 0]
Free     == [state |-> "FREE", account |-> NoAccount, via |-> "NONE",
             from |-> NoToken, era |-> 0]

TypeOK ==
    /\ status   \in [Accounts -> {"NONE", "active", "disabled"}]
    /\ email    \in [Accounts -> Emails \cup {NoEmail}]
    /\ steam    \in [Accounts -> SteamIds \cup {NoSteam}]
    /\ verified \subseteq Accounts
    /\ resets   \in [Accounts -> 0..MaxResets]
    /\ token    \in [Tokens -> TokenRows]
    /\ session  \in [Sessions -> SessionRows]
    /\ signIn   \subseteq SignIns

EmailTaken(e)   == \E a \in Accounts : email[a] = e
SteamTaken(id)  == \E a \in Accounts : steam[a] = id
Live(t, kind)   == token[t].state = "LIVE" /\ token[t].kind = kind
Active(a)       == status[a] = "active"
LiveOf(a, kind) == {t \in Tokens : Live(t, kind) /\ token[t].account = a}

(* The controllers that start a link ask for a session first; it may be over *)
(* again when the transaction runs.                                          *)
HasSignedIn(a) == \E s \in Sessions : session[s].account = a

(* What PlayerAuthGuard lets through. *)
Authenticates(s) == session[s].state = "LIVE" /\ Active(session[s].account)

-----------------------------------------------------------------------------
Init ==
    /\ status   = [a \in Accounts |-> "NONE"]
    /\ email    = [a \in Accounts |-> NoEmail]
    /\ steam    = [a \in Accounts |-> NoSteam]
    /\ verified = {}
    /\ resets   = [a \in Accounts |-> 0]
    /\ token    = [t \in Tokens |-> Unissued]
    /\ session  = [s \in Sessions |-> Free]
    /\ signIn   = {}

TokenOf(kind, a, e) ==
    [kind |-> kind, state |-> "LIVE", account |-> a, email |-> e, era |-> resets[a]]

(* token with t in state st and the other tokens of `group` out of use. *)
Spend(t, st, group) ==
    [x \in Tokens |-> IF x = t THEN [token[x] EXCEPT !.state = st]
                      ELSE IF x \in group THEN [token[x] EXCEPT !.state = "VOID"]
                      ELSE token[x]]

(* The tokens of `group` are out of use and t is issued. *)
Supersede(group, t, row) ==
    [x \in Tokens |-> IF x = t THEN row
                      ELSE IF x \in group THEN [token[x] EXCEPT !.state = "VOID"]
                      ELSE token[x]]

OpenSession(s, a, via, from) ==
    /\ session[s].state = "FREE"
    /\ session' = [session EXCEPT ![s] = [state |-> "LIVE", account |-> a, via |-> via,
                                          from |-> from, era |-> resets[a]]]

(* UPDATE player_sessions SET revoked_at for one account. *)
RevokeSessions(a) ==
    session' = [s \in Sessions |->
                   IF session[s].account = a /\ session[s].state = "LIVE"
                   THEN [session[s] EXCEPT !.state = "OVER"] ELSE session[s]]

-----------------------------------------------------------------------------
(* createPendingRegistration: a new account with an unverified email. *)
Register(a, e, t) ==
    /\ status[a] = "NONE"
    /\ ~EmailTaken(e)
    /\ token[t].state = "UNISSUED"
    /\ status' = [status EXCEPT ![a] = "active"]
    /\ email'  = [email EXCEPT ![a] = e]
    /\ token'  = [token EXCEPT ![t] = TokenOf("VERIFY", a, NoEmail)]
    /\ UNCHANGED <<steam, verified, resets, session, signIn>>

(* consumeVerificationAndCreateSession *)
Verify(t, s) ==
    LET a == token[t].account IN
    /\ Live(t, "VERIFY")
    /\ Active(a)
    /\ verified' = verified \cup {a}
    /\ token'    = Spend(t, "USED", {})
    /\ OpenSession(s, a, "VERIFY", t)
    /\ UNCHANGED <<status, email, steam, resets, signIn>>

(* createForEligibleEmail; older reset tokens stay usable. *)
RequestReset(a, t) ==
    /\ a \in verified
    /\ Active(a)
    /\ token[t].state = "UNISSUED"
    /\ token' = [token EXCEPT ![t] = TokenOf("RESET", a, NoEmail)]
    /\ UNCHANGED <<status, identityVars, resets, session, signIn>>

(* Mutant: only the token presented is used up. *)
ConfirmResetOneToken(t) ==
    LET a == token[t].account IN
    /\ Live(t, "RESET")
    /\ Active(a)
    /\ resets[a] < MaxResets
    /\ resets' = [resets EXCEPT ![a] = @ + 1]
    /\ token'  = Spend(t, "USED", {})
    /\ RevokeSessions(a)
    /\ UNCHANGED <<status, identityVars, signIn>>

(* Mutant: the sessions are left alone. *)
ConfirmResetKeepingSessions(t) ==
    LET a == token[t].account IN
    /\ Live(t, "RESET")
    /\ Active(a)
    /\ resets[a] < MaxResets
    /\ resets' = [resets EXCEPT ![a] = @ + 1]
    /\ token'  = Spend(t, "USED", LiveOf(a, "RESET"))
    /\ UNCHANGED <<status, identityVars, session, signIn>>

(* The password is replaced, every reset token of the identity is used up    *)
(* and every session of the account is revoked.                              *)
ConfirmReset(t) ==
    LET a == token[t].account IN
    /\ Live(t, "RESET")
    /\ Active(a)
    /\ resets[a] < MaxResets
    /\ resets' = [resets EXCEPT ![a] = @ + 1]
    /\ token'  = Spend(t, "USED", LiveOf(a, "RESET"))
    /\ RevokeSessions(a)
    /\ UNCHANGED <<status, identityVars, signIn>>

-----------------------------------------------------------------------------
(* The first step of a sign-in hands over to the second. *)
Pend(via, a) ==
    /\ Cardinality(signIn) < MaxPending
    /\ signIn' = signIn \cup {[via |-> via, account |-> a]}

(* findByEmail and the password check, with the right password. *)
CheckPassword(a) ==
    /\ a \in verified
    /\ Active(a)
    /\ Pend("EMAIL", a)
    /\ UNCHANGED <<status, identityVars, resets, token, session>>

(* Mutant: what the first step saw of the account is trusted. *)
EmailLoginTrusting(a, s) ==
    /\ [via |-> "EMAIL", account |-> a] \in signIn
    /\ signIn' = signIn \ {[via |-> "EMAIL", account |-> a]}
    /\ OpenSession(s, a, "EMAIL", NoToken)
    /\ UNCHANGED <<status, identityVars, resets, token>>

(* recordLoginAndCreateSession looks at identity and account again. *)
EmailLogin(a, s) ==
    /\ [via |-> "EMAIL", account |-> a] \in signIn
    /\ a \in verified
    /\ Active(a)
    /\ signIn' = signIn \ {[via |-> "EMAIL", account |-> a]}
    /\ OpenSession(s, a, "EMAIL", NoToken)
    /\ UNCHANGED <<status, identityVars, resets, token>>

(* An unknown Steam id gets an account of its own. *)
ResolveOrCreateFromSteamId(id, a) ==
    \/ /\ steam[a] = id
       /\ UNCHANGED <<status, steam>>
    \/ /\ ~SteamTaken(id)
       /\ status[a] = "NONE"
       /\ status' = [status EXCEPT ![a] = "active"]
       /\ steam'  = [steam EXCEPT ![a] = id]

(* The callback: Steam vouches for the id, and the account that was resolved *)
(* is refused when the status it came with is disabled.                      *)
ResolveSteam(id, a) ==
    /\ ResolveOrCreateFromSteamId(id, a)
    /\ status'[a] = "active"
    /\ Pend("STEAM", a)
    /\ UNCHANGED <<email, verified, resets, token, session>>

(* createPlayerSessionForAccount inserts without another look. *)
SteamLogin(a, s) ==
    /\ [via |-> "STEAM", account |-> a] \in signIn
    /\ signIn' = signIn \ {[via |-> "STEAM", account |-> a]}
    /\ OpenSession(s, a, "STEAM", NoToken)
    /\ UNCHANGED <<status, identityVars, resets, token>>

(* The second step refuses, fails or is never reached. *)
AbandonSignIn ==
    /\ \E p \in signIn : signIn' = signIn \ {p}
    /\ UNCHANGED <<status, identityVars, resets, token, session>>

-----------------------------------------------------------------------------
(* createIntent of player-email-link.repository.ts *)
CreateEmailLink(a, e, t) ==
    /\ HasSignedIn(a) /\ Active(a)
    /\ email[a] = NoEmail
    /\ ~EmailTaken(e)
    /\ token[t].state = "UNISSUED"
    /\ token' = Supersede(LiveOf(a, "EMAIL_LINK"), t, TokenOf("EMAIL_LINK", a, e))
    /\ UNCHANGED <<status, identityVars, resets, session, signIn>>

(* Mutant: nobody looks who owns the address by now. *)
ConfirmEmailLinkUnchecked(t) ==
    LET a == token[t].account IN
    /\ Live(t, "EMAIL_LINK")
    /\ Active(a) /\ email[a] = NoEmail
    /\ email'    = [email EXCEPT ![a] = token[t].email]
    /\ verified' = verified \cup {a}
    /\ token'    = Spend(t, "USED", LiveOf(a, "EMAIL_LINK"))
    /\ UNCHANGED <<status, steam, resets, session, signIn>>

(* confirmLink: the address becomes the account's, already verified, unless  *)
(* it or the account is taken by now.  All the account's intents are used up *)
(* either way.                                                               *)
ConfirmEmailLink(t) ==
    LET a    == token[t].account
        fits == Active(a) /\ email[a] = NoEmail /\ ~EmailTaken(token[t].email)
    IN
    /\ Live(t, "EMAIL_LINK")
    /\ \/ /\ fits
          /\ email'    = [email EXCEPT ![a] = token[t].email]
          /\ verified' = verified \cup {a}
          /\ token'    = Spend(t, "USED", LiveOf(a, "EMAIL_LINK"))
       \/ /\ ~fits
          /\ token'    = Spend(t, "VOID", LiveOf(a, "EMAIL_LINK"))
          /\ UNCHANGED <<email, verified>>
    /\ UNCHANGED <<status, steam, resets, session, signIn>>

(* createIntent of player-steam-link.repository.ts *)
CreateSteamLink(a, t) ==
    /\ HasSignedIn(a) /\ Active(a)
    /\ steam[a] = NoSteam
    /\ token[t].state = "UNISSUED"
    /\ token' = Supersede(LiveOf(a, "STEAM_LINK"), t, TokenOf("STEAM_LINK", a, NoEmail))
    /\ UNCHANGED <<status, identityVars, resets, session, signIn>>

(* Mutant: the Steam identity is moved from the account that has it. *)
ConfirmSteamLinkTakingOver(t, id) ==
    LET a == token[t].account IN
    /\ Live(t, "STEAM_LINK")
    /\ Active(a) /\ steam[a] = NoSteam
    /\ steam' = [x \in Accounts |-> IF x = a THEN id
                                    ELSE IF steam[x] = id THEN NoSteam ELSE steam[x]]
    /\ token' = Spend(t, "USED", {})
    /\ UNCHANGED <<status, email, verified, resets, session, signIn>>

(* confirmLink, with the id Steam vouched for. *)
ConfirmSteamLink(t, id) ==
    LET a    == token[t].account
        fits == Active(a) /\ steam[a] = NoSteam /\ ~SteamTaken(id)
    IN
    /\ Live(t, "STEAM_LINK")
    /\ \/ /\ fits
          /\ steam' = [steam EXCEPT ![a] = id]
          /\ token' = Spend(t, "USED", {})
       \/ /\ ~fits
          /\ token' = Spend(t, "VOID", {})
          /\ UNCHANGED steam
    /\ UNCHANGED <<status, email, verified, resets, session, signIn>>

-----------------------------------------------------------------------------
ExpireToken(t) ==
    /\ token[t].state = "LIVE"
    /\ token' = Spend(t, "VOID", {})
    /\ UNCHANGED <<status, identityVars, resets, session, signIn>>

(* Logout, or the session's time is up. *)
EndSession(s) ==
    /\ session[s].state = "LIVE"
    /\ session' = [session EXCEPT ![s].state = "OVER"]
    /\ UNCHANGED <<status, identityVars, resets, token, signIn>>

(* setStatus of admin-player-account-status.repository.ts *)
Disable(a) ==
    /\ Active(a)
    /\ status' = [status EXCEPT ![a] = "disabled"]
    /\ RevokeSessions(a)
    /\ UNCHANGED <<identityVars, resets, token, signIn>>

Reactivate(a) ==
    /\ status[a] = "disabled"
    /\ status' = [status EXCEPT ![a] = "active"]
    /\ UNCHANGED <<identityVars, resets, token, session, signIn>>

Next ==
    \/ \E a \in Accounts :
          \/ \E e \in Emails, t \in Tokens : Register(a, e, t) \/ CreateEmailLink(a, e, t)
          \/ \E t \in Tokens : RequestReset(a, t) \/ CreateSteamLink(a, t)
          \/ \E s \in Sessions : EmailLogin(a, s) \/ SteamLogin(a, s)
          \/ \E id \in SteamIds : ResolveSteam(id, a)
          \/ CheckPassword(a) \/ Disable(a) \/ Reactivate(a)
    \/ \E t \in Tokens :
          \/ \E s \in Sessions : Verify(t, s)
          \/ \E id \in SteamIds : ConfirmSteamLink(t, id)
          \/ ConfirmReset(t) \/ ConfirmEmailLink(t) \/ ExpireToken(t)
    \/ \E s \in Sessions : EndSession(s)
    \/ AbandonSignIn

Spec == Init /\ [][Next]_vars

-----------------------------------------------------------------------------
(* An account in use can be signed in to, by email, by Steam or by both, and *)
(* no address and no Steam id leads to two accounts, whichever registrations *)
(* links and first sign-ins compete for it.                                  *)
IdentityModel ==
    /\ \A a \in Accounts : status[a] = "NONE" <=> email[a] = NoEmail /\ steam[a] = NoSteam
    /\ \A a, b \in Accounts : a # b =>
          /\ email[a] = email[b] => email[a] = NoEmail
          /\ steam[a] = steam[b] => steam[a] = NoSteam

(* "Linking never creates or merges player_accounts"                         *)
(* (0014_player_identity_linking.sql:3): an identity stays where it is, and  *)
(* a verified address stays verified.                                        *)
IdentitiesKept ==
    [][\A a \in Accounts :
          /\ email[a] # NoEmail => email'[a] = email[a]
          /\ steam[a] # NoSteam => steam'[a] = steam[a]
          /\ a \in verified => a \in verified']_vars

(* An account that has both identities got the second one by following a     *)
(* link intent of its own, for that very address in the case of an email.    *)
TwoIdentitiesWereLinked ==
    \A a \in Accounts : email[a] # NoEmail /\ steam[a] # NoSteam =>
        \E t \in Tokens :
            /\ token[t].state = "USED" /\ token[t].account = a
            /\ \/ token[t].kind = "STEAM_LINK"
               \/ token[t].kind = "EMAIL_LINK" /\ token[t].email = email[a]

(* Only the last link asked for works.                                       *)
OneLinkIntent ==
    \A a \in Accounts, kind \in LinkKinds : \A t, u \in LiveOf(a, kind) : t = u

(* A verification link signs in once, however often it is followed.          *)
VerificationOpensOneSession ==
    \A s, r \in Sessions :
        session[s].via = "VERIFY" /\ session[s].from = session[r].from => s = r

(* A reset token still usable was issued for the password still in use: one  *)
(* reset uses up all the tokens issued before it.                            *)
LiveResetIsCurrent ==
    \A t \in Tokens : Live(t, "RESET") => token[t].era = resets[token[t].account]

(* A link is worth one use, of the account as it was when it was asked for:   *)
(* for verification links that is one session, for reset links the password  *)
(* they were asked for, and of link intents only the last one serves.        *)
LinksSpent == VerificationOpensOneSession /\ LiveResetIsCurrent /\ OneLinkIntent

(* No session opened before a password reset survives it.                    *)
SessionsFollowReset ==
    \A s \in Sessions : session[s].state = "LIVE" => session[s].era = resets[session[s].account]

(* A disabled account keeps no session, apart from one that a Steam sign-in  *)
(* under way inserts afterwards; that one does not authenticate meanwhile.   *)
DisablingEndsSessions ==
    \A s \in Sessions :
        session[s].state = "LIVE" /\ session[s].via # "STEAM" => Active(session[s].account)

(* "sessoes antigas nao sao restauradas" on reactivation                     *)
(* (docs/player-identity-membership-server-access.md:424): no session of     *)
(* before starts to authenticate.                                            *)
ReactivationRestoresNothing ==
    [][\A s \in Sessions :
          session[s].state = "LIVE" /\ ~Authenticates(s) => ~Authenticates(s)']_vars

=============================================================================
