------------------------ MODULE PlayerIdentity_proofs ------------------------
(***************************************************************************)
(* Theorems about PlayerIdentity, for any accounts, addresses, Steam ids,  *)
(* tokens, sessions and bounds.                                            *)
(***************************************************************************)
EXTENDS PlayerIdentity, TLAPS

-----------------------------------------------------------------------------
(* A token that was issued has a kind and belongs to an account, a link      *)
(* intent for an address names one, and a session belongs to an account.     *)
Issued ==
    /\ \A t \in Tokens : token[t].state # "UNISSUED" =>
          /\ token[t].account \in Accounts
          /\ token[t].kind = "EMAIL_LINK" => token[t].email \in Emails
    /\ \A s \in Sessions : session[s].state # "FREE" => session[s].account \in Accounts

TypeInv == TypeOK /\ Issued

(* Spending tokens changes nothing but states, and only those of the token   *)
(* presented and of its group.                                               *)
LEMMA SpendEffect ==
    ASSUME TypeInv, NEW t \in Tokens, NEW st \in {"USED", "VOID"}, NEW group,
           token[t].state = "LIVE", \A x \in group : token[x].state = "LIVE",
           token' = Spend(t, st, group)
    PROVE  /\ token' \in [Tokens -> TokenRows]
           /\ \A x \in Tokens :
                 /\ token'[x].kind = token[x].kind
                 /\ token'[x].account = token[x].account
                 /\ token'[x].email = token[x].email
                 /\ token'[x].era = token[x].era
                 /\ token'[x].state # token[x].state =>
                       token[x].state = "LIVE" /\ token'[x].state \in {"USED", "VOID"}
                 /\ x \in group => token'[x].state # "LIVE"
           /\ token'[t].state = st
           /\ \A x \in Tokens : (token[x].state # "UNISSUED")' => token[x].state # "UNISSUED"
<1> DEFINE with(x, v) == [token[x] EXCEPT !.state = v]
<1>1. \A x \in Tokens : token[x] \in TokenRows
    BY DEF TypeInv, TypeOK
<1>2. \A x \in Tokens : \A v \in {"USED", "VOID"} :
          /\ with(x, v) \in TokenRows
          /\ with(x, v).state = v
          /\ with(x, v).kind = token[x].kind
          /\ with(x, v).account = token[x].account
          /\ with(x, v).email = token[x].email
          /\ with(x, v).era = token[x].era
    BY <1>1 DEF TokenRows
<1>3. \A x \in Tokens :
          token'[x] = IF x = t THEN with(x, st)
                      ELSE IF x \in group THEN with(x, "VOID") ELSE token[x]
    BY DEF Spend
<1>4. token' = [x \in Tokens |-> IF x = t THEN with(x, st)
                      ELSE IF x \in group THEN with(x, "VOID") ELSE token[x]]
    BY DEF Spend
<1> HIDE DEF with
<1>5. token' \in [Tokens -> TokenRows]
    BY <1>1, <1>2, <1>4
<1>6. QED
    BY <1>2, <1>3, <1>5

(* Issuing token t with a row and putting a group of live tokens out of use. *)
LEMMA SupersedeEffect ==
    ASSUME TypeInv, NEW t \in Tokens, NEW group, NEW row \in TokenRows,
           token[t].state = "UNISSUED", \A x \in group : token[x].state = "LIVE",
           token' = Supersede(group, t, row)
    PROVE  /\ token' \in [Tokens -> TokenRows]
           /\ token'[t] = row
           /\ \A x \in Tokens \ {t} :
                 /\ token'[x].kind = token[x].kind
                 /\ token'[x].account = token[x].account
                 /\ token'[x].email = token[x].email
                 /\ token'[x].era = token[x].era
                 /\ token'[x].state # token[x].state =>
                       token[x].state = "LIVE" /\ token'[x].state = "VOID"
                 /\ x \in group => token'[x].state # "LIVE"
           /\ \A x \in Tokens \ {t} : (token[x].state # "UNISSUED")' => token[x].state # "UNISSUED"
<1> DEFINE void(x) == [token[x] EXCEPT !.state = "VOID"]
<1>1. \A x \in Tokens : token[x] \in TokenRows
    BY DEF TypeInv, TypeOK
<1>2. \A x \in Tokens :
          /\ void(x) \in TokenRows
          /\ void(x).state = "VOID"
          /\ void(x).kind = token[x].kind
          /\ void(x).account = token[x].account
          /\ void(x).email = token[x].email
          /\ void(x).era = token[x].era
    BY <1>1 DEF TokenRows
<1>3. \A x \in Tokens :
          token'[x] = IF x = t THEN row
                      ELSE IF x \in group THEN void(x) ELSE token[x]
    BY DEF Supersede
<1>4. token' = [x \in Tokens |-> IF x = t THEN row
                      ELSE IF x \in group THEN void(x) ELSE token[x]]
    BY DEF Supersede
<1> HIDE DEF void
<1>5. token' \in [Tokens -> TokenRows]
    BY <1>1, <1>2, <1>4
<1>6. QED
    BY <1>2, <1>3, <1>5

(* A new session belongs to the account signed in, at its present password.  *)
LEMMA OpenEffect ==
    ASSUME TypeInv, NEW s \in Sessions, NEW a \in Accounts,
           NEW via \in {"VERIFY", "EMAIL", "STEAM"}, NEW from \in Tokens \cup {NoToken},
           OpenSession(s, a, via, from)
    PROVE  /\ session' \in [Sessions -> SessionRows]
           /\ session[s].state = "FREE"
           /\ session'[s] = [state |-> "LIVE", account |-> a, via |-> via, from |-> from,
                             era |-> resets[a]]
           /\ \A r \in Sessions : r # s => session'[r] = session[r]
           /\ \A r \in Sessions : session'[r].state # "FREE" => session'[r].account \in Accounts
<1>1. [state |-> "LIVE", account |-> a, via |-> via, from |-> from, era |-> resets[a]] \in SessionRows
    BY DEF TypeInv, TypeOK, SessionRows
<1>2. QED
    BY <1>1 DEF OpenSession, TypeInv, TypeOK, Issued

(* Revoking the sessions of an account ends the live ones and nothing else.  *)
LEMMA RevokeEffect ==
    ASSUME TypeInv, NEW a \in Accounts, RevokeSessions(a)
    PROVE  /\ session' \in [Sessions -> SessionRows]
           /\ \A s \in Sessions :
                 /\ session'[s].account = session[s].account
                 /\ session'[s].via = session[s].via
                 /\ session'[s].from = session[s].from
                 /\ session'[s].era = session[s].era
                 /\ session'[s].state = "LIVE" => session[s].state = "LIVE" /\ session[s].account # a
                 /\ session'[s].state # "FREE" => session[s].state # "FREE"
<1> DEFINE over(s) == [session[s] EXCEPT !.state = "OVER"]
<1>1. \A s \in Sessions : session[s] \in SessionRows
    BY DEF TypeInv, TypeOK
<1>2. \A s \in Sessions :
          /\ over(s) \in SessionRows
          /\ over(s).state = "OVER"
          /\ over(s).account = session[s].account
          /\ over(s).via = session[s].via
          /\ over(s).from = session[s].from
          /\ over(s).era = session[s].era
    BY <1>1 DEF SessionRows
<1>3. session' = [s \in Sessions |-> IF session[s].account = a /\ session[s].state = "LIVE"
                                     THEN over(s) ELSE session[s]]
    BY DEF RevokeSessions
<1> HIDE DEF over
<1>4. QED
    BY <1>1, <1>2, <1>3

(* What a token issued by TokenOf looks like. *)
LEMMA TokenOfTyped ==
    ASSUME TypeInv, NEW kind \in TokenKinds, NEW a \in Accounts, NEW e \in Emails \cup {NoEmail}
    PROVE  /\ TokenOf(kind, a, e) \in TokenRows
           /\ TokenOf(kind, a, e).kind = kind
           /\ TokenOf(kind, a, e).state = "LIVE"
           /\ TokenOf(kind, a, e).account = a
           /\ TokenOf(kind, a, e).email = e
           /\ TokenOf(kind, a, e).era = resets[a]
BY DEF TypeInv, TypeOK, TokenOf, TokenRows

-----------------------------------------------------------------------------
(* Every step, as far as tokens are concerned: they stay as they are, a live *)
(* one is spent together with others of its account and kind, or a new one   *)
(* is issued in place of live ones of its account and kind.                  *)
TokensStay == token' = token
TokenSpent ==
    \E t \in Tokens, st \in {"USED", "VOID"}, group \in SUBSET Tokens :
        /\ token[t].state = "LIVE"
        /\ \A x \in group : token[x].state = "LIVE"
        /\ token' = Spend(t, st, group)
TokenIssued ==
    \E t \in Tokens, kind \in TokenKinds, a \in Accounts, e \in Emails \cup {NoEmail} :
    \E group \in SUBSET Tokens :
        /\ token[t].state = "UNISSUED"
        /\ kind = "EMAIL_LINK" => e \in Emails
        /\ kind \in LinkKinds => group = LiveOf(a, kind)
        /\ kind \notin LinkKinds => group = {}
        /\ token' = Supersede(group, t, TokenOf(kind, a, e))

(* Issuing without superseding anything is a plain assignment. *)
LEMMA PlainIssue ==
    ASSUME TypeInv, NEW t \in Tokens, NEW row, token' = [token EXCEPT ![t] = row]
    PROVE  token' = Supersede({}, t, row)
<1>1. token = [x \in Tokens |-> token[x]]
    BY DEF TypeInv, TypeOK
<1>2. token' = [x \in Tokens |-> IF x = t THEN row ELSE token[x]]
    BY DEF TypeInv, TypeOK
<1>3. QED
    BY <1>2 DEF Supersede

LEMMA TokenSteps ==
    ASSUME TypeInv, Next
    PROVE  TokensStay \/ TokenSpent \/ TokenIssued
<1> USE DEF LinkKinds, TokenKinds
<1>1. ASSUME NEW a \in Accounts, NEW e \in Emails, NEW t \in Tokens, Register(a, e, t)
      PROVE  TokenIssued
    <2>1. token' = Supersede({}, t, TokenOf("VERIFY", a, NoEmail)) /\ token[t].state = "UNISSUED"
        BY <1>1, PlainIssue DEF Register
    <2>2. QED
        BY <2>1 DEF TokenIssued
<1>2. ASSUME NEW a \in Accounts, NEW e \in Emails, NEW t \in Tokens, CreateEmailLink(a, e, t)
      PROVE  TokenIssued
    BY <1>2 DEF CreateEmailLink, TokenIssued, LiveOf
<1>3. ASSUME NEW a \in Accounts, NEW t \in Tokens, RequestReset(a, t)
      PROVE  TokenIssued
    <2>1. token' = Supersede({}, t, TokenOf("RESET", a, NoEmail)) /\ token[t].state = "UNISSUED"
        BY <1>3, PlainIssue DEF RequestReset
    <2>2. QED
        BY <2>1 DEF TokenIssued
<1>4. ASSUME NEW a \in Accounts, NEW t \in Tokens, CreateSteamLink(a, t)
      PROVE  TokenIssued
    BY <1>4 DEF CreateSteamLink, TokenIssued, LiveOf
<1>5. ASSUME NEW a \in Accounts, NEW s \in Sessions, EmailLogin(a, s) \/ SteamLogin(a, s)
      PROVE  TokensStay
    BY <1>5 DEF EmailLogin, SteamLogin, TokensStay
<1>6. ASSUME NEW a \in Accounts, NEW id \in SteamIds, ResolveSteam(id, a)
      PROVE  TokensStay
    BY <1>6 DEF ResolveSteam, ResolveOrCreateFromSteamId, TokensStay
<1>7. ASSUME NEW a \in Accounts, CheckPassword(a) \/ Disable(a) \/ Reactivate(a)
      PROVE  TokensStay
    BY <1>7 DEF CheckPassword, Disable, Reactivate, TokensStay
<1>8. ASSUME NEW t \in Tokens, NEW s \in Sessions, Verify(t, s)
      PROVE  TokenSpent
    BY <1>8 DEF Verify, TokenSpent, Live
<1>9. ASSUME NEW t \in Tokens, NEW id \in SteamIds, ConfirmSteamLink(t, id)
      PROVE  TokenSpent
    <2>1. token[t].state = "LIVE" /\ \E st \in {"USED", "VOID"} : token' = Spend(t, st, {})
        BY <1>9 DEF ConfirmSteamLink, Live
    <2>2. QED
        BY <2>1 DEF TokenSpent
<1>10. ASSUME NEW t \in Tokens, ConfirmReset(t)
      PROVE  TokenSpent
    BY <1>10 DEF ConfirmReset, TokenSpent, Live, LiveOf
<1>11. ASSUME NEW t \in Tokens, ConfirmEmailLink(t)
      PROVE  TokenSpent
    <2> DEFINE group == LiveOf(token[t].account, "EMAIL_LINK")
    <2>1. group \in SUBSET Tokens /\ \A x \in group : token[x].state = "LIVE"
        BY DEF LiveOf, Live
    <2>2. token[t].state = "LIVE" /\ \E st \in {"USED", "VOID"} : token' = Spend(t, st, group)
        BY <1>11 DEF ConfirmEmailLink, Live
    <2>3. QED
        BY <2>1, <2>2 DEF TokenSpent
<1>12. ASSUME NEW t \in Tokens, ExpireToken(t)
      PROVE  TokenSpent
    BY <1>12 DEF ExpireToken, TokenSpent
<1>13. ASSUME NEW s \in Sessions, EndSession(s)
      PROVE  TokensStay
    BY <1>13 DEF EndSession, TokensStay
<1>14. CASE AbandonSignIn
    BY <1>14 DEF AbandonSignIn, TokensStay
<1>15. QED
    BY <1>1, <1>2, <1>3, <1>4, <1>5, <1>6, <1>7, <1>8, <1>9, <1>10, <1>11, <1>12, <1>13, <1>14 DEF Next


-----------------------------------------------------------------------------
(* Every step, as far as sessions are concerned: at most some live ones end, *)
(* or one is opened.                                                         *)
SessionsEnd ==
    /\ session' \in [Sessions -> SessionRows]
    /\ \A s \in Sessions :
          /\ session'[s].account = session[s].account
          /\ session'[s].via = session[s].via
          /\ session'[s].from = session[s].from
          /\ session'[s].era = session[s].era
          /\ session'[s].state = "LIVE" => session[s].state = "LIVE"
          /\ session'[s].state # "FREE" => session[s].state # "FREE"
SessionOpened ==
    \E s \in Sessions, a \in Accounts, via \in {"VERIFY", "EMAIL", "STEAM"} :
    \E from \in Tokens \cup {NoToken} :
        /\ OpenSession(s, a, via, from)
        /\ UNCHANGED <<status, resets>>
        /\ via # "STEAM" => Active(a)
        /\ via = "VERIFY" => Live(from, "VERIFY") /\ from \in Tokens /\ token' = Spend(from, "USED", {})
        /\ via # "VERIFY" => from = NoToken

LEMMA SessionSteps ==
    ASSUME TypeInv, Next
    PROVE  SessionsEnd \/ SessionOpened
<1>1. ASSUME session' = session
      PROVE  SessionsEnd
    BY <1>1 DEF SessionsEnd, TypeInv, TypeOK
<1>2. ASSUME NEW a \in Accounts, NEW e \in Emails, NEW t \in Tokens,
             Register(a, e, t) \/ CreateEmailLink(a, e, t)
      PROVE  SessionsEnd
    BY <1>1, <1>2 DEF Register, CreateEmailLink
<1>3. ASSUME NEW a \in Accounts, NEW t \in Tokens, RequestReset(a, t) \/ CreateSteamLink(a, t)
      PROVE  SessionsEnd
    BY <1>1, <1>3 DEF RequestReset, CreateSteamLink
<1>4. ASSUME NEW a \in Accounts, NEW s \in Sessions, EmailLogin(a, s) \/ SteamLogin(a, s)
      PROVE  SessionOpened
    BY <1>4 DEF EmailLogin, SteamLogin, SessionOpened, Active
<1>5. ASSUME NEW a \in Accounts, NEW id \in SteamIds, ResolveSteam(id, a)
      PROVE  SessionsEnd
    BY <1>1, <1>5 DEF ResolveSteam, ResolveOrCreateFromSteamId
<1>6. ASSUME NEW a \in Accounts, CheckPassword(a) \/ Reactivate(a)
      PROVE  SessionsEnd
    BY <1>1, <1>6 DEF CheckPassword, Reactivate
<1>7. ASSUME NEW a \in Accounts, Disable(a)
      PROVE  SessionsEnd
    <2>1. RevokeSessions(a)
        BY <1>7 DEF Disable
    <2>2. QED
        BY <2>1, RevokeEffect DEF SessionsEnd
<1>8. ASSUME NEW t \in Tokens, NEW s \in Sessions, Verify(t, s)
      PROVE  SessionOpened
    <2>1. token[t].account \in Accounts
        BY <1>8 DEF Verify, Live, TypeInv, Issued
    <2>2. /\ OpenSession(s, token[t].account, "VERIFY", t)
          /\ Active(token[t].account) /\ status' = status /\ resets' = resets
          /\ Live(t, "VERIFY") /\ token' = Spend(t, "USED", {})
        BY <1>8 DEF Verify
    <2>3. QED
        BY <2>1, <2>2 DEF SessionOpened
<1>9. ASSUME NEW t \in Tokens, NEW id \in SteamIds, ConfirmSteamLink(t, id)
      PROVE  SessionsEnd
    BY <1>1, <1>9 DEF ConfirmSteamLink
<1>10. ASSUME NEW t \in Tokens, ConfirmReset(t)
      PROVE  SessionsEnd
    <2>1. token[t].account \in Accounts /\ RevokeSessions(token[t].account)
        BY <1>10 DEF ConfirmReset, Live, TypeInv, Issued
    <2>2. QED
        BY <2>1, RevokeEffect DEF SessionsEnd
<1>11. ASSUME NEW t \in Tokens, ConfirmEmailLink(t) \/ ExpireToken(t)
      PROVE  SessionsEnd
    BY <1>1, <1>11 DEF ConfirmEmailLink, ExpireToken
<1>12. ASSUME NEW s \in Sessions, EndSession(s)
      PROVE  SessionsEnd
    <2>1. session[s] \in SessionRows /\ session[s].state = "LIVE"
        BY <1>12 DEF EndSession, TypeInv, TypeOK
    <2> DEFINE over == [session[s] EXCEPT !.state = "OVER"]
    <2>2. /\ over \in SessionRows /\ over.state = "OVER"
          /\ over.account = session[s].account /\ over.via = session[s].via
          /\ over.from = session[s].from /\ over.era = session[s].era
        BY <2>1 DEF SessionRows
    <2>3. session' = [session EXCEPT ![s] = over]
        BY <1>12 DEF EndSession
    <2> HIDE DEF over
    <2>4. QED
        BY <2>1, <2>2, <2>3 DEF SessionsEnd, TypeInv, TypeOK
<1>13. CASE AbandonSignIn
    BY <1>1, <1>13 DEF AbandonSignIn
<1>14. QED
    BY <1>2, <1>3, <1>4, <1>5, <1>6, <1>7, <1>8, <1>9, <1>10, <1>11, <1>12, <1>13 DEF Next

(* The rest of the state, type by type. *)
AccountsTyped ==
    /\ status   \in [Accounts -> {"NONE", "active", "disabled"}]
    /\ email    \in [Accounts -> Emails \cup {NoEmail}]
    /\ steam    \in [Accounts -> SteamIds \cup {NoSteam}]
    /\ verified \subseteq Accounts
    /\ resets   \in [Accounts -> 0..MaxResets]
    /\ signIn   \subseteq SignIns

LEMMA AccountsStep ==
    ASSUME TypeInv, Next
    PROVE  AccountsTyped'
<1> USE DEF TypeInv, TypeOK, AccountsTyped
<1>1. ASSUME NEW a \in Accounts, NEW e \in Emails, NEW t \in Tokens, Register(a, e, t)
      PROVE  AccountsTyped'
    BY <1>1 DEF Register
<1>2. ASSUME NEW a \in Accounts, NEW s \in Sessions, EmailLogin(a, s) \/ SteamLogin(a, s)
      PROVE  AccountsTyped'
    BY <1>2 DEF EmailLogin, SteamLogin, identityVars
<1>3. ASSUME NEW a \in Accounts, NEW id \in SteamIds, ResolveSteam(id, a)
      PROVE  AccountsTyped'
    <2>1. signIn' \subseteq SignIns
        BY <1>3 DEF ResolveSteam, ResolveOrCreateFromSteamId, Pend, SignIns
    <2>2. QED
        BY <1>3, <2>1 DEF ResolveSteam, ResolveOrCreateFromSteamId
<1>4. ASSUME NEW a \in Accounts, CheckPassword(a)
      PROVE  AccountsTyped'
    BY <1>4 DEF CheckPassword, Pend, SignIns, identityVars
<1>5. ASSUME NEW a \in Accounts, Disable(a) \/ Reactivate(a)
      PROVE  AccountsTyped'
    BY <1>5 DEF Disable, Reactivate, identityVars
<1>6. ASSUME NEW t \in Tokens, NEW s \in Sessions, Verify(t, s)
      PROVE  AccountsTyped'
    <2>1. token[t].account \in Accounts
        BY <1>6 DEF Verify, Live, Issued
    <2>2. QED
        BY <1>6, <2>1 DEF Verify
<1>7. ASSUME NEW t \in Tokens, NEW id \in SteamIds, ConfirmSteamLink(t, id)
      PROVE  AccountsTyped'
    <2>1. token[t].account \in Accounts
        BY <1>7 DEF ConfirmSteamLink, Live, Issued
    <2>2. QED
        BY <1>7, <2>1 DEF ConfirmSteamLink
<1>8. ASSUME NEW t \in Tokens, ConfirmReset(t)
      PROVE  AccountsTyped'
    <2> DEFINE a == token[t].account
               n == resets[a] + 1
    <2>1. a \in Accounts
        BY <1>8 DEF ConfirmReset, Live, Issued
    <2>2. n \in 0..MaxResets
        BY <1>8, <2>1, LimitsAssumption DEF ConfirmReset
    <2>3. resets' = [resets EXCEPT ![a] = n]
        BY <1>8 DEF ConfirmReset
    <2> HIDE DEF n, a
    <2>4. resets' \in [Accounts -> 0..MaxResets]
        BY <2>1, <2>2, <2>3
    <2>5. QED
        BY <1>8, <2>4 DEF ConfirmReset, identityVars
<1>9. ASSUME NEW t \in Tokens, ConfirmEmailLink(t)
      PROVE  AccountsTyped'
    <2>1. token[t].account \in Accounts /\ token[t].email \in Emails
        BY <1>9 DEF ConfirmEmailLink, Live, Issued
    <2>2. QED
        BY <1>9, <2>1 DEF ConfirmEmailLink
<1>10. ASSUME UNCHANGED <<status, identityVars, resets, signIn>>
      PROVE  AccountsTyped'
    BY <1>10 DEF identityVars
<1>11. ASSUME NEW a \in Accounts, NEW e \in Emails, NEW t \in Tokens,
              CreateEmailLink(a, e, t)
      PROVE  AccountsTyped'
    BY <1>10, <1>11 DEF CreateEmailLink
<1>12. ASSUME NEW a \in Accounts, NEW t \in Tokens,
              RequestReset(a, t) \/ CreateSteamLink(a, t)
      PROVE  AccountsTyped'
    BY <1>10, <1>12 DEF RequestReset, CreateSteamLink
<1>13. ASSUME NEW t \in Tokens, ExpireToken(t)
      PROVE  AccountsTyped'
    BY <1>10, <1>13 DEF ExpireToken
<1>14. ASSUME NEW s \in Sessions, EndSession(s)
      PROVE  AccountsTyped'
    BY <1>10, <1>14 DEF EndSession
<1>15. CASE AbandonSignIn
    BY <1>15 DEF AbandonSignIn, identityVars
<1>16. QED
    BY <1>1, <1>2, <1>3, <1>4, <1>5, <1>6, <1>7, <1>8, <1>9, <1>11, <1>12, <1>13, <1>14, <1>15
       DEF Next

LEMMA TypeStep ==
    ASSUME TypeInv, [Next]_vars
    PROVE  TypeInv'
<1>1. CASE UNCHANGED vars
    BY <1>1 DEF TypeInv, TypeOK, Issued, vars, identityVars
<1>2. CASE Next
    <2>1. AccountsTyped'
        BY <1>2, AccountsStep
    <2>2. /\ token' \in [Tokens -> TokenRows]
          /\ \A t \in Tokens : token'[t].state # "UNISSUED" =>
                /\ token'[t].account \in Accounts
                /\ token'[t].kind = "EMAIL_LINK" => token'[t].email \in Emails
        <3>1. CASE TokensStay
            BY <3>1 DEF TokensStay, TypeInv, TypeOK, Issued
        <3>2. CASE TokenSpent
            <4>1. PICK t \in Tokens, st \in {"USED", "VOID"}, group \in SUBSET Tokens :
                        /\ token[t].state = "LIVE"
                        /\ \A x \in group : token[x].state = "LIVE"
                        /\ token' = Spend(t, st, group)
                BY <3>2 DEF TokenSpent
            <4>2. QED
                BY <4>1, SpendEffect DEF TypeInv, Issued
        <3>3. CASE TokenIssued
            <4>1. PICK t \in Tokens, kind \in TokenKinds, a \in Accounts, e \in Emails \cup {NoEmail},
                       group \in SUBSET Tokens :
                        /\ token[t].state = "UNISSUED"
                        /\ kind = "EMAIL_LINK" => e \in Emails
                        /\ \A x \in group : token[x].state = "LIVE"
                        /\ token' = Supersede(group, t, TokenOf(kind, a, e))
                BY <3>3 DEF TokenIssued, LiveOf, Live
            <4>2. QED
                BY <4>1, SupersedeEffect, TokenOfTyped DEF TypeInv, Issued
        <3>4. QED
            BY <1>2, <3>1, <3>2, <3>3, TokenSteps
    <2>3. /\ session' \in [Sessions -> SessionRows]
          /\ \A s \in Sessions : session'[s].state # "FREE" => session'[s].account \in Accounts
        <3>1. CASE SessionsEnd
            BY <3>1 DEF SessionsEnd, TypeInv, Issued
        <3>2. CASE SessionOpened
            BY <3>2, OpenEffect DEF SessionOpened
        <3>3. QED
            BY <1>2, <3>1, <3>2, SessionSteps
    <2>4. QED
        BY <2>1, <2>2, <2>3 DEF TypeInv, TypeOK, Issued, AccountsTyped
<1>3. QED
    BY <1>1, <1>2

LEMMA TypeInit == Init => TypeInv
<1>1. ASSUME Init PROVE TypeInv
    <2>1. Unissued \in TokenRows /\ Unissued.state = "UNISSUED"
        BY LimitsAssumption DEF Unissued, TokenRows, TokenKinds, LinkKinds
    <2>2. Free \in SessionRows /\ Free.state = "FREE"
        BY LimitsAssumption DEF Free, SessionRows
    <2>3. 0 \in 0..MaxResets
        BY LimitsAssumption
    <2>4. QED
        BY <1>1, <2>1, <2>2, <2>3 DEF Init, TypeInv, TypeOK, Issued
<1>2. QED
    BY <1>1

(* Every column keeps its type, whatever is registered, linked, reset or     *)
(* disabled in whatever order.                                               *)
THEOREM TypeCorrect == Spec => []TypeOK
<1>1. TypeInv => TypeOK
    BY DEF TypeInv
<1>2. QED
    BY TypeInit, TypeStep, <1>1, PTL DEF Spec


-----------------------------------------------------------------------------
(* Link intents: a new one is only issued together with the end of those the *)
(* account had, so there is never a second live one.                         *)
LEMMA LinkStep ==
    ASSUME TypeInv, OneLinkIntent, [Next]_vars
    PROVE  OneLinkIntent'
<1> SUFFICES ASSUME NEW a \in Accounts, NEW kind \in LinkKinds,
                    NEW x \in LiveOf(a, kind)', NEW y \in LiveOf(a, kind)'
             PROVE  x = y
    BY DEF OneLinkIntent
<1>1. /\ x \in Tokens /\ y \in Tokens
      /\ token'[x].state = "LIVE" /\ token'[x].kind = kind /\ token'[x].account = a
      /\ token'[y].state = "LIVE" /\ token'[y].kind = kind /\ token'[y].account = a
    BY DEF LiveOf, Live
<1>2. ASSUME x \in LiveOf(a, kind), y \in LiveOf(a, kind)
      PROVE  x = y
    BY <1>2 DEF OneLinkIntent
<1>3. CASE TokensStay
    BY <1>1, <1>2, <1>3 DEF TokensStay, LiveOf, Live
<1>4. CASE TokenSpent
    <2>1. PICK t \in Tokens, st \in {"USED", "VOID"}, group \in SUBSET Tokens :
                /\ token[t].state = "LIVE"
                /\ \A z \in group : token[z].state = "LIVE"
                /\ token' = Spend(t, st, group)
        BY <1>4 DEF TokenSpent
    <2>2. \A z \in {x, y} : /\ token[z].kind = kind /\ token[z].account = a
                             /\ token[z].state = "LIVE"
        BY <1>1, <2>1, SpendEffect
    <2>3. QED
        BY <1>1, <1>2, <2>2 DEF LiveOf, Live
<1>5. CASE TokenIssued
    <2>1. PICK t \in Tokens, k \in TokenKinds, b \in Accounts, e \in Emails \cup {NoEmail},
               group \in SUBSET Tokens :
                /\ token[t].state = "UNISSUED"
                /\ k \in LinkKinds => group = LiveOf(b, k)
                /\ \A z \in group : token[z].state = "LIVE"
                /\ token' = Supersede(group, t, TokenOf(k, b, e))
        BY <1>5 DEF TokenIssued, LiveOf, Live
    <2>2. token'[t].kind = k /\ token'[t].account = b
        BY <2>1, SupersedeEffect, TokenOfTyped
    <2>3. ASSUME NEW z \in {x, y}, z # t
          PROVE  z \in LiveOf(a, kind) /\ z \notin group
        BY <1>1, <2>1, <2>3, SupersedeEffect, TokenOfTyped DEF LiveOf, Live
    <2>4. CASE x = t \/ y = t
        <3>1. k = kind /\ b = a /\ group = LiveOf(a, kind)
            BY <1>1, <2>1, <2>2, <2>4
        <3>2. QED
            BY <2>3, <2>4, <3>1
    <2>5. CASE x # t /\ y # t
        BY <1>2, <2>3, <2>5
    <2>6. QED
        BY <2>4, <2>5
<1>6. CASE UNCHANGED vars
    BY <1>3, <1>6 DEF vars, TokensStay
<1>7. QED
    BY <1>3, <1>4, <1>5, <1>6, TokenSteps

(* Only the last link asked for works: an account never has two live intents *)
(* of one kind.                                                              *)
THEOREM OneLink == Spec => []OneLinkIntent
<1>1. Init => OneLinkIntent
    BY DEF Init, OneLinkIntent, LiveOf, Live, Unissued
<1>2. QED
    BY TypeInit, TypeStep, LinkStep, <1>1, PTL DEF Spec


-----------------------------------------------------------------------------
(* Passwords: only a confirmed reset replaces one.                           *)
LEMMA ResetSteps ==
    ASSUME [Next]_vars
    PROVE  resets' = resets \/ \E t \in Tokens : ConfirmReset(t)
BY DEF Next, vars, Register, CreateEmailLink, RequestReset, CreateSteamLink, EmailLogin, SteamLogin,
       ResolveSteam, ResolveOrCreateFromSteamId, CheckPassword, Disable, Reactivate, Verify, ConfirmSteamLink, ConfirmEmailLink,
       ExpireToken, EndSession, AbandonSignIn

LEMMA ResetTokenStep ==
    ASSUME TypeInv, LiveResetIsCurrent, [Next]_vars
    PROVE  LiveResetIsCurrent'
<1> SUFFICES ASSUME NEW x \in Tokens, token'[x].state = "LIVE", token'[x].kind = "RESET"
             PROVE  token'[x].era = resets'[token'[x].account]
    BY DEF LiveResetIsCurrent, Live
<1>1. ASSUME NEW t \in Tokens, ConfirmReset(t)
      PROVE  token'[x].era = resets'[token'[x].account]
    <2> DEFINE a     == token[t].account
               group == LiveOf(a, "RESET")
    <2>1. a \in Accounts /\ token[t].state = "LIVE" /\ token' = Spend(t, "USED", group)
        BY <1>1 DEF ConfirmReset, Live, TypeInv, Issued
    <2>2. \A z \in group : token[z].state = "LIVE"
        BY DEF LiveOf, Live
    <2> HIDE DEF a, group
    <2>3. /\ token[x].state = "LIVE" /\ token[x].kind = "RESET" /\ x \notin group
          /\ token'[x].era = token[x].era /\ token'[x].account = token[x].account
        BY <2>1, <2>2, SpendEffect
    <2>4. token[x].account # a
        BY <2>3 DEF group, LiveOf, Live
    <2>5. resets' = [resets EXCEPT ![a] = @ + 1]
        BY <1>1 DEF ConfirmReset, a
    <2>6. resets'[token[x].account] = resets[token[x].account]
        BY <2>4, <2>5 DEF TypeInv, TypeOK, Issued
    <2>7. QED
        BY <2>3, <2>6 DEF LiveResetIsCurrent, Live
<1>2. CASE resets' = resets
    <2>1. CASE TokensStay
        BY <1>2, <2>1 DEF TokensStay, LiveResetIsCurrent, Live
    <2>2. CASE TokenSpent
        <3>1. PICK t \in Tokens, st \in {"USED", "VOID"}, group \in SUBSET Tokens :
                    /\ token[t].state = "LIVE"
                    /\ \A z \in group : token[z].state = "LIVE"
                    /\ token' = Spend(t, st, group)
            BY <2>2 DEF TokenSpent
        <3>2. /\ token[x].state = "LIVE" /\ token[x].kind = "RESET"
              /\ token'[x].era = token[x].era /\ token'[x].account = token[x].account
            BY <3>1, SpendEffect
        <3>3. QED
            BY <1>2, <3>2 DEF LiveResetIsCurrent, Live
    <2>3. CASE TokenIssued
        <3>1. PICK t \in Tokens, k \in TokenKinds, b \in Accounts, e \in Emails \cup {NoEmail},
                   group \in SUBSET Tokens :
                    /\ token[t].state = "UNISSUED"
                    /\ \A z \in group : token[z].state = "LIVE"
                    /\ token' = Supersede(group, t, TokenOf(k, b, e))
            BY <2>3 DEF TokenIssued, LiveOf, Live
        <3>2. CASE x = t
            BY <1>2, <3>1, <3>2, SupersedeEffect, TokenOfTyped
        <3>3. CASE x # t
            <4>1. /\ token[x].state = "LIVE" /\ token[x].kind = "RESET"
                  /\ token'[x].era = token[x].era /\ token'[x].account = token[x].account
                BY <3>1, <3>3, SupersedeEffect, TokenOfTyped
            <4>2. QED
                BY <1>2, <4>1 DEF LiveResetIsCurrent, Live
        <3>4. QED
            BY <3>2, <3>3
    <2>4. CASE UNCHANGED vars
        BY <2>1, <2>4 DEF vars, TokensStay
    <2>5. QED
        BY <2>1, <2>2, <2>3, <2>4, TokenSteps
<1>3. QED
    BY <1>1, <1>2, ResetSteps

(* One reset makes all the reset tokens mailed before it worthless.          *)
THEOREM ResetUsesUpTokens == Spec => []LiveResetIsCurrent
<1>1. Init => LiveResetIsCurrent
    BY DEF Init, LiveResetIsCurrent, Live, Unissued
<1>2. QED
    BY TypeInit, TypeStep, ResetTokenStep, <1>1, PTL DEF Spec

LEMMA SessionResetStep ==
    ASSUME TypeInv, SessionsFollowReset, [Next]_vars
    PROVE  SessionsFollowReset'
<1> SUFFICES ASSUME NEW s \in Sessions, session'[s].state = "LIVE"
             PROVE  session'[s].era = resets'[session'[s].account]
    BY DEF SessionsFollowReset
<1>1. ASSUME NEW t \in Tokens, ConfirmReset(t)
      PROVE  session'[s].era = resets'[session'[s].account]
    <2> DEFINE a == token[t].account
    <2>1. a \in Accounts /\ RevokeSessions(a)
        BY <1>1 DEF ConfirmReset, Live, TypeInv, Issued
    <2>2. resets' = [resets EXCEPT ![a] = @ + 1]
        BY <1>1 DEF ConfirmReset
    <2> HIDE DEF a
    <2>3. /\ session[s].state = "LIVE" /\ session[s].account # a
          /\ session'[s].era = session[s].era /\ session'[s].account = session[s].account
        BY <2>1, RevokeEffect
    <2>4. resets'[session[s].account] = resets[session[s].account]
        BY <2>2, <2>3 DEF TypeInv, TypeOK, Issued
    <2>5. QED
        BY <2>3, <2>4 DEF SessionsFollowReset
<1>2. CASE resets' = resets /\ SessionsEnd
    BY <1>2 DEF SessionsEnd, SessionsFollowReset
<1>3. CASE SessionOpened
    <2>1. PICK r \in Sessions, a \in Accounts, via \in {"VERIFY", "EMAIL", "STEAM"},
               from \in Tokens \cup {NoToken} : OpenSession(r, a, via, from) /\ resets' = resets
        BY <1>3 DEF SessionOpened
    <2> DEFINE row == [state |-> "LIVE", account |-> a, via |-> via, from |-> from, era |-> resets[a]]
    <2>2. CASE s = r
        <3>1. session'[s] = row
            BY <2>1, <2>2, OpenEffect
        <3>2. QED
            BY <2>1, <3>1
    <2>3. CASE s # r
        <3>1. session'[s] = session[s]
            BY <2>1, <2>3, OpenEffect
        <3>2. QED
            BY <2>1, <3>1 DEF SessionsFollowReset
    <2>4. QED
        BY <2>2, <2>3
<1>4. CASE UNCHANGED vars
    BY <1>4 DEF vars, SessionsFollowReset
<1>5. QED
    BY <1>1, <1>2, <1>3, <1>4, ResetSteps, SessionSteps

(* No session opened before a password reset survives it.                    *)
THEOREM ResetEndsSessions == Spec => []SessionsFollowReset
<1>1. Init => SessionsFollowReset
    BY DEF Init, SessionsFollowReset, Free
<1>2. QED
    BY TypeInit, TypeStep, SessionResetStep, <1>1, PTL DEF Spec


-----------------------------------------------------------------------------
(* Accounts: only disabling makes an active account inactive.                *)
LEMMA StatusSteps ==
    ASSUME TypeInv, [Next]_vars, NEW a \in Accounts, Active(a), ~Active(a)'
    PROVE  Disable(a)
<1>1. ASSUME NEW b \in Accounts, NEW e \in Emails, NEW t \in Tokens, Register(b, e, t)
      PROVE  FALSE
    BY <1>1 DEF Register, Active, TypeInv, TypeOK
<1>2. ASSUME NEW b \in Accounts, NEW id \in SteamIds, ResolveSteam(id, b)
      PROVE  FALSE
    BY <1>2 DEF ResolveSteam, ResolveOrCreateFromSteamId, Active, TypeInv, TypeOK
<1>3. ASSUME NEW b \in Accounts, Reactivate(b)
      PROVE  FALSE
    BY <1>3 DEF Reactivate, Active, TypeInv, TypeOK
<1>4. ASSUME NEW b \in Accounts, Disable(b)
      PROVE  Disable(a)
    BY <1>4 DEF Disable, Active, TypeInv, TypeOK
<1>5. ASSUME status' = status
      PROVE  FALSE
    BY <1>5 DEF Active
<1>6. QED
    BY <1>1, <1>2, <1>3, <1>4, <1>5
       DEF Next, vars, CreateEmailLink, RequestReset, CreateSteamLink, EmailLogin, SteamLogin,
           CheckPassword, Verify, ConfirmSteamLink, ConfirmReset, ConfirmEmailLink, ExpireToken,
           EndSession, AbandonSignIn

LEMMA DisabledStep ==
    ASSUME TypeInv, DisablingEndsSessions, [Next]_vars
    PROVE  DisablingEndsSessions'
<1> SUFFICES ASSUME NEW s \in Sessions, session'[s].state = "LIVE", session'[s].via # "STEAM"
             PROVE  status'[session'[s].account] = "active"
    BY DEF DisablingEndsSessions, Active
<1>1. CASE SessionsEnd
    <2>1. /\ session[s].state = "LIVE" /\ session[s].via # "STEAM"
          /\ session'[s].account = session[s].account
        BY <1>1 DEF SessionsEnd
    <2>2. PICK a \in Accounts : a = session[s].account
        BY <2>1 DEF TypeInv, Issued
    <2>3. Active(a)
        BY <2>1, <2>2 DEF DisablingEndsSessions
    <2>4. ASSUME Disable(a) PROVE FALSE
        <3>1. session[s].account # a
            BY <2>4, RevokeEffect DEF Disable
        <3>2. QED
            BY <2>2, <3>1
    <2>5. Active(a)'
        BY <2>3, <2>4, StatusSteps
    <2>6. QED
        BY <2>1, <2>2, <2>5 DEF Active
<1>2. CASE SessionOpened
    <2>1. PICK r \in Sessions, a \in Accounts, via \in {"VERIFY", "EMAIL", "STEAM"},
               from \in Tokens \cup {NoToken} :
                /\ OpenSession(r, a, via, from)
                /\ status' = status
                /\ via # "STEAM" => Active(a)
        BY <1>2 DEF SessionOpened
    <2> DEFINE row == [state |-> "LIVE", account |-> a, via |-> via, from |-> from, era |-> resets[a]]
    <2>2. CASE s = r
        <3>1. session'[s] = row
            BY <2>1, <2>2, OpenEffect
        <3>2. QED
            BY <2>1, <3>1 DEF Active
    <2>3. CASE s # r
        <3>1. session'[s] = session[s]
            BY <2>1, <2>3, OpenEffect
        <3>2. QED
            BY <2>1, <3>1 DEF DisablingEndsSessions, Active
    <2>4. QED
        BY <2>2, <2>3
<1>3. CASE UNCHANGED vars
    BY <1>3 DEF vars, DisablingEndsSessions, Active
<1>4. QED
    BY <1>1, <1>2, <1>3, SessionSteps

(* A disabled account keeps no session but one a Steam sign-in under way     *)
(* inserted afterwards.                                                      *)
THEOREM DisabledSessions == Spec => []DisablingEndsSessions
<1>1. Init => DisablingEndsSessions
    BY DEF Init, DisablingEndsSessions, Free
<1>2. QED
    BY TypeInit, TypeStep, DisabledStep, <1>1, PTL DEF Spec

-----------------------------------------------------------------------------
(* A session a verification opened remembers a token that is out of use.     *)
VerifyTokensSpent ==
    \A s \in Sessions :
        /\ session[s].via # "VERIFY" => session[s].from = NoToken
        /\ session[s].via = "VERIFY" => /\ session[s].from \in Tokens
                                        /\ token[session[s].from].state \in {"USED", "VOID"}

VerifyInv == VerifyTokensSpent /\ VerificationOpensOneSession

(* What is out of use stays out of use. *)
LEMMA SpentForGood ==
    ASSUME TypeInv, [Next]_vars, NEW x \in Tokens, token[x].state \in {"USED", "VOID"}
    PROVE  /\ token'[x].state = token[x].state /\ token'[x].kind = token[x].kind
           /\ token'[x].account = token[x].account /\ token'[x].email = token[x].email
<1>1. CASE TokensStay
    BY <1>1 DEF TokensStay
<1>2. CASE TokenSpent
    <2>1. PICK t \in Tokens, st \in {"USED", "VOID"}, group \in SUBSET Tokens :
                /\ token[t].state = "LIVE"
                /\ \A z \in group : token[z].state = "LIVE"
                /\ token' = Spend(t, st, group)
        BY <1>2 DEF TokenSpent
    <2>2. QED
        BY <2>1, SpendEffect
<1>3. CASE TokenIssued
    <2>1. PICK t \in Tokens, k \in TokenKinds, b \in Accounts, e \in Emails \cup {NoEmail},
               group \in SUBSET Tokens :
                /\ token[t].state = "UNISSUED"
                /\ \A z \in group : token[z].state = "LIVE"
                /\ token' = Supersede(group, t, TokenOf(k, b, e))
        BY <1>3 DEF TokenIssued, LiveOf, Live
    <2>2. x # t
        BY <2>1
    <2>3. QED
        BY <2>1, <2>2, SupersedeEffect, TokenOfTyped
<1>4. CASE UNCHANGED vars
    BY <1>4 DEF vars
<1>5. QED
    BY <1>1, <1>2, <1>3, <1>4, TokenSteps

LEMMA VerifyStep ==
    ASSUME TypeInv, VerifyInv, [Next]_vars
    PROVE  VerifyInv'
<1>1. CASE SessionsEnd
    <2>1. VerifyTokensSpent'
        BY <1>1, SpentForGood DEF SessionsEnd, VerifyInv, VerifyTokensSpent
    <2>2. VerificationOpensOneSession'
        BY <1>1 DEF SessionsEnd, VerifyInv, VerificationOpensOneSession
    <2>3. QED
        BY <2>1, <2>2 DEF VerifyInv
<1>2. CASE SessionOpened
    <2>1. PICK r \in Sessions, a \in Accounts, via \in {"VERIFY", "EMAIL", "STEAM"},
               from \in Tokens \cup {NoToken} :
                /\ OpenSession(r, a, via, from)
                /\ via = "VERIFY" => from \in Tokens /\ token[from].state = "LIVE"
                                     /\ token' = Spend(from, "USED", {})
                /\ via # "VERIFY" => from = NoToken
        BY <1>2 DEF SessionOpened, Live
    <2> DEFINE row == [state |-> "LIVE", account |-> a, via |-> via, from |-> from, era |-> resets[a]]
    <2>2. /\ session'[r] = row /\ row.via = via /\ row.from = from
          /\ \A s \in Sessions : s # r => session'[s] = session[s]
        BY <2>1, OpenEffect
    <2>3. via = "VERIFY" => token'[from].state = "USED"
        BY <2>1, SpendEffect
    <2> HIDE DEF row
    <2>4. VerifyTokensSpent'
        BY <2>1, <2>2, <2>3, SpentForGood DEF VerifyInv, VerifyTokensSpent
    <2>5. \A s \in Sessions : s # r /\ session[s].via = "VERIFY" => session[s].from # from
        BY <2>1, NullsAssumption DEF VerifyInv, VerifyTokensSpent
    <2>6. \A s \in Sessions : s # r /\ via = "VERIFY" => session[s].from # from
        BY <2>1, <2>5, NullsAssumption DEF VerifyInv, VerifyTokensSpent
    <2>7. VerificationOpensOneSession'
        BY <2>2, <2>5, <2>6 DEF VerifyInv, VerificationOpensOneSession
    <2>8. QED
        BY <2>4, <2>7 DEF VerifyInv
<1>3. CASE UNCHANGED vars
    BY <1>3 DEF vars, VerifyInv, VerifyTokensSpent, VerificationOpensOneSession
<1>4. QED
    BY <1>1, <1>2, <1>3, SessionSteps

(* A verification link signs in once, however often it is followed.          *)
THEOREM VerificationOnce == Spec => []VerificationOpensOneSession
<1>1. Init => VerifyInv
    BY DEF Init, VerifyInv, VerifyTokensSpent, VerificationOpensOneSession, Free
<1>2. VerifyInv => VerificationOpensOneSession
    BY DEF VerifyInv
<1>3. QED
    BY TypeInit, TypeStep, VerifyStep, <1>1, <1>2, PTL DEF Spec

(* No link serves twice, nor for an account that went on without it.         *)
THEOREM LinksAreSpent == Spec => []LinksSpent
<1>1. VerificationOpensOneSession /\ LiveResetIsCurrent /\ OneLinkIntent => LinksSpent
    BY DEF LinksSpent
<1>2. QED
    BY <1>1, VerificationOnce, ResetUsesUpTokens, OneLink, PTL

-----------------------------------------------------------------------------
(* Every step, as far as identities are concerned: nothing, a new account    *)
(* with one identity, or a second identity linked with a token of its own.   *)
IdentitiesStay ==
    /\ UNCHANGED <<email, steam>>
    /\ verified \subseteq verified'
    /\ \A a \in Accounts : status'[a] = "NONE" <=> status[a] = "NONE"
AccountByEmail ==
    \E a \in Accounts, e \in Emails :
        /\ status[a] = "NONE" /\ ~EmailTaken(e)
        /\ status' = [status EXCEPT ![a] = "active"]
        /\ email' = [email EXCEPT ![a] = e]
        /\ UNCHANGED <<steam, verified>>
AccountBySteam ==
    \E a \in Accounts, id \in SteamIds :
        /\ status[a] = "NONE" /\ ~SteamTaken(id)
        /\ status' = [status EXCEPT ![a] = "active"]
        /\ steam' = [steam EXCEPT ![a] = id]
        /\ UNCHANGED <<email, verified>>
EmailLinked ==
    \E t \in Tokens, a \in Accounts, e \in Emails :
        /\ token[t].account = a /\ token[t].email = e /\ token[t].kind = "EMAIL_LINK"
        /\ token'[t].state = "USED"
        /\ token'[t].kind = "EMAIL_LINK" /\ token'[t].account = a /\ token'[t].email = e
        /\ status[a] = "active" /\ email[a] = NoEmail /\ ~EmailTaken(e)
        /\ email' = [email EXCEPT ![a] = e]
        /\ verified' = verified \cup {a}
        /\ UNCHANGED <<status, steam>>
SteamLinked ==
    \E t \in Tokens, a \in Accounts, id \in SteamIds :
        /\ token'[t].state = "USED"
        /\ token'[t].kind = "STEAM_LINK" /\ token'[t].account = a
        /\ status[a] = "active" /\ steam[a] = NoSteam /\ ~SteamTaken(id)
        /\ steam' = [steam EXCEPT ![a] = id]
        /\ UNCHANGED <<status, email, verified>>

LEMMA IdentitySteps ==
    ASSUME TypeInv, [Next]_vars
    PROVE  IdentitiesStay \/ AccountByEmail \/ AccountBySteam \/ EmailLinked \/ SteamLinked
<1>1. ASSUME NEW a \in Accounts, NEW e \in Emails, NEW t \in Tokens, Register(a, e, t)
      PROVE  AccountByEmail
    BY <1>1 DEF Register, AccountByEmail
<1>2. ASSUME NEW a \in Accounts, NEW id \in SteamIds, ResolveSteam(id, a)
      PROVE  IdentitiesStay \/ AccountBySteam
    BY <1>2 DEF ResolveSteam, ResolveOrCreateFromSteamId, AccountBySteam, IdentitiesStay
<1>3. ASSUME NEW a \in Accounts, Disable(a) \/ Reactivate(a)
      PROVE  IdentitiesStay
    BY <1>3 DEF Disable, Reactivate, Active, IdentitiesStay, identityVars, TypeInv, TypeOK
<1>4. ASSUME NEW t \in Tokens, NEW s \in Sessions, Verify(t, s)
      PROVE  IdentitiesStay
    BY <1>4 DEF Verify, IdentitiesStay
<1>5. ASSUME NEW t \in Tokens, NEW id \in SteamIds, ConfirmSteamLink(t, id)
      PROVE  IdentitiesStay \/ SteamLinked
    <2>1. PICK a \in Accounts : a = token[t].account
        BY <1>5 DEF ConfirmSteamLink, Live, TypeInv, Issued
    <2>2. token[t].state = "LIVE" /\ token[t].kind = "STEAM_LINK"
        BY <1>5 DEF ConfirmSteamLink, Live
    <2>3. CASE steam' = steam
        BY <1>5, <2>3 DEF ConfirmSteamLink, IdentitiesStay
    <2>4. CASE steam' # steam
        <3>1. /\ Active(a) /\ steam[a] = NoSteam /\ ~SteamTaken(id)
              /\ steam' = [steam EXCEPT ![a] = id] /\ token' = Spend(t, "USED", {})
              /\ UNCHANGED <<status, email, verified>>
            BY <1>5, <2>1, <2>4 DEF ConfirmSteamLink
        <3>2. token'[t].state = "USED" /\ token'[t].kind = "STEAM_LINK" /\ token'[t].account = a
            BY <2>1, <2>2, <3>1, SpendEffect
        <3>3. QED
            BY <3>1, <3>2 DEF SteamLinked, Active
    <2>5. QED
        BY <2>3, <2>4
<1>6. ASSUME NEW t \in Tokens, ConfirmEmailLink(t)
      PROVE  IdentitiesStay \/ EmailLinked
    <2>1. PICK a \in Accounts : a = token[t].account
        BY <1>6 DEF ConfirmEmailLink, Live, TypeInv, Issued
    <2>2. token[t].state = "LIVE" /\ token[t].kind = "EMAIL_LINK" /\ token[t].email \in Emails
        BY <1>6 DEF ConfirmEmailLink, Live, TypeInv, Issued
    <2> DEFINE group == LiveOf(a, "EMAIL_LINK")
    <2>3. \A z \in group : token[z].state = "LIVE"
        BY DEF LiveOf, Live
    <2>4. CASE UNCHANGED <<email, verified>>
        BY <1>6, <2>4 DEF ConfirmEmailLink, IdentitiesStay
    <2>5. CASE ~UNCHANGED <<email, verified>>
        <3>1. /\ Active(a) /\ email[a] = NoEmail /\ ~EmailTaken(token[t].email)
              /\ email' = [email EXCEPT ![a] = token[t].email] /\ verified' = verified \cup {a}
              /\ token' = Spend(t, "USED", group)
              /\ UNCHANGED <<status, steam>>
            BY <1>6, <2>1, <2>5 DEF ConfirmEmailLink
        <3> HIDE DEF group
        <3>2. /\ token'[t].state = "USED" /\ token'[t].kind = "EMAIL_LINK"
              /\ token'[t].account = a /\ token'[t].email = token[t].email
            BY <2>1, <2>2, <2>3, <3>1, SpendEffect
        <3>3. QED
            BY <2>1, <2>2, <3>1, <3>2 DEF EmailLinked, Active
    <2>6. QED
        BY <2>4, <2>5
<1>7. ASSUME UNCHANGED <<status, identityVars>>
      PROVE  IdentitiesStay
    BY <1>7 DEF identityVars, IdentitiesStay
<1>8. QED
    BY <1>1, <1>2, <1>3, <1>4, <1>5, <1>6, <1>7
       DEF Next, vars, CreateEmailLink, RequestReset, CreateSteamLink, EmailLogin, SteamLogin,
           CheckPassword, ConfirmReset, ExpireToken, EndSession, AbandonSignIn

LEMMA IdentityStep ==
    ASSUME TypeInv, IdentityModel, [Next]_vars
    PROVE  IdentityModel'
<1> USE NullsAssumption DEF TypeInv, TypeOK, IdentityModel
<1>1. CASE IdentitiesStay
    BY <1>1 DEF IdentitiesStay
<1>2. CASE AccountByEmail
    BY <1>2 DEF AccountByEmail, EmailTaken
<1>3. CASE AccountBySteam
    BY <1>3 DEF AccountBySteam, SteamTaken
<1>4. CASE EmailLinked
    BY <1>4 DEF EmailLinked, EmailTaken
<1>5. CASE SteamLinked
    BY <1>5 DEF SteamLinked, SteamTaken
<1>6. QED
    BY <1>1, <1>2, <1>3, <1>4, <1>5, IdentitySteps

LEMMA IdentityInit == Init => IdentityModel
BY DEF Init, IdentityModel

(* Nobody owns somebody else's address or Steam id, and every account in use *)
(* has an identity.                                                          *)
THEOREM IdentitiesUnique == Spec => []IdentityModel
BY TypeInit, TypeStep, IdentityInit, IdentityStep, PTL DEF Spec

(* An identity stays with its account, and a verified address stays so.      *)
THEOREM IdentitiesStayPut == Spec => IdentitiesKept
<1> DEFINE Kept == \A a \in Accounts :
                       /\ email[a] # NoEmail => email'[a] = email[a]
                       /\ steam[a] # NoSteam => steam'[a] = steam[a]
                       /\ a \in verified => a \in verified'
<1>1. ASSUME TypeInv, IdentityModel, [Next]_vars
      PROVE  [Kept]_vars
    <2> USE <1>1 DEF TypeInv, TypeOK, IdentityModel
    <2>1. CASE IdentitiesStay
        BY <2>1 DEF IdentitiesStay
    <2>2. CASE AccountByEmail
        BY <2>2 DEF AccountByEmail
    <2>3. CASE AccountBySteam
        BY <2>3 DEF AccountBySteam
    <2>4. CASE EmailLinked
        BY <2>4 DEF EmailLinked
    <2>5. CASE SteamLinked
        BY <2>5 DEF SteamLinked
    <2>6. QED
        BY <2>1, <2>2, <2>3, <2>4, <2>5, IdentitySteps
<1>2. QED
    BY TypeInit, TypeStep, IdentityInit, IdentityStep, <1>1, PTL DEF Spec, IdentitiesKept

LEMMA LinkedStep ==
    ASSUME TypeInv, IdentityModel, TwoIdentitiesWereLinked, [Next]_vars
    PROVE  TwoIdentitiesWereLinked'
<1> SUFFICES ASSUME NEW a \in Accounts, email'[a] # NoEmail, steam'[a] # NoSteam
             PROVE  \E t \in Tokens :
                        /\ token'[t].state = "USED" /\ token'[t].account = a
                        /\ \/ token'[t].kind = "STEAM_LINK"
                           \/ token'[t].kind = "EMAIL_LINK" /\ token'[t].email = email'[a]
    BY DEF TwoIdentitiesWereLinked
<1>1. ASSUME email'[a] = email[a], steam'[a] = steam[a]
      PROVE  \E t \in Tokens :
                 /\ token'[t].state = "USED" /\ token'[t].account = a
                 /\ \/ token'[t].kind = "STEAM_LINK"
                    \/ token'[t].kind = "EMAIL_LINK" /\ token'[t].email = email'[a]
    <2>1. PICK t \in Tokens :
                 /\ token[t].state = "USED" /\ token[t].account = a
                 /\ \/ token[t].kind = "STEAM_LINK"
                    \/ token[t].kind = "EMAIL_LINK" /\ token[t].email = email[a]
        BY <1>1 DEF TwoIdentitiesWereLinked
    <2>2. QED
        BY <1>1, <2>1, SpentForGood
<1>2. CASE IdentitiesStay
    BY <1>1, <1>2 DEF IdentitiesStay
<1>3. CASE AccountByEmail
    BY <1>1, <1>3 DEF AccountByEmail, IdentityModel, TypeInv, TypeOK
<1>4. CASE AccountBySteam
    BY <1>1, <1>4 DEF AccountBySteam, IdentityModel, TypeInv, TypeOK
<1>5. CASE EmailLinked
    BY <1>1, <1>5 DEF EmailLinked, TypeInv, TypeOK
<1>6. CASE SteamLinked
    BY <1>1, <1>6 DEF SteamLinked, TypeInv, TypeOK
<1>7. QED
    BY <1>2, <1>3, <1>4, <1>5, <1>6, IdentitySteps

(* An account with both identities linked one of them itself.                *)
THEOREM SecondIdentityLinked == Spec => []TwoIdentitiesWereLinked
<1>1. Init => TwoIdentitiesWereLinked
    BY DEF Init, TwoIdentitiesWereLinked
<1>2. QED
    BY TypeInit, TypeStep, IdentityInit, IdentityStep, LinkedStep, <1>1, PTL DEF Spec


=============================================================================
