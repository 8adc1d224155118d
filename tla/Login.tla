-------------------------------- MODULE Login --------------------------------
(***************************************************************************)
(* Sessions, OAuth login and logout, and the vault of delegated            *)
(* credentials (internal/session, auth, vault, authn and the vend endpoint *)
(* of internal/api).                                                       *)
(*                                                                         *)
(* The tabs of one browser share a cookie jar and log in and out as they   *)
(* please; runtimes vend a user's credential, which refreshes it at the    *)
(* provider when its access token has expired.  A step is one critical     *)
(* section of the session manager or of the vault, one exchange with the   *)
(* provider, or one response that reaches the browser.  A request is read  *)
(* by the server in the step that sends it, and keeps its cookie.          *)
(***************************************************************************)
EXTENDS Naturals, FiniteSets, Functions

CONSTANTS User,        \* accounts at the provider, and the users mapUser makes of them
          NoUser,      \* the user of a pre-auth session
          Tab,         \* tabs of the browser
          Runtime,     \* runtimes that vend credentials
          Refreshing,  \* what providers do with a refresh token: some of
                       \* "none" (they issue none), "keeps", "rotates"
          MaxSessions, \* bound: session ids
          MaxTokens    \* bound: access tokens the provider issues

ASSUME LoginAssumption ==
    /\ NoUser \notin User
    /\ Refreshing \subseteq {"none", "keeps", "rotates"}
    /\ MaxSessions \in Nat /\ MaxTokens \in Nat

NoCookie == 0
NoSecret == 0
SessionId == 1 .. MaxSessions

\* vault.Credential.  Tokens are numbered as the provider issues them; the
\* refresh token issued with access token n is n as well.
NoCredential == [access |-> NoSecret, refresh |-> NoSecret]

\* What Session.data holds.  The state and the PKCE verifier of a pre-auth
\* session are made with it and known by its id.
NewData(user) == [user |-> user, expired |-> FALSE]

VARIABLES
    provider,  \* what the provider does with refresh tokens; never changes
    sessions,  \* Manager.sessions
    issued,    \* how many session ids randomToken has made
    jar,       \* the browser's session cookie
    tab,       \* Tab -> [pc, cookie of its request, state it came back with,
               \*         user, cred: the token it carries, set: cookie to set];
               \* pc "redirect" (to the provider) and "reply" are responses on
               \* their way, "consent" shows the provider's page, and the
               \* server is at work from "callback" and from "deleting" on
    vault,     \* MemoryVault.creds, of one provider
    tokens,    \* how many access tokens the provider has issued
    old,       \* expired access tokens
    revoked,   \* access tokens invalidated at the provider's
    spent,     \* refresh tokens the provider accepts no more
    vend,      \* Runtime -> its Credential call
    lost,      \* history: users one of whose refreshes was answered in vain
    removed    \* history: the access tokens a logout took from the vault

sessionVars == <<sessions, issued>>
providerVars == <<provider, tokens, old, revoked, spent>>
history == <<lost, removed>>
vars == <<sessionVars, jar, tab, vault, providerVars, vend, history>>

IdleTab == [pc |-> "idle", cookie |-> NoCookie, state |-> NoCookie,
            user |-> NoUser, cred |-> NoCredential, set |-> NoCookie]
IdleVend == [pc |-> "idle", user |-> NoUser,
             cred |-> NoCredential, fresh |-> NoCredential]

Init ==
    /\ provider \in Refreshing
    /\ sessions = <<>> /\ issued = 0 /\ jar = NoCookie
    /\ tab = [t \in Tab |-> IdleTab]
    /\ vault = <<>>
    /\ tokens = 0 /\ old = {} /\ revoked = {} /\ spent = {}
    /\ vend = [r \in Runtime |-> IdleVend]
    /\ lost = {} /\ removed = {}

-------------------------------------------------------------------------------
(***************************************************************************)
(* The session manager.                                                    *)
(***************************************************************************)

\* get: the request's session, if it is there and has not expired.
Found(cookie) == cookie \in DOMAIN sessions /\ ~sessions[cookie].expired

\* CurrentUser
CurrentUser(cookie) == IF Found(cookie) THEN sessions[cookie].user ELSE NoUser

\* What get leaves of the table: it deletes an expired session it meets.
Swept(cookie) ==
    IF cookie \in DOMAIN sessions /\ sessions[cookie].expired
    THEN Restrict(sessions, DOMAIN sessions \ {cookie}) ELSE sessions

With(table, id, user) ==
    [s \in DOMAIN table \union {id} |->
        IF s = id THEN NewData(user) ELSE table[s]]

Without(table, id) == Restrict(table, DOMAIN table \ {id})

\* newSession after the request's own session, if any, was deleted; the
\* response sets its cookie.
NewSession(t, pc, before, user) ==
    /\ issued < MaxSessions
    /\ issued' = issued + 1
    /\ sessions' = With(Without(sessions, before), issued + 1, user)
    /\ tab' = [tab EXCEPT ![t] = [IdleTab EXCEPT !.pc = pc, !.set = issued + 1]]

\* maxAge passes over a session.
Expire(s) ==
    /\ s \in DOMAIN sessions /\ ~sessions[s].expired
    /\ sessions' = [sessions EXCEPT ![s].expired = TRUE]
    /\ UNCHANGED <<issued, jar, tab, vault, providerVars, vend, history>>

\* gc
Collect ==
    /\ \E s \in DOMAIN sessions : sessions[s].expired
    /\ sessions' = Restrict(sessions, {s \in DOMAIN sessions : ~sessions[s].expired})
    /\ UNCHANGED <<issued, jar, tab, vault, providerVars, vend, history>>

-------------------------------------------------------------------------------
(***************************************************************************)
(* Login: Login, the provider's consent page, Callback.                    *)
(***************************************************************************)

\* Login: StartOAuth leaves whatever session the browser had where it is.
StartLogin(t) ==
    /\ tab[t].pc = "idle"
    /\ NewSession(t, "redirect", NoCookie, NoUser)
    /\ UNCHANGED <<jar, vault, providerVars, vend, history>>

\* The response arrives.  That of a login shows the consent page, which will
\* send the browser back with the state of the flow.
Arrive(t) ==
    /\ tab[t].pc \in {"redirect", "reply"}
    /\ jar' = tab[t].set
    /\ tab' = [tab EXCEPT ![t] =
            IF tab[t].pc = "redirect" THEN [IdleTab EXCEPT !.pc = "consent", !.state = tab[t].set]
                                      ELSE IdleTab]
    /\ UNCHANGED <<sessionVars, vault, providerVars, vend, history>>

\* Callback up to the exchange: the flow is that of the cookie the browser
\* holds now, which another tab may have replaced; its state must be the one
\* that came back, with a code (there is none, NoUser, when consent is refused).
Callback(t, u) ==
    /\ tab[t].pc = "consent"
    /\ sessions' = Swept(jar)
    /\ tab' = [tab EXCEPT ![t] =
            IF Found(jar) /\ sessions[jar].user = NoUser /\ tab[t].state = jar /\ u # NoUser
            THEN [@ EXCEPT !.pc = "callback", !.cookie = jar, !.user = u]
            ELSE IdleTab]
    /\ UNCHANGED <<issued, jar, vault, providerVars, vend, history>>

\* The code is exchanged and the profile fetched, or either fails.
ExchangeCode(t, ok) ==
    /\ tab[t].pc = "callback"
    /\ IF ok
       THEN LET n == tokens + 1
                r == IF provider = "none" THEN NoSecret ELSE n IN
            /\ n <= MaxTokens /\ tokens' = n
            /\ tab' = [tab EXCEPT ![t].pc = "exchanged",
                                  ![t].cred = [access |-> n, refresh |-> r]]
       ELSE tab' = [tab EXCEPT ![t] = IdleTab] /\ UNCHANGED tokens
    /\ UNCHANGED <<sessionVars, jar, vault, provider, old, revoked, spent, vend, history>>

\* MemoryVault.Put
Put(u, cred) == vault' = [x \in DOMAIN vault \union {u} |-> IF x = u THEN cred ELSE vault[x]]

StoreCredential(t) ==
    /\ tab[t].pc = "exchanged"
    /\ Put(tab[t].user, tab[t].cred)
    /\ tab' = [tab EXCEPT ![t].pc = "stored"]
    /\ UNCHANGED <<sessionVars, jar, providerVars, vend, history>>

\* mutant: the pre-auth session is upgraded in place
AuthenticateInPlace(t) ==
    /\ tab[t].pc = "stored" /\ tab[t].cookie \in DOMAIN sessions
    /\ sessions' = [sessions EXCEPT ![tab[t].cookie].user = tab[t].user]
    /\ tab' = [tab EXCEPT ![t] = [IdleTab EXCEPT !.pc = "reply", !.set = tab[t].cookie]]
    /\ UNCHANGED <<issued, jar, vault, providerVars, vend, history>>

\* Authenticate: the request's session, found or expired, goes; a new id
\* carries the user.
Authenticate(t) ==
    /\ tab[t].pc = "stored"
    /\ NewSession(t, "reply", tab[t].cookie, tab[t].user)
    /\ UNCHANGED <<jar, vault, providerVars, vend, history>>

-------------------------------------------------------------------------------
(***************************************************************************)
(* Logout.                                                                 *)
(***************************************************************************)

\* Logout reads the user of the request and, if there is one, its credential.
StartLogout(t) ==
    LET u == CurrentUser(jar) IN
    /\ tab[t].pc = "idle"
    /\ sessions' = IF u = NoUser THEN Without(sessions, jar) ELSE sessions
    /\ tab' = [tab EXCEPT ![t] =
            IF u = NoUser THEN [IdleTab EXCEPT !.pc = "reply"]
            ELSE [IdleTab EXCEPT !.pc = "deleting", !.cookie = jar, !.user = u,
                                 !.cred = IF u \in DOMAIN vault THEN vault[u] ELSE NoCredential]]
    /\ UNCHANGED <<issued, jar, vault, providerVars, vend, history>>

\* MemoryVault.Delete: what it deletes may be newer than what was read.
DeleteCredential(t) ==
    LET u == tab[t].user IN
    /\ tab[t].pc = "deleting"
    /\ vault' = Restrict(vault, DOMAIN vault \ {u})
    /\ removed' = removed \union {vault[x].access : x \in {u} \intersect DOMAIN vault}
    /\ tab' = [tab EXCEPT ![t].pc = "revoking"]
    /\ UNCHANGED <<sessionVars, jar, providerVars, vend, lost>>

\* The provider is asked to invalidate the access token that was read - it may
\* refuse or not answer - and Destroy ends the session whatever came of it.
RevokeAndDestroy(t, ok) ==
    /\ tab[t].pc = "revoking"
    /\ revoked' = IF ok THEN revoked \union ({tab[t].cred.access} \ {NoSecret}) ELSE revoked
    /\ sessions' = Without(sessions, tab[t].cookie)
    /\ tab' = [tab EXCEPT ![t] = [IdleTab EXCEPT !.pc = "reply"]]
    /\ UNCHANGED <<issued, jar, vault, provider, tokens, old, spent, vend, history>>

-------------------------------------------------------------------------------
(***************************************************************************)
(* Vending a credential to a runtime.                                      *)
(***************************************************************************)

\* What a request may carry as a bearer: nothing, a job token that does not
\* validate, or one that acts for a user.
Bearer == {"none", "invalid"} \union User

\* authn.resolve: a bearer is authoritative and never falls through to the
\* cookie.
Resolve(cookie, bearer) ==
    IF bearer \in User THEN [kind |-> "workload", user |-> bearer]
    ELSE IF bearer = "none" /\ CurrentUser(cookie) # NoUser
         THEN [kind |-> "user", user |-> CurrentUser(cookie)]
         ELSE [kind |-> "nobody", user |-> NoUser]

\* Vend behind RequireScope, and Credential up to the token source: only a
\* workload gets a credential, its acting user's.  One without a refresh token
\* is returned as it is, which ends the call.
Vend(r, bearer) ==
    LET p == Resolve(jar, bearer) IN
    /\ vend[r].pc = "idle"
    /\ p.kind = "workload" /\ p.user \in DOMAIN vault
    /\ vault[p.user].refresh # NoSecret
    /\ vend' = [vend EXCEPT ![r] = [IdleVend EXCEPT !.pc = "read", !.user = p.user,
                                                    !.cred = vault[p.user]]]
    /\ UNCHANGED <<sessionVars, jar, tab, vault, providerVars, history>>

\* TokenSource.Token: an unexpired token as it is; otherwise a refresh, which
\* a provider that rotates accepts once.  No answer may come back (inVain).
Refresh(r, inVain) ==
    LET c == vend[r].cred
        n == tokens + 1
        refused == c.refresh \in spent IN
    /\ vend[r].pc = "read"
    /\ IF c.access \notin old
       THEN /\ ~inVain
            /\ vend' = [vend EXCEPT ![r].pc = "fresh", ![r].fresh = c]
            /\ UNCHANGED <<tokens, spent, lost>>
       ELSE IF refused
       THEN /\ vend' = [vend EXCEPT ![r] = IdleVend]
            /\ UNCHANGED <<tokens, spent, lost>>
       ELSE /\ n <= MaxTokens /\ tokens' = n
            /\ spent' = IF provider = "rotates" THEN spent \union {c.refresh} ELSE spent
            /\ lost' = IF inVain THEN lost \union {vend[r].user} ELSE lost
            /\ vend' = [vend EXCEPT ![r] =
                    IF inVain THEN IdleVend
                    ELSE [@ EXCEPT !.pc = "fresh", !.fresh = [access |-> n,
                              refresh |-> IF provider = "rotates" THEN n ELSE NoSecret]]]
    /\ UNCHANGED <<sessionVars, jar, tab, vault, provider, old, revoked, removed>>

\* mutant: what the provider answered is stored as it is
RotatedAsAnswered(cred, fresh) == fresh

\* The credential to store: the old refresh token stays when no new one came.
Rotated(cred, fresh) ==
    IF fresh.refresh = NoSecret THEN [fresh EXCEPT !.refresh = cred.refresh] ELSE fresh

\* mutant: the credential is written back whether or not it was rotated
PersistAlways(r) == Put(vend[r].user, Rotated(vend[r].cred, vend[r].fresh))

\* Credential's end: a rotated credential is stored, for a user who may have
\* logged out or in again since it was read.
Persist(r) ==
    IF vend[r].fresh.access = vend[r].cred.access THEN UNCHANGED vault
    ELSE Put(vend[r].user, Rotated(vend[r].cred, vend[r].fresh))

EndVend(r) ==
    /\ vend[r].pc = "fresh"
    /\ Persist(r)
    /\ vend' = [vend EXCEPT ![r] = IdleVend]
    /\ UNCHANGED <<sessionVars, jar, tab, providerVars, history>>

\* An access token expires, while the vault or a vend still holds it.
InUse == {vault[u].access : u \in DOMAIN vault} \union {vend[r].cred.access : r \in Runtime}

TokenExpires(n) ==
    /\ n \in InUse \ old /\ old' = old \union {n}
    /\ UNCHANGED <<sessionVars, jar, tab, vault, provider, tokens, revoked, spent, vend, history>>

TabStep(t) ==
    \/ StartLogin(t) \/ Arrive(t) \/ StoreCredential(t) \/ Authenticate(t)
    \/ StartLogout(t) \/ DeleteCredential(t)
    \/ \E u \in User \union {NoUser} : Callback(t, u)
    \/ \E b \in BOOLEAN : ExchangeCode(t, b) \/ RevokeAndDestroy(t, b)

RuntimeStep(r) ==
    \/ \E b \in Bearer : Vend(r, b)
    \/ \E b \in BOOLEAN : Refresh(r, b)
    \/ EndVend(r)

Next ==
    \/ \E t \in Tab : TabStep(t)
    \/ \E r \in Runtime : RuntimeStep(r)
    \/ \E s \in SessionId : Expire(s)
    \/ Collect
    \/ \E n \in 1 .. tokens : TokenExpires(n)

Spec == Init /\ [][Next]_vars

-------------------------------------------------------------------------------
(***************************************************************************)
(* Properties.                                                             *)
(***************************************************************************)

\* A session becomes authenticated only under an id nobody has seen before,
\* for the account that consented, and the pre-auth session of the flow ends
\* in the same step: whoever knew the id of the browser's session before the
\* login knows nothing after it (Authenticate "to prevent session fixation").
LoginRotatesId ==
    [][\A s \in DOMAIN sessions' :
          (sessions'[s].user # NoUser /\ (s \in DOMAIN sessions => sessions[s].user = NoUser))
          => /\ s > issued
             /\ \E t \in Tab : /\ tab[t].pc = "stored"
                               /\ tab[t].user = sessions'[s].user
                               /\ tab[t].cookie \notin DOMAIN sessions']_vars

\* What a logout has deleted from the vault or revoked does not come back: no
\* vend or login that was in progress meanwhile writes the same access token
\* again (Credential returns without a write when nothing was rotated).
DeletedStaysDeleted ==
    \A u \in DOMAIN vault : vault[u].access \notin removed \union revoked

\* When no refresh of a user is between the provider and the vault, and none
\* of its answers was lost, the refresh token in the vault is one the provider
\* still accepts: of two vends that refresh at once, or a refresh that a login
\* overtakes, none leaves a spent or a missing token behind.
StaysRefreshable ==
    \A u \in DOMAIN vault :
        ( /\ provider # "none" /\ u \notin lost
          /\ \A r \in Runtime : vend[r].pc = "fresh" => vend[r].user # u )
        => vault[u].refresh \notin ({NoSecret} \union spent)
===============================================================================
