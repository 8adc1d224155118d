----------------------------- MODULE LoginProofs ------------------------------
(***************************************************************************)
(* What login, logout and vending promise, for any number of users, tabs,  *)
(* runtimes, sessions and tokens, and every kind of provider.              *)
(*                                                                         *)
(* An access token is in hand from the moment the provider has issued it   *)
(* until it is stored.  Everything about the vault rests on this: a token  *)
(* in hand is in one hand only, and nobody has read, deleted, revoked or   *)
(* spent it yet.  What was read of the vault is not in hand, so it is never *)
(* written again.                                                          *)
(***************************************************************************)
EXTENDS Login, TLAPS

TabPc == {"idle", "redirect", "consent", "callback", "exchanged", "stored",
          "reply", "deleting", "revoking"}

Credential == [access : Nat, refresh : Nat]

SessionState == [user : User \union {NoUser}, expired : BOOLEAN]

TabState == [pc : TabPc, cookie : Nat, state : Nat, user : User \union {NoUser},
             cred : Credential, set : Nat]

VendState == [pc : {"idle", "read", "fresh"}, user : User \union {NoUser},
              cred : Credential, fresh : Credential]

\* The variables have their types.
TypeOK ==
    /\ provider \in Refreshing
    /\ issued \in Nat /\ jar \in Nat /\ tokens \in Nat
    /\ DOMAIN sessions \subseteq Nat
    /\ \A s \in DOMAIN sessions : sessions[s] \in SessionState
    /\ tab \in [Tab -> TabState]
    /\ DOMAIN vault \subseteq User
    /\ \A u \in DOMAIN vault : vault[u] \in Credential
    /\ old \subseteq Nat /\ revoked \subseteq Nat /\ spent \subseteq Nat /\ removed \subseteq Nat
    /\ vend \in [Runtime -> VendState]
    /\ lost \subseteq User

\* Session ids in use have been issued.
IdsIssued ==
    /\ \A s \in DOMAIN sessions : s <= issued
    /\ jar <= issued
    /\ \A t \in Tab : tab[t].cookie <= issued /\ tab[t].set <= issued

\* The server works for a known account from the callback on.
Served(t) == tab[t].pc \in {"callback", "exchanged", "stored", "deleting", "revoking"}

AccountsKnown ==
    /\ \A t \in Tab : Served(t) => tab[t].user \in User
    /\ \A r \in Runtime : vend[r].pc # "idle" => vend[r].user \in User

SessionInv == TypeOK /\ IdsIssued /\ AccountsKnown

-------------------------------------------------------------------------------
(* What is known of credentials.                                           *)

\* The provider has answered a refresh with a new token, not yet stored.
Renewed(r) == vend[r].pc = "fresh" /\ vend[r].fresh.access # vend[r].cred.access

Exchanged(t) == tab[t].pc = "exchanged"

\* Logout holds the credential it read.
LoggingOut(t) == tab[t].pc \in {"deleting", "revoking"}

\* A credential as the provider issues them.
Sound(c) ==
    /\ c.access \in 1 .. tokens
    /\ provider = "none"    => c.refresh = NoSecret
    /\ provider = "keeps"   => c.refresh # NoSecret
    /\ provider = "rotates" => c.refresh = c.access

CredentialsSound ==
    /\ \A u \in DOMAIN vault : Sound(vault[u])
    /\ \A t \in Tab : Exchanged(t) => Sound(tab[t].cred)
    /\ \A t \in Tab : LoggingOut(t) => tab[t].cred.access \in 0 .. tokens
    /\ \A r \in Runtime : vend[r].pc # "idle" =>
         Sound(vend[r].cred) /\ vend[r].cred.refresh # NoSecret
    /\ \A r \in Runtime : Renewed(r) =>
         /\ vend[r].fresh.access \in 1 .. tokens
         /\ vend[r].fresh.refresh =
              IF provider = "rotates" THEN vend[r].fresh.access ELSE NoSecret
    /\ \A n \in removed \union revoked \union spent : n <= tokens

\* A token in hand is in one hand.
HandsApart ==
    /\ \A t, v \in Tab : (Exchanged(t) /\ Exchanged(v) /\ tab[t].cred.access = tab[v].cred.access)
                            => t = v
    /\ \A r, q \in Runtime : (Renewed(r) /\ Renewed(q) /\ vend[r].fresh.access = vend[q].fresh.access)
                            => r = q
    /\ \A t \in Tab, r \in Runtime : (Exchanged(t) /\ Renewed(r))
                            => tab[t].cred.access # vend[r].fresh.access

\* Nobody but its holder has seen a token in hand.
Unseen(n) ==
    /\ n \notin removed /\ n \notin revoked /\ n \notin spent
    /\ \A u \in DOMAIN vault : vault[u].access # n
    /\ \A r \in Runtime : vend[r].pc # "idle" => vend[r].cred.access # n
    /\ \A t \in Tab : LoggingOut(t) => tab[t].cred.access # n

HandsUnseen ==
    /\ \A t \in Tab : Exchanged(t) => Unseen(tab[t].cred.access)
    /\ \A r \in Runtime : Renewed(r) => Unseen(vend[r].fresh.access)

\* A token in the vault is there once, and whoever read it knows for whom.
VaultApart ==
    /\ \A u, v \in DOMAIN vault : vault[u].access = vault[v].access => u = v
    /\ \A r \in Runtime, u \in DOMAIN vault :
         (vend[r].pc # "idle" /\ vault[u].access = vend[r].cred.access) => u = vend[r].user
    /\ \A t \in Tab, u \in DOMAIN vault :
         (LoggingOut(t) /\ vault[u].access = tab[t].cred.access)
            => tab[t].pc = "deleting" /\ u = tab[t].user

\* A refresh token in the vault that is spent is about to be replaced, or its
\* replacement was lost.
SpentReplaced ==
    /\ provider # "rotates" => spent = {}
    /\ \A u \in DOMAIN vault : vault[u].refresh \in spent =>
         u \in lost \/ \E r \in Runtime : Renewed(r) /\ vend[r].user = u

VaultInv ==
    /\ CredentialsSound /\ HandsApart /\ HandsUnseen /\ VaultApart
    /\ SpentReplaced /\ DeletedStaysDeleted

IInv == SessionInv /\ VaultInv

-------------------------------------------------------------------------------
(* Sessions.                                                               *)

\* What a tab and a vend are.
LEMMA Fields ==
  ASSUME TypeOK
  PROVE  /\ \A t \in Tab :
              /\ tab[t].pc \in TabPc /\ tab[t].cookie \in Nat /\ tab[t].state \in Nat
              /\ tab[t].user \in User \union {NoUser} /\ tab[t].set \in Nat
              /\ tab[t].cred \in Credential
              /\ tab[t].cred.access \in Nat /\ tab[t].cred.refresh \in Nat
         /\ \A r \in Runtime :
              /\ vend[r].pc \in {"idle", "read", "fresh"}
              /\ vend[r].user \in User \union {NoUser}
              /\ vend[r].cred \in Credential /\ vend[r].fresh \in Credential
              /\ vend[r].cred.access \in Nat /\ vend[r].cred.refresh \in Nat
              /\ vend[r].fresh.access \in Nat /\ vend[r].fresh.refresh \in Nat
         /\ \A u \in DOMAIN vault :
              vault[u].access \in Nat /\ vault[u].refresh \in Nat
  BY DEF TypeOK, TabState, VendState, Credential

\* A tab with nothing to do.
LEMMA IdleTabFields ==
  /\ IdleTab \in TabState
  /\ IdleTab.pc = "idle" /\ IdleTab.cookie = 0 /\ IdleTab.set = 0
  BY DEF IdleTab, TabState, TabPc, Credential, NoCookie, NoCredential, NoSecret

\* A vend with nothing to do.
LEMMA IdleVendFields ==
  IdleVend \in VendState /\ IdleVend.pc = "idle"
  BY DEF IdleVend, VendState, Credential, NoCredential, NoSecret

\* Leaving sessions out keeps what is known of the others.
LEMMA FewerSessions ==
  ASSUME NEW table, NEW D \in SUBSET DOMAIN table
  PROVE  /\ DOMAIN Restrict(table, D) = D
         /\ \A s \in D : Restrict(table, D)[s] = table[s]
  BY DEF Restrict

\* Nothing was issued yet.
LEMMA InitKeeps == Init => IInv
<1> SUFFICES ASSUME Init PROVE IInv
  OBVIOUS
<1> USE DEF Init, IdleTab, IdleVend, NoCredential, NoSecret, NoCookie
<1>1. SessionInv
  BY DEF SessionInv, TypeOK, IdsIssued, AccountsKnown, Served, TabPc, TabState, VendState, Credential
<1>2. VaultInv
  BY DEF VaultInv, CredentialsSound, HandsApart, HandsUnseen, VaultApart, SpentReplaced,
         DeletedStaysDeleted, Exchanged, Renewed, LoggingOut
<1> QED
  BY <1>1, <1>2 DEF IInv

\* A vend's new state.
LEMMA VendKeepsSessions ==
  ASSUME SessionInv, NEW r \in Runtime, NEW new \in VendState,
         new.pc # "idle" => new.user \in User,
         vend' = [vend EXCEPT ![r] = new],
         UNCHANGED <<sessions, issued, jar, tab, provider, old, revoked, removed>>,
         tokens' \in Nat, spent' \subseteq Nat, lost' \subseteq User,
         DOMAIN vault' \subseteq User, \A u \in DOMAIN vault' : vault'[u] \in Credential
  PROVE  /\ SessionInv'
         /\ vend'[r] = new
         /\ \A q \in Runtime : q # r => vend'[q] = vend[q]
<1>1. /\ vend'[r] = new
      /\ \A q \in Runtime : q # r => vend'[q] = vend[q]
      /\ vend' \in [Runtime -> VendState]
  BY DEF SessionInv, TypeOK
<1>2. TypeOK'
  BY <1>1 DEF SessionInv, TypeOK
<1>3. IdsIssued'
  BY DEF SessionInv, IdsIssued
<1>4. AccountsKnown'
  BY <1>1 DEF SessionInv, AccountsKnown, Served
<1> QED
  BY <1>1, <1>2, <1>3, <1>4 DEF SessionInv

\* A tab's new state, with ids issued, keeps the sessions' invariant if at most
\* sessions are left out.
LEMMA TabKeepsSessions ==
  ASSUME SessionInv, NEW t \in Tab, NEW new,
         new \in TabState,
         new.cookie <= issued, new.set <= issued,
         new.pc \in {"callback", "exchanged", "stored", "deleting", "revoking"} => new.user \in User,
         tab' = [tab EXCEPT ![t] = new],
         jar' \in Nat, jar' <= issued,
         DOMAIN sessions' \subseteq DOMAIN sessions,
         \A s \in DOMAIN sessions' : sessions'[s] = sessions[s],
         issued' = issued, provider' = provider, vend' = vend, lost' = lost, old' = old,
         tokens' \in Nat, revoked' \subseteq Nat, spent' \subseteq Nat, removed' \subseteq Nat,
         DOMAIN vault' \subseteq User, \A u \in DOMAIN vault' : vault'[u] \in Credential
  PROVE  SessionInv'
<1>1. /\ tab'[t] = new
      /\ \A v \in Tab : v # t => tab'[v] = tab[v]
      /\ tab' \in [Tab -> TabState]
  BY DEF SessionInv, TypeOK
<1>2. TypeOK'
  BY <1>1 DEF SessionInv, TypeOK
<1>3. IdsIssued'
  BY <1>1 DEF SessionInv, IdsIssued
<1>4. AccountsKnown'
  BY <1>1 DEF SessionInv, AccountsKnown, Served
<1> QED
  BY <1>2, <1>3, <1>4 DEF SessionInv

\* A new session gets an id that was never used.
LEMMA NewSessionKeeps ==
  ASSUME SessionInv, NEW t \in Tab, NEW pc \in {"redirect", "reply"}, NEW before \in Nat,
         NEW user \in User \union {NoUser}, NewSession(t, pc, before, user),
         UNCHANGED <<jar, vault, providerVars, vend, history>>
  PROVE  /\ SessionInv'
         /\ \A s \in DOMAIN sessions' :
              \/ s = issued + 1 /\ sessions'[s].user = user
              \/ s \in DOMAIN sessions /\ s # before /\ sessions'[s] = sessions[s]
<1> DEFINE new == [IdleTab EXCEPT !.pc = pc, !.set = issued + 1]
<1>1. issued \in Nat /\ issued' = issued + 1 /\ tab' = [tab EXCEPT ![t] = new]
  <2>1. tab' = [tab EXCEPT ![t] = new]
    BY DEF NewSession
  <2> HIDE DEF new
  <2> QED
    BY <2>1 DEF NewSession, SessionInv, TypeOK
<1>2. new \in TabState
  <2>1. pc \in TabPc /\ issued + 1 \in Nat
    BY <1>1 DEF TabPc
  <2> QED
    BY <2>1, IdleTabFields DEF TabState
<1>3. new.cookie = 0 /\ new.set = issued + 1 /\ new.pc = pc
  BY IdleTabFields DEF TabState
<1> HIDE DEF new
<1>4. /\ tab'[t] = new
      /\ \A v \in Tab : v # t => tab'[v] = tab[v]
      /\ tab' \in [Tab -> TabState]
  BY <1>1, <1>2 DEF SessionInv, TypeOK
<1>5. \A s \in DOMAIN sessions' :
         \/ s = issued + 1 /\ sessions'[s] = NewData(user)
         \/ s \in DOMAIN sessions /\ s # before /\ sessions'[s] = sessions[s]
  <2> DEFINE kept == Without(sessions, before)
  <2>1. /\ DOMAIN kept = DOMAIN sessions \ {before}
        /\ \A s \in DOMAIN kept : kept[s] = sessions[s]
    BY FewerSessions DEF Without
  <2>2. sessions' = With(kept, issued + 1, user)
    BY DEF NewSession
  <2> HIDE DEF kept
  <2> QED
    BY <2>1, <2>2 DEF With
<1>6. TypeOK'
  <2>1. /\ DOMAIN sessions' \subseteq Nat
        /\ \A s \in DOMAIN sessions' : sessions'[s] \in SessionState
    <3>1. NewData(user) \in SessionState
      BY DEF NewData, SessionState
    <3> QED
      BY <1>1, <1>5, <3>1 DEF SessionInv, TypeOK
  <2> QED
    BY <1>1, <1>4, <2>1 DEF SessionInv, TypeOK, providerVars, history
<1>7. IdsIssued'
  BY <1>1, <1>3, <1>4, <1>5, Fields DEF SessionInv, IdsIssued, TypeOK
<1>8. AccountsKnown'
  BY <1>3, <1>4 DEF SessionInv, AccountsKnown, Served
<1>9. NewData(user).user = user
  BY DEF NewData
<1> QED
  BY <1>5, <1>6, <1>7, <1>8, <1>9 DEF SessionInv

-------------------------------------------------------------------------------
(* Credentials: what a step of each kind does to the vault's invariant.    *)

\* A step that touches no credential.
LEMMA NothingKeeps ==
  ASSUME VaultInv, UNCHANGED <<provider, tokens, vault, vend, removed, revoked, spent, lost, tab>>
  PROVE  VaultInv'
  BY DEF VaultInv, CredentialsSound, HandsApart, HandsUnseen, VaultApart, SpentReplaced,
         DeletedStaysDeleted, Sound, Unseen, Exchanged, Renewed, LoggingOut

\* A tab that holds no credential afterwards.
LEMMA QuietTabKeeps ==
  ASSUME VaultInv, NEW t \in Tab,
         \A v \in Tab : v # t => tab'[v] = tab[v],
         tab'[t].pc \notin {"exchanged", "deleting", "revoking"},
         UNCHANGED <<provider, tokens, vault, vend, removed, revoked, spent, lost>>
  PROVE  VaultInv'
<1>1. /\ \A v \in Tab : Exchanged(v)' => v # t /\ Exchanged(v) /\ tab'[v] = tab[v]
      /\ \A v \in Tab : LoggingOut(v)' => v # t /\ LoggingOut(v) /\ tab'[v] = tab[v]
      /\ \A r \in Runtime : Renewed(r)' <=> Renewed(r)
      /\ \A c : Sound(c)' <=> Sound(c)
  BY DEF Exchanged, LoggingOut, Renewed, Sound
<1>2. CredentialsSound'
  BY <1>1 DEF VaultInv, CredentialsSound
<1>3. HandsApart'
  BY <1>1 DEF VaultInv, HandsApart
<1>4. \A n : Unseen(n) => Unseen(n)'
  BY <1>1 DEF Unseen
<1>5. HandsUnseen'
  BY <1>1, <1>4 DEF VaultInv, HandsUnseen
<1>6. VaultApart'
  BY <1>1 DEF VaultInv, VaultApart
<1>7. SpentReplaced' /\ DeletedStaysDeleted'
  BY <1>1 DEF VaultInv, SpentReplaced, DeletedStaysDeleted
<1> QED
  BY <1>2, <1>3, <1>5, <1>6, <1>7 DEF VaultInv

\* A token that leaves the hand it was in for the vault.
LEMMA PutKeeps ==
  ASSUME VaultInv, NEW u \in User, NEW c, Sound(c), Unseen(c.access), c.refresh \notin spent,
         Put(u, c),
         \A t \in Tab : Exchanged(t)' => /\ Exchanged(t) /\ tab'[t] = tab[t]
                                         /\ tab[t].cred.access # c.access,
         \A t \in Tab : LoggingOut(t)' => LoggingOut(t) /\ tab'[t] = tab[t],
         \A r \in Runtime : vend'[r].pc # "idle" => vend'[r] = vend[r],
         \A r \in Runtime : Renewed(r)' => vend[r].fresh.access # c.access,
         \A r \in Runtime : (Renewed(r) /\ vend[r].user # u) => vend'[r] = vend[r],
         UNCHANGED <<provider, tokens, removed, revoked, spent, lost>>
  PROVE  VaultInv'
<1>1. /\ DOMAIN vault' = DOMAIN vault \union {u}
      /\ vault'[u] = c
      /\ \A x \in DOMAIN vault : x # u => vault'[x] = vault[x]
  BY DEF Put
<1>2. /\ \A r \in Runtime : Renewed(r)' => Renewed(r) /\ vend'[r] = vend[r]
      /\ \A r \in Runtime : (Renewed(r) /\ vend[r].user # u) => Renewed(r)'
      /\ \A x : Sound(x)' <=> Sound(x)
  BY DEF Renewed, Sound
<1>3. CredentialsSound'
  BY <1>1, <1>2 DEF VaultInv, CredentialsSound
<1>4. HandsApart'
  BY <1>2 DEF VaultInv, HandsApart
<1>5. \A n : Unseen(n) /\ n # c.access => Unseen(n)'
  BY <1>1 DEF Unseen
<1>6. HandsUnseen'
  BY <1>2, <1>5 DEF VaultInv, HandsUnseen
<1>7. VaultApart'
  BY <1>1 DEF VaultInv, VaultApart, Unseen
<1>8. SpentReplaced'
  BY <1>1, <1>2 DEF VaultInv, SpentReplaced
<1>9. DeletedStaysDeleted'
  BY <1>1 DEF VaultInv, DeletedStaysDeleted, Unseen
<1> QED
  BY <1>3, <1>4, <1>6, <1>7, <1>8, <1>9 DEF VaultInv

\* A token the provider has just issued was never seen.
LEMMA NewTokenUnseen ==
  ASSUME IInv
  PROVE  /\ Unseen(tokens + 1)
         /\ \A t \in Tab : Exchanged(t) => tab[t].cred.access # tokens + 1
         /\ \A r \in Runtime : Renewed(r) => vend[r].fresh.access # tokens + 1
<1>1. tokens \in Nat
  BY DEF IInv, SessionInv, TypeOK
<1>2. \A c : Sound(c) => c.access # tokens + 1
  BY <1>1 DEF Sound
<1> QED
  BY <1>1, <1>2 DEF IInv, SessionInv, TypeOK, VaultInv, CredentialsSound, Unseen

-------------------------------------------------------------------------------
(* The steps of a tab.                                                     *)

\* Login makes a session of nobody.
LEMMA StartLoginKeeps ==
  ASSUME IInv, NEW t \in Tab, StartLogin(t)
  PROVE  IInv'
<1>1. NewSession(t, "redirect", NoCookie, NoUser)
  BY DEF StartLogin
<1>2. SessionInv'
  BY <1>1, NewSessionKeeps DEF StartLogin, IInv, NoCookie
<1>3. tab'[t].pc = "redirect" /\ \A v \in Tab : v # t => tab'[v] = tab[v]
  BY <1>1 DEF NewSession, IInv, SessionInv, TypeOK, IdleTab
<1>4. VaultInv'
  BY <1>3, QuietTabKeeps DEF StartLogin, IInv, providerVars, history
<1> QED
  BY <1>2, <1>4 DEF IInv

\* A step of a tab that touches no credential and leaves out sessions at most.
LEMMA QuietStepKeeps ==
  ASSUME IInv, NEW t \in Tab, NEW new \in TabState,
         new.cookie <= issued, new.set <= issued,
         new.pc \in {"idle", "consent", "callback", "reply"},
         new.pc = "callback" => new.user \in User,
         tab' = [tab EXCEPT ![t] = new],
         jar' \in Nat, jar' <= issued,
         DOMAIN sessions' \subseteq DOMAIN sessions,
         \A s \in DOMAIN sessions' : sessions'[s] = sessions[s],
         UNCHANGED <<issued, vault, provider, tokens, old, revoked, spent, vend, lost, removed>>
  PROVE  IInv'
<1>1. SessionInv'
  <2>1. new.pc \in {"callback", "exchanged", "stored", "deleting", "revoking"} => new.user \in User
    OBVIOUS
  <2>2. /\ tokens' \in Nat /\ revoked' \subseteq Nat /\ spent' \subseteq Nat /\ removed' \subseteq Nat
        /\ DOMAIN vault' \subseteq User /\ \A u \in DOMAIN vault' : vault'[u] \in Credential
    BY DEF IInv, SessionInv, TypeOK
  <2>3. SessionInv
    BY DEF IInv
  <2> QED
    BY <2>1, <2>2, <2>3, TabKeepsSessions
<1>2. tab'[t] = new /\ \A v \in Tab : v # t => tab'[v] = tab[v]
  BY DEF IInv, SessionInv, TypeOK
<1>3. VaultInv'
  BY <1>2, QuietTabKeeps DEF IInv
<1> QED
  BY <1>1, <1>3 DEF IInv

\* A response reaches the browser.
LEMMA ArriveKeeps ==
  ASSUME IInv, NEW t \in Tab, Arrive(t)
  PROVE  IInv'
<1> DEFINE new == IF tab[t].pc = "redirect" THEN [IdleTab EXCEPT !.pc = "consent", !.state = tab[t].set]
                                            ELSE IdleTab
<1>1. tab' = [tab EXCEPT ![t] = new]
  BY DEF Arrive
<1>2. tab[t].set \in Nat /\ tab[t].set <= issued /\ issued \in Nat
  BY Fields DEF IInv, SessionInv, IdsIssued, TypeOK
<1>3. /\ new \in TabState
      /\ new.cookie = 0 /\ new.set = 0 /\ new.pc \in {"consent", "idle"}
  <2>1. "consent" \in TabPc
    BY DEF TabPc
  <2> QED
    BY <1>2, <2>1, IdleTabFields DEF TabState
<1> HIDE DEF new
<1>4. new.cookie <= issued /\ new.set <= issued
  BY <1>2, <1>3
<1> QED
  BY <1>1, <1>2, <1>3, <1>4, QuietStepKeeps DEF Arrive, sessionVars, providerVars, history

\* The callback takes the flow of the browser's cookie, or gives it up.
LEMMA CallbackKeeps ==
  ASSUME IInv, NEW t \in Tab, NEW u \in User \union {NoUser}, Callback(t, u)
  PROVE  IInv'
<1> DEFINE mine == Found(jar) /\ sessions[jar].user = NoUser /\ tab[t].state = jar /\ u # NoUser
           new == IF mine THEN [tab[t] EXCEPT !.pc = "callback", !.cookie = jar, !.user = u]
                  ELSE IdleTab
<1>1. tab' = [tab EXCEPT ![t] = new]
  BY DEF Callback, IInv, SessionInv, TypeOK
<1>2. /\ issued \in Nat /\ jar \in Nat /\ jar <= issued
      /\ tab[t] \in TabState /\ tab[t].set <= issued
  BY DEF IInv, SessionInv, IdsIssued, TypeOK
<1>3. /\ new \in TabState
      /\ new.cookie \in {0, jar} /\ new.set \in {0, tab[t].set}
      /\ new.pc \in {"callback", "idle"}
      /\ new.pc = "callback" => new.user \in User
  <2> HIDE DEF mine
  <2>1. "callback" \in TabPc
    BY DEF TabPc
  <2>2. CASE mine
    <3>1. u # NoUser
      BY <2>2 DEF mine
    <3> QED
      BY <1>2, <2>1, <2>2, <3>1 DEF TabState
  <2>3. CASE ~mine
    BY <1>2, <2>3, IdleTabFields
  <2> QED
    BY <2>2, <2>3
<1> HIDE DEF new
<1>4. new.cookie <= issued /\ new.set <= issued
  BY <1>2, <1>3
<1>5. /\ DOMAIN sessions' \subseteq DOMAIN sessions
      /\ \A s \in DOMAIN sessions' : sessions'[s] = sessions[s]
  BY FewerSessions DEF Callback, Swept
<1> QED
  BY <1>1, <1>2, <1>3, <1>4, <1>5, QuietStepKeeps DEF Callback, providerVars, history

\* Logging out a request nobody is logged in on: its session goes.
LEMMA StartLogoutOfNobodyKeeps ==
  ASSUME IInv, NEW t \in Tab, StartLogout(t), CurrentUser(jar) = NoUser
  PROVE  IInv'
<1> DEFINE new == [IdleTab EXCEPT !.pc = "reply"]
<1>1. tab' = [tab EXCEPT ![t] = new] /\ sessions' = Without(sessions, jar)
  BY DEF StartLogout
<1>2. new \in TabState /\ new.cookie = 0 /\ new.set = 0 /\ new.pc = "reply"
  <2>1. "reply" \in TabPc
    BY DEF TabPc
  <2> QED
    BY <2>1, IdleTabFields DEF TabState
<1> HIDE DEF new
<1>3. issued \in Nat /\ jar \in Nat /\ jar <= issued
  BY DEF IInv, SessionInv, IdsIssued, TypeOK
<1>4. /\ DOMAIN sessions' \subseteq DOMAIN sessions
      /\ \A s \in DOMAIN sessions' : sessions'[s] = sessions[s]
  BY <1>1, FewerSessions DEF Without
<1>5. 0 <= issued
  BY <1>3
<1>6. UNCHANGED <<issued, jar, vault, provider, tokens, old, revoked, spent, vend, lost, removed>>
  BY DEF StartLogout, providerVars, history
<1>7. new.cookie <= issued /\ new.set <= issued /\ jar' \in Nat /\ jar' <= issued
  BY <1>2, <1>3, <1>5, <1>6
<1> QED
  BY <1>1, <1>2, <1>4, <1>6, <1>7, QuietStepKeeps

\* Who is logged in is a user.
LEMMA CurrentUserKnown ==
  ASSUME SessionInv, CurrentUser(jar) # NoUser
  PROVE  CurrentUser(jar) \in User
  BY DEF CurrentUser, Found, SessionInv, TypeOK, SessionState

\* Logging out a user starts with a look at the vault.
LEMMA StartLogoutOfUserKeeps ==
  ASSUME IInv, NEW t \in Tab, StartLogout(t), CurrentUser(jar) # NoUser
  PROVE  IInv'
<1> DEFINE u == CurrentUser(jar)
           cred == IF u \in DOMAIN vault THEN vault[u] ELSE NoCredential
           new == [IdleTab EXCEPT !.pc = "deleting", !.cookie = jar, !.user = u, !.cred = cred]
<1>1. tab' = [tab EXCEPT ![t] = new]
  BY DEF StartLogout
<1>2. /\ sessions' = sessions
      /\ UNCHANGED <<issued, jar, vault, provider, tokens, old, revoked, spent, vend, lost, removed>>
  BY DEF StartLogout, providerVars, history
<1>3. u \in User
  BY CurrentUserKnown DEF IInv
<1>4. cred \in Credential
  BY DEF IInv, SessionInv, TypeOK, NoCredential, NoSecret, Credential
<1>5. issued \in Nat /\ jar \in Nat /\ jar <= issued /\ tokens \in Nat
  BY DEF IInv, SessionInv, IdsIssued, TypeOK
<1>6. \/ u \in DOMAIN vault /\ cred = vault[u]
      \/ cred.access = 0
  BY DEF NoCredential, NoSecret
<1> HIDE DEF u, cred
<1>7. /\ new \in TabState
      /\ new.cookie = jar /\ new.set = 0 /\ new.pc = "deleting" /\ new.user = u /\ new.cred = cred
  <2>1. "deleting" \in TabPc
    BY DEF TabPc
  <2> QED
    BY <1>3, <1>4, <1>5, <2>1, IdleTabFields DEF TabState
<1> HIDE DEF new
<1>8. SessionInv'
  <2>1. new.cookie <= issued /\ new.set <= issued /\ jar' \in Nat /\ jar' <= issued
    BY <1>2, <1>5, <1>7
  <2>2. /\ tokens' \in Nat /\ revoked' \subseteq Nat /\ spent' \subseteq Nat /\ removed' \subseteq Nat
        /\ DOMAIN vault' \subseteq User /\ \A x \in DOMAIN vault' : vault'[x] \in Credential
    BY <1>2 DEF IInv, SessionInv, TypeOK
  <2>3. SessionInv /\ new \in TabState /\ new.user \in User
    BY <1>3, <1>7 DEF IInv
  <2>4. /\ DOMAIN sessions' \subseteq DOMAIN sessions
        /\ \A s \in DOMAIN sessions' : sessions'[s] = sessions[s]
    BY <1>2
  <2> QED
    BY <1>1, <1>2, <2>1, <2>2, <2>3, <2>4, TabKeepsSessions
<1>9. tab'[t] = new /\ \A v \in Tab : v # t => tab'[v] = tab[v]
  BY <1>1 DEF IInv, SessionInv, TypeOK
<1>10. VaultInv'
  <2>1. /\ \A v \in Tab : Exchanged(v)' => v # t /\ Exchanged(v) /\ tab'[v] = tab[v]
        /\ \A v \in Tab : v # t => (LoggingOut(v)' <=> LoggingOut(v))
        /\ \A r \in Runtime : Renewed(r)' <=> Renewed(r)
        /\ \A c : Sound(c)' <=> Sound(c)
    BY <1>2, <1>7, <1>9 DEF Exchanged, LoggingOut, Renewed, Sound
  <2>2. cred.access \in 0 .. tokens
    BY <1>5, <1>6 DEF IInv, VaultInv, CredentialsSound, Sound
  <2>3. CredentialsSound'
    BY <1>2, <1>7, <1>9, <2>1, <2>2 DEF IInv, VaultInv, CredentialsSound
  <2>4. HandsApart'
    BY <1>2, <2>1 DEF IInv, VaultInv, HandsApart
  <2>5. \A n : Unseen(n) /\ n # 0 => Unseen(n)'
    BY <1>2, <1>6, <1>7, <1>9, <2>1 DEF Unseen
  <2>6. HandsUnseen'
    <3>1. \A v \in Tab : Exchanged(v) => tab[v].cred.access # 0
      BY DEF IInv, VaultInv, CredentialsSound, Sound
    <3>2. \A r \in Runtime : Renewed(r) => vend[r].fresh.access # 0
      BY DEF IInv, VaultInv, CredentialsSound
    <3> QED
      BY <1>2, <2>1, <2>5, <3>1, <3>2 DEF IInv, VaultInv, HandsUnseen
  <2>7. VaultApart'
    <3>1. \A x \in DOMAIN vault : vault[x].access # 0
      BY DEF IInv, VaultInv, CredentialsSound, Sound
    <3> QED
      BY <1>2, <1>6, <1>7, <1>9, <2>1, <3>1 DEF IInv, VaultInv, VaultApart
  <2>8. SpentReplaced' /\ DeletedStaysDeleted'
    BY <1>2, <2>1 DEF IInv, VaultInv, SpentReplaced, DeletedStaysDeleted
  <2> QED
    BY <2>3, <2>4, <2>6, <2>7, <2>8 DEF VaultInv
<1> QED
  BY <1>8, <1>10 DEF IInv

\* Logout empties the user's place in the vault, whatever was read before.
LEMMA DeleteCredentialKeeps ==
  ASSUME IInv, NEW t \in Tab, DeleteCredential(t)
  PROVE  IInv'
<1> DEFINE u == tab[t].user
           new == [tab[t] EXCEPT !.pc = "revoking"]
<1>1. tab' = [tab EXCEPT ![t] = new] /\ tab[t].pc = "deleting" /\ u \in User
  <2>1. tab' = [tab EXCEPT ![t] = new] /\ tab[t].pc = "deleting"
    BY DEF DeleteCredential
  <2> QED
    BY <2>1 DEF IInv, SessionInv, AccountsKnown, Served
<1>2. /\ sessions' = sessions
      /\ UNCHANGED <<issued, jar, provider, tokens, old, revoked, spent, vend, lost>>
  BY DEF DeleteCredential, providerVars, sessionVars
<1>3. /\ DOMAIN vault' = DOMAIN vault \ {u}
      /\ \A x \in DOMAIN vault' : vault'[x] = vault[x]
  BY FewerSessions DEF DeleteCredential
<1>4. /\ \A n \in removed' : n \in removed \/ (u \in DOMAIN vault /\ n = vault[u].access)
      /\ removed' \subseteq Nat
  BY Fields DEF DeleteCredential, IInv, SessionInv, TypeOK
<1>5. /\ new \in TabState
      /\ new.cookie = tab[t].cookie /\ new.set = tab[t].set /\ new.pc = "revoking"
      /\ new.user = u /\ new.cred = tab[t].cred
  <2>1. "revoking" \in TabPc
    BY DEF TabPc
  <2>2. tab[t] \in TabState
    BY DEF IInv, SessionInv, TypeOK
  <2> QED
    BY <2>1, <2>2 DEF TabState
<1> HIDE DEF u, new
<1>6. SessionInv'
  <2>1. new.cookie <= issued /\ new.set <= issued /\ jar' \in Nat /\ jar' <= issued
    BY <1>2, <1>5 DEF IInv, SessionInv, TypeOK, IdsIssued
  <2>2. /\ tokens' \in Nat /\ revoked' \subseteq Nat /\ spent' \subseteq Nat /\ removed' \subseteq Nat
        /\ DOMAIN vault' \subseteq User /\ \A x \in DOMAIN vault' : vault'[x] \in Credential
    BY <1>2, <1>3, <1>4 DEF IInv, SessionInv, TypeOK
  <2>3. SessionInv /\ new \in TabState /\ new.user \in User
    BY <1>1, <1>5 DEF IInv
  <2>4. /\ DOMAIN sessions' \subseteq DOMAIN sessions
        /\ \A s \in DOMAIN sessions' : sessions'[s] = sessions[s]
    BY <1>2
  <2> QED
    BY <1>1, <1>2, <2>1, <2>2, <2>3, <2>4, TabKeepsSessions
<1>7. tab'[t] = new /\ \A v \in Tab : v # t => tab'[v] = tab[v]
  BY <1>1 DEF IInv, SessionInv, TypeOK
<1>8. VaultInv'
  <2>1. /\ \A v \in Tab : Exchanged(v)' => v # t /\ Exchanged(v) /\ tab'[v] = tab[v]
        /\ \A v \in Tab : LoggingOut(v)' => LoggingOut(v) /\ tab'[v].cred = tab[v].cred
        /\ \A r \in Runtime : Renewed(r)' <=> Renewed(r)
        /\ \A c : Sound(c)' <=> Sound(c)
    BY <1>1, <1>2, <1>5, <1>7 DEF Exchanged, LoggingOut, Renewed, Sound
  <2>2. CredentialsSound'
    <3>1. \A n \in removed' : n <= tokens
      BY <1>4 DEF IInv, SessionInv, TypeOK, VaultInv, CredentialsSound, Sound
    <3> QED
      BY <1>2, <1>3, <2>1, <3>1 DEF IInv, VaultInv, CredentialsSound
  <2>3. HandsApart'
    BY <1>2, <2>1 DEF IInv, VaultInv, HandsApart
  <2>4. \A n : Unseen(n) => Unseen(n)'
    BY <1>2, <1>3, <1>4, <2>1 DEF Unseen
  <2>5. HandsUnseen'
    BY <1>2, <2>1, <2>4 DEF IInv, VaultInv, HandsUnseen
  <2>6. VaultApart'
    BY <1>2, <1>3, <1>5, <1>7, <2>1, <1>1 DEF IInv, VaultInv, VaultApart, LoggingOut, u
  <2>7. SpentReplaced'
    BY <1>2, <1>3, <2>1 DEF IInv, VaultInv, SpentReplaced
  <2>8. DeletedStaysDeleted'
    BY <1>2, <1>3, <1>4, <1>1 DEF IInv, VaultInv, VaultApart, DeletedStaysDeleted
  <2> QED
    BY <2>2, <2>3, <2>5, <2>6, <2>7, <2>8 DEF VaultInv
<1> QED
  BY <1>6, <1>8 DEF IInv

\* The token logout revokes is in nobody's hand and not in the vault.
LEMMA RevokeAndDestroyKeeps ==
  ASSUME IInv, NEW t \in Tab, NEW ok \in BOOLEAN, RevokeAndDestroy(t, ok)
  PROVE  IInv'
<1> DEFINE new == [IdleTab EXCEPT !.pc = "reply"]
           gone == tab[t].cred.access
<1>1. tab' = [tab EXCEPT ![t] = new] /\ tab[t].pc = "revoking" /\ LoggingOut(t)
  BY DEF RevokeAndDestroy, LoggingOut
<1>2. UNCHANGED <<issued, jar, vault, provider, tokens, old, spent, vend, lost, removed>>
  BY DEF RevokeAndDestroy, history
<1>3. /\ \A n \in revoked' : n \in revoked \/ (n = gone /\ n # 0)
      /\ revoked' \subseteq Nat
  BY Fields DEF RevokeAndDestroy, IInv, SessionInv, TypeOK, NoSecret
<1>4. new \in TabState /\ new.cookie = 0 /\ new.set = 0 /\ new.pc = "reply"
  <2>1. "reply" \in TabPc
    BY DEF TabPc
  <2> QED
    BY <2>1, IdleTabFields DEF TabState
<1> HIDE DEF new
<1>5. /\ DOMAIN sessions' \subseteq DOMAIN sessions
      /\ \A s \in DOMAIN sessions' : sessions'[s] = sessions[s]
  BY FewerSessions DEF RevokeAndDestroy, Without
<1>6. SessionInv'
  <2>1. new.cookie <= issued /\ new.set <= issued /\ jar' \in Nat /\ jar' <= issued
    BY <1>2, <1>4 DEF IInv, SessionInv, TypeOK, IdsIssued
  <2>2. /\ tokens' \in Nat /\ revoked' \subseteq Nat /\ spent' \subseteq Nat /\ removed' \subseteq Nat
        /\ DOMAIN vault' \subseteq User /\ \A x \in DOMAIN vault' : vault'[x] \in Credential
    BY <1>2, <1>3 DEF IInv, SessionInv, TypeOK
  <2>3. SessionInv /\ new.pc \notin {"callback", "exchanged", "stored", "deleting", "revoking"}
    BY <1>4 DEF IInv
  <2> QED
    BY <1>1, <1>2, <1>4, <1>5, <2>1, <2>2, <2>3, TabKeepsSessions
<1>7. tab'[t] = new /\ \A v \in Tab : v # t => tab'[v] = tab[v]
  BY <1>1 DEF IInv, SessionInv, TypeOK
<1>8. VaultInv'
  <2>1. /\ \A v \in Tab : Exchanged(v)' => v # t /\ Exchanged(v) /\ tab'[v] = tab[v]
        /\ \A v \in Tab : LoggingOut(v)' => v # t /\ LoggingOut(v) /\ tab'[v] = tab[v]
        /\ \A r \in Runtime : Renewed(r)' <=> Renewed(r)
        /\ \A c : Sound(c)' <=> Sound(c)
    BY <1>2, <1>4, <1>7 DEF Exchanged, LoggingOut, Renewed, Sound
  <2>2. CredentialsSound'
    <3>1. \A n \in revoked' : n <= tokens
      BY <1>1, <1>3 DEF IInv, SessionInv, TypeOK, VaultInv, CredentialsSound
    <3> QED
      BY <1>2, <2>1, <3>1 DEF IInv, VaultInv, CredentialsSound
  <2>3. HandsApart'
    BY <1>2, <2>1 DEF IInv, VaultInv, HandsApart
  <2>4. \A n : Unseen(n) => Unseen(n)'
    BY <1>1, <1>2, <1>3, <2>1 DEF Unseen
  <2>5. HandsUnseen'
    BY <1>2, <2>1, <2>4 DEF IInv, VaultInv, HandsUnseen
  <2>6. VaultApart'
    BY <1>2, <2>1 DEF IInv, VaultInv, VaultApart
  <2>7. SpentReplaced'
    BY <1>2, <2>1 DEF IInv, VaultInv, SpentReplaced
  <2>8. DeletedStaysDeleted'
    BY <1>1, <1>2, <1>3 DEF IInv, VaultInv, VaultApart, DeletedStaysDeleted
  <2> QED
    BY <2>2, <2>3, <2>5, <2>6, <2>7, <2>8 DEF VaultInv
<1> QED
  BY <1>6, <1>8 DEF IInv

\* A login whose exchange fails is over.
LEMMA FailedExchangeKeeps ==
  ASSUME IInv, NEW t \in Tab, ExchangeCode(t, FALSE)
  PROVE  IInv'
<1>1. tab' = [tab EXCEPT ![t] = IdleTab] /\ sessions' = sessions
  BY DEF ExchangeCode, sessionVars
<1>2. UNCHANGED <<issued, jar, vault, provider, tokens, old, revoked, spent, vend, lost, removed>>
  BY DEF ExchangeCode, sessionVars, history
<1>3. issued \in Nat /\ jar \in Nat /\ jar <= issued
  BY DEF IInv, SessionInv, IdsIssued, TypeOK
<1>4. IdleTab.cookie <= issued /\ IdleTab.set <= issued /\ jar' \in Nat /\ jar' <= issued
  BY <1>2, <1>3, IdleTabFields
<1>5. /\ DOMAIN sessions' \subseteq DOMAIN sessions
      /\ \A s \in DOMAIN sessions' : sessions'[s] = sessions[s]
  BY <1>1
<1> QED
  BY <1>1, <1>2, <1>4, <1>5, IdleTabFields, QuietStepKeeps

\* The token of a login is new, and in the hand of the tab that asked for it.
LEMMA ExchangeCodeKeeps ==
  ASSUME IInv, NEW t \in Tab, ExchangeCode(t, TRUE)
  PROVE  IInv'
<1> DEFINE n == tokens + 1
           cred == [access |-> n, refresh |-> IF provider = "none" THEN NoSecret ELSE n]
           new == [tab[t] EXCEPT !.pc = "exchanged", !.cred = cred]
<1>1. tab' = [tab EXCEPT ![t] = new] /\ tab[t].pc = "callback"
  BY DEF ExchangeCode, IInv, SessionInv, TypeOK
<1>2. tokens' = n
  BY DEF ExchangeCode
<1>3. /\ sessions' = sessions
      /\ UNCHANGED <<issued, jar, vault, provider, old, revoked, spent, vend, lost, removed>>
  BY DEF ExchangeCode, sessionVars, history
<1>4. tokens \in Nat /\ n \in Nat /\ n # 0 /\ n > tokens
  BY DEF IInv, SessionInv, TypeOK
<1>5. /\ cred \in Credential /\ cred.access = n
      /\ cred.refresh = IF provider = "none" THEN 0 ELSE n
  BY <1>4 DEF Credential, NoSecret
<1> HIDE DEF cred
<1>6. /\ new \in TabState
      /\ new.cookie = tab[t].cookie /\ new.set = tab[t].set /\ new.pc = "exchanged"
      /\ new.user = tab[t].user /\ new.cred = cred
  <2>1. "exchanged" \in TabPc
    BY DEF TabPc
  <2>2. tab[t] \in TabState
    BY DEF IInv, SessionInv, TypeOK
  <2> QED
    BY <1>5, <2>1, <2>2 DEF TabState
<1> HIDE DEF new, n
<1>7. SessionInv'
  <2>1. new.cookie <= issued /\ new.set <= issued /\ jar' \in Nat /\ jar' <= issued
    BY <1>3, <1>6 DEF IInv, SessionInv, TypeOK, IdsIssued
  <2>2. /\ tokens' \in Nat /\ revoked' \subseteq Nat /\ spent' \subseteq Nat /\ removed' \subseteq Nat
        /\ DOMAIN vault' \subseteq User /\ \A x \in DOMAIN vault' : vault'[x] \in Credential
    BY <1>2, <1>3, <1>4 DEF IInv, SessionInv, TypeOK
  <2>3. SessionInv /\ new \in TabState /\ new.user \in User
    BY <1>1, <1>6 DEF IInv, SessionInv, AccountsKnown, Served
  <2>4. /\ DOMAIN sessions' \subseteq DOMAIN sessions
        /\ \A s \in DOMAIN sessions' : sessions'[s] = sessions[s]
    BY <1>3
  <2> QED
    BY <1>1, <1>3, <2>1, <2>2, <2>3, <2>4, TabKeepsSessions
<1>8. tab'[t] = new /\ \A v \in Tab : v # t => tab'[v] = tab[v]
  BY <1>1 DEF IInv, SessionInv, TypeOK
<1>9. VaultInv'
  <2>1. /\ \A v \in Tab : v # t => (Exchanged(v)' <=> Exchanged(v))
        /\ \A v \in Tab : LoggingOut(v)' => v # t /\ LoggingOut(v) /\ tab'[v] = tab[v]
        /\ \A r \in Runtime : Renewed(r)' <=> Renewed(r)
    BY <1>3, <1>6, <1>8 DEF Exchanged, LoggingOut, Renewed
  <2>2. \A c : Sound(c) => Sound(c)'
    BY <1>2, <1>3, <1>4 DEF Sound
  <2>3. \A c : (c.access = cred.access /\ c.refresh = cred.refresh) => Sound(c)'
    <3>1. cred.access \in 1 .. tokens'
      BY <1>2, <1>4, <1>5
    <3> QED
      BY <1>3, <1>4, <1>5, <3>1 DEF Sound, NoSecret
  <2>4. CredentialsSound'
    <3>1. \A v \in Tab : LoggingOut(v)' => tab'[v].cred.access \in 0 .. tokens'
      BY <1>2, <1>4, <2>1 DEF IInv, VaultInv, CredentialsSound
    <3>2. \A r \in Runtime : Renewed(r)' => vend'[r].fresh.access \in 1 .. tokens'
      BY <1>2, <1>3, <1>4, <2>1 DEF IInv, VaultInv, CredentialsSound
    <3>3. \A m \in removed' \union revoked' \union spent' : m <= tokens'
      BY <1>2, <1>3, <1>4 DEF IInv, SessionInv, TypeOK, VaultInv, CredentialsSound
    <3>4. ASSUME NEW v \in Tab, Exchanged(v)' PROVE Sound(tab[v].cred)'
      <4>1. CASE v = t
        BY <1>6, <1>8, <2>3, <4>1 DEF Sound
      <4>2. CASE v # t
        BY <1>8, <2>1, <2>2, <3>4, <4>2 DEF IInv, VaultInv, CredentialsSound, Sound
      <4> QED
        BY <4>1, <4>2
    <3> QED
      BY <1>3, <2>1, <2>2, <3>1, <3>2, <3>3, <3>4 DEF IInv, VaultInv, CredentialsSound
  <2>5. HandsApart'
    BY <1>3, <1>5, <1>6, <1>8, <2>1, NewTokenUnseen DEF IInv, VaultInv, HandsApart, n
  <2>6. \A m : Unseen(m) => Unseen(m)'
    BY <1>3, <2>1 DEF Unseen
  <2>7. HandsUnseen'
    BY <1>3, <1>5, <1>6, <1>8, <2>1, <2>6, NewTokenUnseen DEF IInv, VaultInv, HandsUnseen, n
  <2>8. VaultApart'
    BY <1>3, <2>1 DEF IInv, VaultInv, VaultApart
  <2>9. SpentReplaced' /\ DeletedStaysDeleted'
    BY <1>3, <2>1 DEF IInv, VaultInv, SpentReplaced, DeletedStaysDeleted
  <2> QED
    BY <2>4, <2>5, <2>7, <2>8, <2>9 DEF VaultInv
<1> QED
  BY <1>7, <1>9 DEF IInv

\* The callback stores the token it exchanged.
LEMMA StoreCredentialKeeps ==
  ASSUME IInv, NEW t \in Tab, StoreCredential(t)
  PROVE  IInv'
<1> DEFINE u == tab[t].user
           new == [tab[t] EXCEPT !.pc = "stored"]
<1>1. tab' = [tab EXCEPT ![t] = new] /\ tab[t].pc = "exchanged"
  BY DEF StoreCredential, IInv, SessionInv, TypeOK
<1>2. /\ sessions' = sessions
      /\ UNCHANGED <<issued, jar, provider, tokens, old, revoked, spent, vend, lost, removed>>
  BY DEF StoreCredential, sessionVars, providerVars, history
<1>3. Put(u, tab[t].cred) /\ u \in User /\ tab[t].cred \in Credential
  BY Fields DEF StoreCredential, IInv, SessionInv, AccountsKnown, Served
<1>4. /\ new \in TabState
      /\ new.cookie = tab[t].cookie /\ new.set = tab[t].set /\ new.pc = "stored"
      /\ new.user = u /\ new.cred = tab[t].cred
  <2>1. "stored" \in TabPc
    BY DEF TabPc
  <2>2. tab[t] \in TabState
    BY DEF IInv, SessionInv, TypeOK
  <2> QED
    BY <2>1, <2>2 DEF TabState
<1> HIDE DEF new
<1>5. SessionInv'
  <2>1. new.cookie <= issued /\ new.set <= issued /\ jar' \in Nat /\ jar' <= issued
    BY <1>2, <1>4 DEF IInv, SessionInv, TypeOK, IdsIssued
  <2>2. /\ tokens' \in Nat /\ revoked' \subseteq Nat /\ spent' \subseteq Nat /\ removed' \subseteq Nat
        /\ DOMAIN vault' \subseteq User /\ \A x \in DOMAIN vault' : vault'[x] \in Credential
    BY <1>2, <1>3 DEF IInv, SessionInv, TypeOK, Put
  <2>3. SessionInv /\ new \in TabState /\ new.user \in User
    BY <1>3, <1>4 DEF IInv
  <2>4. /\ DOMAIN sessions' \subseteq DOMAIN sessions
        /\ \A s \in DOMAIN sessions' : sessions'[s] = sessions[s]
    BY <1>2
  <2> QED
    BY <1>1, <1>2, <2>1, <2>2, <2>3, <2>4, TabKeepsSessions
<1>6. tab'[t] = new /\ \A v \in Tab : v # t => tab'[v] = tab[v]
  BY <1>1 DEF IInv, SessionInv, TypeOK
<1>7. VaultInv'
  <2>1. Exchanged(t)
    BY <1>1 DEF Exchanged
  <2>2. Sound(tab[t].cred) /\ Unseen(tab[t].cred.access) /\ tab[t].cred.refresh \notin spent
    <3>1. Sound(tab[t].cred) /\ Unseen(tab[t].cred.access)
      BY <2>1 DEF IInv, VaultInv, CredentialsSound, HandsUnseen
    <3>2. provider \in {"none", "keeps", "rotates"}
      BY LoginAssumption DEF IInv, SessionInv, TypeOK
    <3> QED
      BY <3>1, <3>2 DEF Sound, Unseen, IInv, VaultInv, SpentReplaced
  <2>3. \A v \in Tab : Exchanged(v)' => /\ Exchanged(v) /\ tab'[v] = tab[v]
                                       /\ tab[v].cred.access # tab[t].cred.access
    BY <1>4, <1>6, <2>1 DEF Exchanged, IInv, VaultInv, HandsApart
  <2>4. \A v \in Tab : LoggingOut(v)' => LoggingOut(v) /\ tab'[v] = tab[v]
    BY <1>4, <1>6 DEF LoggingOut
  <2>5. \A r \in Runtime : Renewed(r)' => vend[r].fresh.access # tab[t].cred.access
    BY <1>2, <2>1 DEF Renewed, IInv, VaultInv, HandsApart
  <2>6. VaultInv
    BY DEF IInv
  <2> QED
    BY <1>2, <1>3, <2>2, <2>3, <2>4, <2>5, <2>6, PutKeeps
<1> QED
  BY <1>5, <1>7 DEF IInv

\* A login ends with a new session for the account.
LEMMA AuthenticateKeeps ==
  ASSUME IInv, NEW t \in Tab, Authenticate(t)
  PROVE  IInv'
<1>1. /\ NewSession(t, "reply", tab[t].cookie, tab[t].user)
      /\ tab[t].user \in User \union {NoUser} /\ tab[t].cookie \in Nat
  BY Fields DEF Authenticate, IInv, SessionInv
<1>2. SessionInv'
  BY <1>1, NewSessionKeeps DEF Authenticate, IInv
<1>3. tab'[t].pc = "reply" /\ \A v \in Tab : v # t => tab'[v] = tab[v]
  BY <1>1 DEF NewSession, IInv, SessionInv, TypeOK, IdleTab
<1>4. VaultInv'
  BY <1>3, QuietTabKeeps DEF Authenticate, IInv, providerVars, history
<1> QED
  BY <1>2, <1>4 DEF IInv

-------------------------------------------------------------------------------
(* The steps of a runtime.                                                 *)

\* A vend reads a credential that can be refreshed.
LEMMA VendKeeps ==
  ASSUME IInv, NEW r \in Runtime, NEW bearer \in Bearer, Vend(r, bearer)
  PROVE  IInv'
<1> DEFINE u == Resolve(jar, bearer).user
           new == [IdleVend EXCEPT !.pc = "read", !.user = u, !.cred = vault[u]]
<1>1. vend' = [vend EXCEPT ![r] = new]
  BY DEF Vend
<1>2. /\ u \in User /\ u \in DOMAIN vault /\ vault[u] \in Credential
      /\ vault[u].refresh # NoSecret
  BY DEF Vend, IInv, SessionInv, TypeOK
<1>3. UNCHANGED <<sessions, issued, jar, tab, vault, provider, tokens, old, revoked, spent, lost, removed>>
  BY DEF Vend, sessionVars, providerVars, history
<1> HIDE DEF u
<1>4. /\ new \in VendState /\ new.pc = "read" /\ new.user = u /\ new.cred = vault[u]
  BY <1>2, IdleVendFields DEF VendState
<1> HIDE DEF new
<1>5. /\ SessionInv' /\ vend'[r] = new
      /\ \A q \in Runtime : q # r => vend'[q] = vend[q]
  <2>1. /\ tokens' \in Nat /\ spent' \subseteq Nat /\ lost' \subseteq User
        /\ DOMAIN vault' \subseteq User /\ \A x \in DOMAIN vault' : vault'[x] \in Credential
    BY <1>3 DEF IInv, SessionInv, TypeOK
  <2> QED
    BY <1>1, <1>2, <1>3, <1>4, <2>1, VendKeepsSessions DEF IInv
<1>6. VaultInv'
  <2>1. /\ \A v \in Tab : Exchanged(v)' <=> Exchanged(v)
        /\ \A v \in Tab : LoggingOut(v)' <=> LoggingOut(v)
        /\ \A q \in Runtime : Renewed(q) <=> Renewed(q)'
        /\ \A q \in Runtime : Renewed(q) => q # r
        /\ \A c : Sound(c)' <=> Sound(c)
    BY <1>3, <1>4, <1>5 DEF Vend, Exchanged, LoggingOut, Renewed, Sound
  <2>2. CredentialsSound'
    BY <1>2, <1>3, <1>4, <1>5, <2>1 DEF IInv, VaultInv, CredentialsSound
  <2>3. HandsApart'
    BY <1>3, <1>5, <2>1 DEF IInv, VaultInv, HandsApart
  <2>4. \A n : Unseen(n) => Unseen(n)'
    BY <1>2, <1>3, <1>4, <1>5, <2>1 DEF Unseen
  <2>5. HandsUnseen'
    BY <1>3, <1>5, <2>1, <2>4 DEF IInv, VaultInv, HandsUnseen
  <2>6. VaultApart'
    BY <1>2, <1>3, <1>4, <1>5, <2>1 DEF IInv, VaultInv, VaultApart
  <2>7. SpentReplaced' /\ DeletedStaysDeleted'
    BY <1>3, <1>5, <2>1 DEF IInv, VaultInv, SpentReplaced, DeletedStaysDeleted
  <2> QED
    BY <2>2, <2>3, <2>5, <2>6, <2>7 DEF VaultInv
<1> QED
  BY <1>5, <1>6 DEF IInv

\* A vend whose token has not expired, or whose refresh is refused, and one that
\* ends with nothing to store.
LEMMA UnrefreshedKeeps ==
  ASSUME IInv, NEW r \in Runtime, NEW new \in {IdleVend, [vend[r] EXCEPT !.pc = "fresh", !.fresh = vend[r].cred]},
         vend[r].pc # "idle", ~Renewed(r), vend' = [vend EXCEPT ![r] = new],
         UNCHANGED <<sessions, issued, jar, tab, vault, provider, tokens, old, revoked, spent, lost, removed>>
  PROVE  IInv'
<1>1. /\ new \in VendState /\ new.pc \in {"idle", "fresh"}
      /\ new.pc = "fresh" => /\ new.user = vend[r].user /\ new.cred = vend[r].cred
                             /\ new.fresh = vend[r].cred
  <2>1. vend[r] \in VendState
    BY DEF IInv, SessionInv, TypeOK
  <2> QED
    BY <2>1, IdleVendFields DEF VendState
<1>2. /\ SessionInv' /\ vend'[r] = new
      /\ \A q \in Runtime : q # r => vend'[q] = vend[q]
  <2>1. /\ tokens' \in Nat /\ spent' \subseteq Nat /\ lost' \subseteq User
        /\ DOMAIN vault' \subseteq User /\ \A x \in DOMAIN vault' : vault'[x] \in Credential
    BY DEF IInv, SessionInv, TypeOK
  <2>2. new.pc # "idle" => new.user \in User
    BY <1>1 DEF IInv, SessionInv, AccountsKnown
  <2> QED
    BY <1>1, <2>1, <2>2, VendKeepsSessions DEF IInv
<1>3. VaultInv'
  <2>1. /\ \A v \in Tab : Exchanged(v)' <=> Exchanged(v)
        /\ \A v \in Tab : LoggingOut(v)' <=> LoggingOut(v)
        /\ \A q \in Runtime : Renewed(q) <=> Renewed(q)'
        /\ \A q \in Runtime : Renewed(q) => q # r
        /\ \A c : Sound(c)' <=> Sound(c)
    BY <1>1, <1>2 DEF Exchanged, LoggingOut, Renewed, Sound
  <2>2. \A q \in Runtime : vend'[q].pc # "idle" =>
          /\ vend[q].pc # "idle" /\ vend'[q].cred = vend[q].cred /\ vend'[q].user = vend[q].user
    BY <1>1, <1>2
  <2>3. CredentialsSound'
    BY <1>2, <2>1, <2>2 DEF IInv, VaultInv, CredentialsSound
  <2>4. HandsApart'
    BY <1>2, <2>1 DEF IInv, VaultInv, HandsApart
  <2>5. \A n : Unseen(n) => Unseen(n)'
    BY <2>1, <2>2 DEF Unseen
  <2>6. HandsUnseen'
    BY <1>2, <2>1, <2>5 DEF IInv, VaultInv, HandsUnseen
  <2>7. VaultApart'
    BY <2>1, <2>2 DEF IInv, VaultInv, VaultApart
  <2>8. SpentReplaced' /\ DeletedStaysDeleted'
    BY <1>2, <2>1 DEF IInv, VaultInv, SpentReplaced, DeletedStaysDeleted
  <2> QED
    BY <2>3, <2>4, <2>6, <2>7, <2>8 DEF VaultInv
<1> QED
  BY <1>2, <1>3 DEF IInv

\* A refresh the provider accepts: the old refresh token may be spent by it,
\* the new tokens are in the vend's hand or lost.
LEMMA RenewalKeeps ==
  ASSUME IInv, NEW r \in Runtime, NEW inVain \in BOOLEAN, NEW new,
         vend[r].pc = "read",
         tokens' = tokens + 1,
         spent' = IF provider = "rotates" THEN spent \union {vend[r].cred.refresh} ELSE spent,
         lost' = IF inVain THEN lost \union {vend[r].user} ELSE lost,
         vend' = [vend EXCEPT ![r] = new],
         new = IF inVain THEN IdleVend
               ELSE [vend[r] EXCEPT !.pc = "fresh", !.fresh = [access |-> tokens + 1,
                        refresh |-> IF provider = "rotates" THEN tokens + 1 ELSE NoSecret]],
         UNCHANGED <<sessions, issued, jar, tab, vault, provider, old, revoked, removed>>
  PROVE  IInv'
<1> DEFINE n == tokens + 1
           c == vend[r].cred
           fresh == [access |-> n, refresh |-> IF provider = "rotates" THEN n ELSE NoSecret]
<1>1. /\ tokens \in Nat /\ n \in Nat /\ n # 0 /\ n > tokens
      /\ c \in Credential /\ c.refresh \in Nat /\ vend[r].user \in User
      /\ Sound(c) /\ c.refresh # NoSecret
  BY Fields DEF IInv, SessionInv, TypeOK, AccountsKnown, VaultInv, CredentialsSound
<1>2. /\ fresh \in Credential /\ fresh.access = n
      /\ fresh.refresh = IF provider = "rotates" THEN n ELSE NoSecret
  BY <1>1 DEF Credential, NoSecret
<1>3. new = IF inVain THEN IdleVend ELSE [vend[r] EXCEPT !.pc = "fresh", !.fresh = fresh]
  OBVIOUS
<1> HIDE DEF fresh
<1>4. /\ new \in VendState
      /\ inVain => new.pc = "idle"
      /\ ~inVain => /\ new.pc = "fresh" /\ new.user = vend[r].user
                    /\ new.cred = c /\ new.fresh = fresh
  <2>1. vend[r] \in VendState
    BY DEF IInv, SessionInv, TypeOK
  <2> QED
    BY <1>2, <1>3, <2>1, IdleVendFields DEF VendState
<1>5. /\ SessionInv' /\ vend'[r] = new
      /\ \A q \in Runtime : q # r => vend'[q] = vend[q]
  <2>1. /\ tokens' \in Nat /\ spent' \subseteq Nat /\ lost' \subseteq User
        /\ DOMAIN vault' \subseteq User /\ \A x \in DOMAIN vault' : vault'[x] \in Credential
    BY <1>1 DEF IInv, SessionInv, TypeOK
  <2>2. new.pc # "idle" => new.user \in User
    BY <1>1, <1>4
  <2> QED
    BY <1>4, <2>1, <2>2, VendKeepsSessions DEF IInv
<1>6. /\ \A v \in Tab : Exchanged(v)' <=> Exchanged(v)
      /\ \A v \in Tab : LoggingOut(v)' <=> LoggingOut(v)
      /\ \A q \in Runtime : Renewed(q) => q # r
      /\ \A q \in Runtime : q # r => (Renewed(q) <=> Renewed(q)')
      /\ ~inVain => Renewed(r)'
  <2>1. /\ \A v \in Tab : Exchanged(v)' <=> Exchanged(v)
        /\ \A v \in Tab : LoggingOut(v)' <=> LoggingOut(v)
        /\ \A q \in Runtime : Renewed(q) => q # r
        /\ \A q \in Runtime : q # r => (Renewed(q) <=> Renewed(q)')
    BY <1>5 DEF Exchanged, LoggingOut, Renewed
  <2>2. c.access # n
    BY <1>1 DEF Sound
  <2>3. ~inVain => Renewed(r)'
    BY <1>2, <1>4, <1>5, <2>2 DEF Renewed
  <2> QED
    BY <2>1, <2>3
<1>7. \A x : Sound(x) => Sound(x)'
  BY <1>1 DEF Sound
<1>8. \A m \in spent' : m \in spent \/ (provider = "rotates" /\ m = c.access /\ m = c.refresh)
  BY <1>1 DEF Sound
<1>9. \A q \in Runtime : vend'[q].pc # "idle" =>
         /\ vend[q].pc # "idle" /\ vend'[q].cred = vend[q].cred /\ vend'[q].user = vend[q].user
  BY <1>4, <1>5
<1>10. CredentialsSound'
  <2>1. \A u \in DOMAIN vault' : Sound(vault[u])'
    BY <1>7 DEF IInv, VaultInv, CredentialsSound, Sound
  <2>2. \A v \in Tab : Exchanged(v)' => Sound(tab[v].cred)'
    BY <1>6, <1>7 DEF IInv, VaultInv, CredentialsSound, Sound
  <2>3. \A v \in Tab : LoggingOut(v)' => tab'[v].cred.access \in 0 .. tokens'
    BY <1>1, <1>6 DEF IInv, VaultInv, CredentialsSound
  <2>4. \A q \in Runtime : vend'[q].pc # "idle" => Sound(vend[q].cred)' /\ vend'[q].cred.refresh # NoSecret
    BY <1>7, <1>9 DEF IInv, VaultInv, CredentialsSound, Sound
  <2>5. ASSUME NEW q \in Runtime, Renewed(q)'
        PROVE  /\ vend'[q].fresh.access \in 1 .. tokens'
               /\ vend'[q].fresh.refresh = IF provider' = "rotates" THEN vend'[q].fresh.access ELSE NoSecret
    <3>1. CASE q = r
      <4>1. ~inVain
        BY <1>4, <1>5, <2>5, <3>1 DEF Renewed
      <4>2. vend'[q].fresh = fresh
        BY <1>4, <1>5, <3>1, <4>1
      <4>3. n \in 1 .. tokens'
        BY <1>1
      <4> HIDE DEF n
      <4> QED
        BY <1>2, <4>2, <4>3
    <3>2. CASE q # r
      <4>1. /\ vend[q].fresh.access \in 1 .. tokens
            /\ vend[q].fresh.refresh = IF provider = "rotates" THEN vend[q].fresh.access ELSE NoSecret
        BY <1>6, <2>5, <3>2 DEF IInv, VaultInv, CredentialsSound
      <4> QED
        BY <1>1, <1>5, <3>2, <4>1
    <3> QED
      BY <3>1, <3>2
  <2>6. \A m \in removed' \union revoked' \union spent' : m <= tokens'
    <3>1. c.access <= tokens
      BY <1>1 DEF Sound
    <3> QED
      BY <1>1, <1>8, <3>1 DEF IInv, SessionInv, TypeOK, VaultInv, CredentialsSound
  <2> QED
    BY <2>1, <2>2, <2>3, <2>4, <2>5, <2>6 DEF CredentialsSound
<1>11. HandsApart'
  <2>1. \A q \in Runtime : (Renewed(q)' /\ q # r) => vend[q].fresh.access # n /\ Renewed(q) /\ vend'[q] = vend[q]
    BY <1>5, <1>6, NewTokenUnseen
  <2>2. Renewed(r)' => vend'[r].fresh.access = n
    BY <1>2, <1>4, <1>5 DEF Renewed
  <2>3. \A v \in Tab : Exchanged(v)' => Exchanged(v) /\ tab[v].cred.access # n
    BY <1>6, NewTokenUnseen
  <2>4. \A p, q \in Runtime :
          (Renewed(p)' /\ Renewed(q)' /\ vend'[p].fresh.access = vend'[q].fresh.access) => p = q
    BY <2>1, <2>2 DEF IInv, VaultInv, HandsApart
  <2>5. \A v \in Tab, q \in Runtime : (Exchanged(v)' /\ Renewed(q)')
                            => tab'[v].cred.access # vend'[q].fresh.access
    BY <2>1, <2>2, <2>3 DEF IInv, VaultInv, HandsApart
  <2> QED
    BY <1>6, <2>4, <2>5 DEF IInv, VaultInv, HandsApart
<1>12. \A m : Unseen(m) => Unseen(m)'
  BY <1>6, <1>8, <1>9 DEF Unseen
<1>13. HandsUnseen'
  <2>1. Renewed(r)' => vend'[r].fresh.access = n
    BY <1>2, <1>4, <1>5 DEF Renewed
  <2>2. \A m : m = n => Unseen(m)'
    BY <1>12, NewTokenUnseen
  <2>3. \A v \in Tab : Exchanged(v)' => Unseen(tab[v].cred.access)'
    BY <1>6, <1>12 DEF IInv, VaultInv, HandsUnseen, Unseen
  <2>4. ASSUME NEW q \in Runtime, Renewed(q)' PROVE Unseen(vend[q].fresh.access)'
    <3>1. CASE q = r
      BY <2>1, <2>2, <2>4, <3>1 DEF Unseen
    <3>2. CASE q # r
      BY <1>5, <1>6, <1>12, <2>4, <3>2 DEF IInv, VaultInv, HandsUnseen, Unseen
    <3> QED
      BY <3>1, <3>2
  <2> QED
    BY <2>3, <2>4 DEF HandsUnseen
<1>14. VaultApart'
  BY <1>6, <1>9 DEF IInv, VaultInv, VaultApart
<1>15. SpentReplaced'
  <2>1. provider' # "rotates" => spent' = {}
    BY DEF IInv, VaultInv, SpentReplaced
  <2>2. ASSUME NEW u \in DOMAIN vault', vault'[u].refresh \in spent'
        PROVE  u \in lost' \/ \E q \in Runtime : Renewed(q)' /\ vend'[q].user = u
    <3>1. CASE vault[u].refresh \in spent
      <4>1. u \in lost \/ \E q \in Runtime : Renewed(q) /\ vend[q].user = u
        BY <3>1 DEF IInv, VaultInv, SpentReplaced
      <4> QED
        BY <1>5, <1>6, <4>1
    <3>2. CASE provider = "rotates" /\ vault[u].refresh = c.access
      <4>1. vault[u].access = c.access
        BY <3>2 DEF IInv, VaultInv, CredentialsSound, Sound
      <4>2. u = vend[r].user
        BY <4>1 DEF IInv, VaultInv, VaultApart
      <4> QED
        BY <1>4, <1>5, <1>6, <4>2
    <3> QED
      BY <1>8, <2>2, <3>1, <3>2
  <2> QED
    BY <2>1, <2>2 DEF SpentReplaced
<1>16. DeletedStaysDeleted'
  BY DEF IInv, VaultInv, DeletedStaysDeleted
<1>17. VaultInv'
  BY <1>10, <1>11, <1>13, <1>14, <1>15, <1>16 DEF VaultInv
<1> QED
  BY <1>5, <1>17 DEF IInv

\* A token source answers, with or without a refresh.
LEMMA RefreshKeeps ==
  ASSUME IInv, NEW r \in Runtime, NEW inVain \in BOOLEAN, Refresh(r, inVain)
  PROVE  IInv'
<1> DEFINE c == vend[r].cred
<1>1. /\ vend[r].pc = "read" /\ ~Renewed(r)
      /\ UNCHANGED <<sessions, issued, jar, tab, vault, provider, old, revoked, removed>>
  BY DEF Refresh, Renewed, sessionVars
<1>2. CASE c.access \notin old
  <2> DEFINE new == [vend[r] EXCEPT !.pc = "fresh", !.fresh = c]
  <2>1. /\ vend' = [vend EXCEPT ![r] = new]
        /\ UNCHANGED <<tokens, spent, lost>>
    BY <1>2 DEF Refresh, IInv, SessionInv, TypeOK
  <2> QED
    BY <1>1, <2>1, UnrefreshedKeeps
<1>3. CASE c.access \in old /\ c.refresh \in spent
  <2>1. /\ vend' = [vend EXCEPT ![r] = IdleVend]
        /\ UNCHANGED <<tokens, spent, lost>>
    BY <1>3 DEF Refresh
  <2> QED
    BY <1>1, <2>1, UnrefreshedKeeps
<1>4. CASE c.access \in old /\ c.refresh \notin spent
  <2> DEFINE new == IF inVain THEN IdleVend
                    ELSE [vend[r] EXCEPT !.pc = "fresh", !.fresh = [access |-> tokens + 1,
                            refresh |-> IF provider = "rotates" THEN tokens + 1 ELSE NoSecret]]
  <2>1. /\ tokens' = tokens + 1
        /\ spent' = IF provider = "rotates" THEN spent \union {c.refresh} ELSE spent
        /\ lost' = IF inVain THEN lost \union {vend[r].user} ELSE lost
    BY <1>4 DEF Refresh
  <2>2. vend' = [vend EXCEPT ![r] = new]
    BY <1>4 DEF Refresh, IInv, SessionInv, TypeOK
  <2> QED
    BY <1>1, <2>1, <2>2, RenewalKeeps
<1> QED
  BY <1>2, <1>3, <1>4

\* What a vend stores is a sound credential that was in its hand only, with a
\* refresh token the provider accepts.
LEMMA RotatedSound ==
  ASSUME IInv, NEW r \in Runtime, Renewed(r)
  PROVE  LET c == Rotated(vend[r].cred, vend[r].fresh) IN
         /\ c \in Credential /\ c.access = vend[r].fresh.access
         /\ Sound(c) /\ Unseen(c.access) /\ c.refresh \notin spent
<1> DEFINE c == Rotated(vend[r].cred, vend[r].fresh)
<1>1. /\ vend[r].pc # "idle"
      /\ vend[r].fresh \in Credential /\ vend[r].cred \in Credential
      /\ provider \in {"none", "keeps", "rotates"}
      /\ vend[r].fresh.access \in 1 .. tokens
  BY LoginAssumption, Fields DEF Renewed, IInv, SessionInv, TypeOK, VaultInv, CredentialsSound
<1>2. /\ c \in Credential /\ c.access = vend[r].fresh.access
      /\ c.refresh = IF vend[r].fresh.refresh = NoSecret THEN vend[r].cred.refresh
                     ELSE vend[r].fresh.refresh
  BY <1>1 DEF Rotated, Credential
<1>3. /\ Sound(vend[r].cred) /\ vend[r].cred.refresh # NoSecret
      /\ vend[r].fresh.refresh = IF provider = "rotates" THEN vend[r].fresh.access ELSE NoSecret
  BY <1>1 DEF IInv, VaultInv, CredentialsSound
<1> HIDE DEF c
<1>4. Sound(c)
  BY <1>1, <1>2, <1>3 DEF Sound, NoSecret
<1>5. Unseen(c.access)
  BY <1>2 DEF IInv, VaultInv, HandsUnseen
<1>6. c.refresh \notin spent
  BY <1>1, <1>4, <1>5 DEF Sound, Unseen, IInv, VaultInv, SpentReplaced
<1> QED
  BY <1>2, <1>4, <1>5, <1>6 DEF c

\* A vend ends, and stores what was rotated.
LEMMA EndVendKeeps ==
  ASSUME IInv, NEW r \in Runtime, EndVend(r)
  PROVE  IInv'
<1>1. /\ vend[r].pc = "fresh" /\ vend' = [vend EXCEPT ![r] = IdleVend]
      /\ UNCHANGED <<sessions, issued, jar, tab, provider, tokens, old, revoked, spent, lost, removed>>
  BY DEF EndVend, sessionVars, providerVars, history
<1>2. CASE ~Renewed(r)
  <2>1. UNCHANGED vault
    BY <1>1, <1>2 DEF EndVend, Persist, Renewed
  <2> QED
    BY <1>1, <1>2, <2>1, UnrefreshedKeeps
<1>3. CASE Renewed(r)
  <2> DEFINE u == vend[r].user
             c == Rotated(vend[r].cred, vend[r].fresh)
  <2>1. Put(u, c)
    BY <1>3 DEF EndVend, Persist, Renewed
  <2>2. /\ c \in Credential /\ c.access = vend[r].fresh.access
        /\ Sound(c) /\ Unseen(c.access) /\ c.refresh \notin spent
    BY <1>3, RotatedSound
  <2>3. u \in User
    BY <1>1 DEF IInv, SessionInv, AccountsKnown
  <2> HIDE DEF u, c
  <2>4. /\ SessionInv' /\ vend'[r].pc = "idle"
        /\ \A q \in Runtime : q # r => vend'[q] = vend[q]
    <3>1. DOMAIN vault' \subseteq User /\ \A x \in DOMAIN vault' : vault'[x] \in Credential
      BY <2>1, <2>2, <2>3 DEF Put, IInv, SessionInv, TypeOK
    <3>2. tokens' \in Nat /\ spent' \subseteq Nat /\ lost' \subseteq User
      BY <1>1 DEF IInv, SessionInv, TypeOK
    <3> QED
      BY <1>1, <3>1, <3>2, IdleVendFields, VendKeepsSessions DEF IInv
  <2>5. VaultInv'
    <3>1. \A v \in Tab : Exchanged(v)' => /\ Exchanged(v) /\ tab'[v] = tab[v]
                                         /\ tab[v].cred.access # c.access
      BY <1>1, <1>3, <2>2 DEF Exchanged, IInv, VaultInv, HandsApart
    <3>2. \A v \in Tab : LoggingOut(v)' => LoggingOut(v) /\ tab'[v] = tab[v]
      BY <1>1 DEF LoggingOut
    <3>3. \A q \in Runtime : vend'[q].pc # "idle" => vend'[q] = vend[q]
      BY <2>4
    <3>4. \A q \in Runtime : Renewed(q)' => vend[q].fresh.access # c.access
      BY <1>3, <2>2, <2>4 DEF Renewed, IInv, VaultInv, HandsApart
    <3>5. \A q \in Runtime : (Renewed(q) /\ vend[q].user # u) => vend'[q] = vend[q]
      BY <2>4 DEF u
    <3>6. VaultInv
      BY DEF IInv
    <3> QED
      BY <1>1, <2>1, <2>2, <2>3, <3>1, <3>2, <3>3, <3>4, <3>5, <3>6, PutKeeps
  <2> QED
    BY <2>4, <2>5 DEF IInv
<1> QED
  BY <1>2, <1>3

-------------------------------------------------------------------------------
(* Time.                                                                   *)

\* Sessions expire and are collected, access tokens expire.
LEMMA TimeKeeps ==
  ASSUME IInv,
         \/ \E s \in SessionId : Expire(s)
         \/ Collect
         \/ \E n \in 1 .. tokens : TokenExpires(n)
  PROVE  IInv'
<1>1. UNCHANGED <<issued, jar, tab, vault, provider, tokens, revoked, spent, vend, lost, removed>>
  BY DEF Expire, Collect, TokenExpires, sessionVars, providerVars, history
<1>2. /\ DOMAIN sessions' \subseteq DOMAIN sessions
      /\ \A s \in DOMAIN sessions' : sessions'[s] \in SessionState
  <2>1. ASSUME NEW s \in SessionId, Expire(s)
        PROVE  /\ DOMAIN sessions' \subseteq DOMAIN sessions
               /\ \A x \in DOMAIN sessions' : sessions'[x] \in SessionState
    <3>1. /\ DOMAIN sessions' = DOMAIN sessions
          /\ \A x \in DOMAIN sessions : x # s => sessions'[x] = sessions[x]
          /\ s \in DOMAIN sessions /\ sessions'[s] = [sessions[s] EXCEPT !.expired = TRUE]
      BY <2>1 DEF Expire
    <3>2. [sessions[s] EXCEPT !.expired = TRUE] \in SessionState
      <4>1. sessions[s] \in SessionState
        BY <3>1 DEF IInv, SessionInv, TypeOK
      <4> QED
        BY <4>1 DEF SessionState
    <3> QED
      BY <3>1, <3>2 DEF IInv, SessionInv, TypeOK
  <2>2. CASE Collect
    BY <2>2, FewerSessions DEF Collect, IInv, SessionInv, TypeOK
  <2>3. CASE \E n \in 1 .. tokens : TokenExpires(n)
    BY <2>3 DEF TokenExpires, sessionVars, IInv, SessionInv, TypeOK
  <2> QED
    BY <2>1, <2>2, <2>3
<1>3. old' \subseteq Nat
  BY DEF Expire, Collect, TokenExpires, providerVars, IInv, SessionInv, TypeOK
<1>4. SessionInv'
  BY <1>1, <1>2, <1>3 DEF IInv, SessionInv, TypeOK, IdsIssued, AccountsKnown, Served
<1>5. VaultInv'
  BY <1>1, NothingKeeps DEF IInv
<1> QED
  BY <1>4, <1>5 DEF IInv

-------------------------------------------------------------------------------
(* The theorems.                                                           *)

\* Every step keeps the inductive invariant.
LEMMA NextKeeps == IInv /\ [Next]_vars => IInv'
<1> SUFFICES ASSUME IInv, [Next]_vars PROVE IInv'
  OBVIOUS
<1>1. ASSUME NEW t \in Tab, TabStep(t) PROVE IInv'
  <2>1. CASE StartLogin(t)
    BY <2>1, StartLoginKeeps
  <2>2. CASE Arrive(t)
    BY <2>2, ArriveKeeps
  <2>3. CASE StoreCredential(t)
    BY <2>3, StoreCredentialKeeps
  <2>4. CASE Authenticate(t)
    BY <2>4, AuthenticateKeeps
  <2>5. CASE StartLogout(t)
    BY <2>5, StartLogoutOfNobodyKeeps, StartLogoutOfUserKeeps
  <2>6. CASE DeleteCredential(t)
    BY <2>6, DeleteCredentialKeeps
  <2>7. CASE \E u \in User \union {NoUser} : Callback(t, u)
    BY <2>7, CallbackKeeps
  <2>8. CASE ExchangeCode(t, TRUE) \/ ExchangeCode(t, FALSE)
    BY <2>8, ExchangeCodeKeeps, FailedExchangeKeeps
  <2>9. CASE \E b \in BOOLEAN : RevokeAndDestroy(t, b)
    BY <2>9, RevokeAndDestroyKeeps
  <2> QED
    BY <1>1, <2>1, <2>2, <2>3, <2>4, <2>5, <2>6, <2>7, <2>8, <2>9 DEF TabStep
<1>2. ASSUME NEW r \in Runtime, RuntimeStep(r) PROVE IInv'
  BY <1>2, VendKeeps, RefreshKeeps, EndVendKeeps DEF RuntimeStep
<1>3. CASE \/ \E s \in SessionId : Expire(s)
           \/ Collect
           \/ \E n \in 1 .. tokens : TokenExpires(n)
  BY <1>3, TimeKeeps
<1>4. CASE UNCHANGED vars
  <2>1. SessionInv'
    BY <1>4 DEF vars, sessionVars, providerVars, history, IInv, SessionInv, TypeOK, IdsIssued,
                AccountsKnown, Served
  <2>2. VaultInv'
    BY <1>4, NothingKeeps DEF vars, providerVars, history, IInv
  <2> QED
    BY <2>1, <2>2 DEF IInv
<1> QED
  BY <1>1, <1>2, <1>3, <1>4 DEF Next

\* The inductive invariant holds of every state of the program.
THEOREM Inductive == Spec => []IInv
<1>1. Init => IInv
  BY InitKeeps
<1>2. IInv /\ [Next]_vars => IInv'
  BY NextKeeps
<1> QED
  BY <1>1, <1>2, PTL DEF Spec

\* What a logout deleted or revoked is never in the vault again, however vends,
\* logins and logouts of the same user overlap (Credential, StoreCredential,
\* DeleteUserCredential).
THEOREM DeletedStays == Spec => []DeletedStaysDeleted
<1>1. IInv => DeletedStaysDeleted
  BY DEF IInv, VaultInv
<1> QED
  BY <1>1, Inductive, PTL

\* The refresh token in the vault is one the provider still accepts, unless a
\* refresh is on its way to the vault or was lost (Credential keeps the old
\* refresh token when the provider sends none).
THEOREM RefreshTokenKept == Spec => []StaysRefreshable
<1>1. ASSUME IInv PROVE StaysRefreshable
  <2> SUFFICES ASSUME NEW u \in DOMAIN vault, provider # "none", u \notin lost,
                      \A r \in Runtime : vend[r].pc = "fresh" => vend[r].user # u
               PROVE  vault[u].refresh # NoSecret /\ vault[u].refresh \notin spent
    BY DEF StaysRefreshable
  <2>1. Sound(vault[u])
    BY <1>1 DEF IInv, VaultInv, CredentialsSound
  <2>2. vault[u].refresh # NoSecret
    BY <1>1, <2>1, LoginAssumption DEF Sound, NoSecret, IInv, SessionInv, TypeOK
  <2>3. vault[u].refresh \notin spent
    BY <1>1 DEF IInv, VaultInv, SpentReplaced, Renewed
  <2> QED
    BY <2>2, <2>3
<1> QED
  BY <1>1, Inductive, PTL

\* Only the end of a login makes a session authenticated, under an id never
\* used before, and the session the login began with is gone (Authenticate).
THEOREM IdRotated == Spec => LoginRotatesId
<1> DEFINE New(s) == sessions'[s].user # NoUser /\ (s \in DOMAIN sessions => sessions[s].user = NoUser)
           Rotates == \A s \in DOMAIN sessions' : New(s) =>
             /\ s > issued
             /\ \E t \in Tab : /\ tab[t].pc = "stored"
                               /\ tab[t].user = sessions'[s].user
                               /\ tab[t].cookie \notin DOMAIN sessions'
<1>1. ASSUME IInv, [Next]_vars PROVE [Rotates]_vars
  <2> SUFFICES ASSUME NEW s \in DOMAIN sessions', New(s)
               PROVE  /\ s > issued
                      /\ \E t \in Tab : /\ tab[t].pc = "stored"
                                        /\ tab[t].user = sessions'[s].user
                                        /\ tab[t].cookie \notin DOMAIN sessions'
    OBVIOUS
  <2>1. issued \in Nat /\ SessionInv
    BY <1>1 DEF IInv, SessionInv, TypeOK
  <2>2. ASSUME NEW t \in Tab, Authenticate(t)
        PROVE  /\ s > issued
               /\ tab[t].pc = "stored" /\ tab[t].user = sessions'[s].user
               /\ tab[t].cookie \notin DOMAIN sessions'
    <3>1. /\ NewSession(t, "reply", tab[t].cookie, tab[t].user)
          /\ tab[t].user \in User \union {NoUser} /\ tab[t].cookie \in Nat /\ tab[t].pc = "stored"
      BY <2>1, <2>2, Fields DEF Authenticate, SessionInv
    <3>2. \A x \in DOMAIN sessions' :
             \/ x = issued + 1 /\ sessions'[x].user = tab[t].user
             \/ x \in DOMAIN sessions /\ x # tab[t].cookie /\ sessions'[x] = sessions[x]
      BY <2>1, <2>2, <3>1, NewSessionKeeps DEF Authenticate
    <3>3. tab[t].cookie <= issued
      BY <2>1 DEF SessionInv, IdsIssued
    <3> QED
      BY <2>1, <3>1, <3>2, <3>3
  <2>3. ASSUME NEW t \in Tab, StartLogin(t) PROVE FALSE
    <3>1. NewSession(t, "redirect", NoCookie, NoUser)
      BY <2>3 DEF StartLogin
    <3>2. \A x \in DOMAIN sessions' :
             \/ x = issued + 1 /\ sessions'[x].user = NoUser
             \/ x \in DOMAIN sessions /\ x # NoCookie /\ sessions'[x] = sessions[x]
      BY <2>1, <2>3, <3>1, NewSessionKeeps DEF StartLogin, NoCookie
    <3> QED
      BY <3>2
  <2>4. ASSUME NEW x \in SessionId, Expire(x) PROVE FALSE
    <3>1. /\ DOMAIN sessions' = DOMAIN sessions
          /\ \A y \in DOMAIN sessions : y # x => sessions'[y] = sessions[y]
          /\ x \in DOMAIN sessions /\ sessions'[x] = [sessions[x] EXCEPT !.expired = TRUE]
      BY <2>4 DEF Expire
    <3>2. sessions[x] \in SessionState
      BY <2>1, <3>1 DEF SessionInv, TypeOK
    <3>3. sessions'[x].user = sessions[x].user
      BY <3>1, <3>2 DEF SessionState
    <3> QED
      BY <3>1, <3>3
  <2>5. ASSUME DOMAIN sessions' \subseteq DOMAIN sessions /\ \A x \in DOMAIN sessions' : sessions'[x] = sessions[x]
        PROVE  FALSE
    BY <2>5
  <2>6. ASSUME NEW t \in Tab, TabStep(t), ~StartLogin(t), ~Authenticate(t) PROVE FALSE
    <3>1. CASE Arrive(t) \/ StoreCredential(t) \/ DeleteCredential(t)
                 \/ \E b \in BOOLEAN : ExchangeCode(t, b)
      BY <2>5, <3>1 DEF Arrive, StoreCredential, DeleteCredential, ExchangeCode, sessionVars
    <3>2. CASE StartLogout(t)
      BY <2>5, <3>2, FewerSessions DEF StartLogout, Without
    <3>3. CASE \E u \in User \union {NoUser} : Callback(t, u)
      BY <2>5, <3>3, FewerSessions DEF Callback, Swept
    <3>4. CASE \E b \in BOOLEAN : RevokeAndDestroy(t, b)
      BY <2>5, <3>4, FewerSessions DEF RevokeAndDestroy, Without
    <3> QED
      BY <2>6, <3>1, <3>2, <3>3, <3>4 DEF TabStep
  <2>7. ASSUME NEW r \in Runtime, RuntimeStep(r) PROVE FALSE
    BY <2>5, <2>7 DEF RuntimeStep, Vend, Refresh, EndVend, sessionVars
  <2>8. CASE Collect
    BY <2>5, <2>8, FewerSessions DEF Collect
  <2>9. CASE \E n \in 1 .. tokens : TokenExpires(n)
    BY <2>5, <2>9 DEF TokenExpires, sessionVars
  <2>10. CASE UNCHANGED vars
    BY <2>5, <2>10 DEF vars, sessionVars
  <2> QED
    BY <1>1, <2>2, <2>3, <2>4, <2>6, <2>7, <2>8, <2>9, <2>10 DEF Next
<1> QED
  BY <1>1, Inductive, PTL DEF Spec, LoginRotatesId

===============================================================================
