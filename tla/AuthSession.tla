---------------------------- MODULE AuthSession ----------------------------
(***************************************************************************)
(* The browser tab's session (frontend/src/lib/auth/store.ts) with the     *)
(* promises that can settle late: password logins and Kerberos handshakes  *)
(* of the login page, silent renewals, the fire-and-forget user.logout,    *)
(* and the screens' queries.  The login method is kept per browser, so     *)
(* other tabs write it too.                                                *)
(***************************************************************************)
EXTENDS Naturals, Sequences

CONSTANTS
  User,      \* the people who sign in
  Principal, \* the one this machine's Kerberos ticket names
  Nobody,    \* the username when signed out
  Attempt,   \* bound: attempts of the login page that are in flight
  Renewal,   \* bound: silent renewals that are in flight
  Query,     \* bound: queries
  MaxToken,  \* bound: sessions Zabbix hands out
  MaxActs    \* bound: logins and logouts

ASSUME AuthAssumption ==
  /\ Principal \in User /\ Nobody \notin User
  /\ MaxToken \in Nat /\ MaxActs \in Nat

VARIABLES
  store,     \* token and username of useAuthStore
  client,    \* the token zabbixClient sends
  saved,     \* token and username in sessionStorage
  method,    \* auzui-login-method in localStorage
  autoSso,   \* neither auzui-sso-attempted nor auzui-sso-suppressed is set
  loggingIn,
  reauthenticating,
  cooling,   \* the last renewal began less than REAUTH_COOLDOWN_MS ago
  generation, \* authGeneration
  attempts,  \* what the login page has in flight
  renewals,  \* the generation each handshake in flight captured
  logouts,   \* the tokens whose user.logout has not been answered
  queries,   \* the request of each query
  cached,    \* whose data the query cache holds
  live,      \* Zabbix: the tokens it accepts
  owner,     \* Zabbix: whose tokens it has handed out
  acts,      \* logins and logouts so far
  signedOut, \* history: nobody has tried to sign in since the last logout
  origin     \* history: what the present session came from

server == <<live, owner>>
flags  == <<method, autoSso, loggingIn, reauthenticating, cooling, generation>>
vars   == <<store, client, saved, flags, attempts, renewals, logouts, queries,
            cached, server, acts, signedOut, origin>>

\* Token 0 stands for null and undefined.
Tokens      == 0..MaxToken
Generations == 0..(MaxActs + MaxToken)
None        == [token |-> 0, user |-> Nobody]
Sessions    == {None} \cup [token : Tokens \ {0}, user : User]

\* `here`: the login page that began the attempt is still mounted.
Attempts == [kind : {"password", "click", "auto"}, user : User, here : BOOLEAN]
Requests == [at : {"sent", "ok", "denied", "backoff"}, token : Tokens, try : 1..2]

\* What a promise captured, or nothing once it has settled.
AtMostOne(S) == {{}} \cup {{x} : x \in S}

TypeOK ==
  /\ store \in Sessions /\ saved \in Sessions /\ client \in Tokens
  /\ method \in {"none", "password", "spnego"}
  /\ {autoSso, loggingIn, reauthenticating, cooling, signedOut} \subseteq BOOLEAN
  /\ generation \in Generations
  /\ attempts \in [Attempt -> AtMostOne(Attempts)]
  /\ renewals \in [Renewal -> AtMostOne(Generations)]
  /\ queries \in [Query -> AtMostOne(Requests)]
  /\ logouts \subseteq Tokens \ {0}
  /\ cached \subseteq User
  /\ owner \in Seq(User) /\ Len(owner) <= MaxToken
  /\ live \subseteq DOMAIN owner
  /\ acts \in 0..MaxActs
  /\ origin \in {"nobody", "password", "click", "auto", "renewal"}

\* A new browser tab, opened on the login page.
Init ==
  /\ store = None /\ saved = None /\ client = 0
  /\ method \in {"none", "password", "spnego"}
  /\ autoSso = TRUE /\ loggingIn = FALSE
  /\ reauthenticating = FALSE /\ cooling = FALSE
  /\ generation = 0
  /\ attempts = [a \in Attempt |-> {}]
  /\ renewals = [r \in Renewal |-> {}]
  /\ logouts = {}
  /\ queries = [q \in Query |-> {}]
  /\ cached = {}
  /\ live = {} /\ owner = <<>>
  /\ acts = 0
  /\ signedOut = FALSE /\ origin = "nobody"

-----------------------------------------------------------------------------
(* The session changes hands.                                              *)

SetSession(s) ==
  /\ store' = s /\ saved' = s /\ client' = s.token

\* (mutant) the cache is emptied on sign-out only
Refresh_onSignOutOnly(s, S) ==
  IF s.user = Nobody
    THEN /\ queries' = [q \in Query |-> {}]
         /\ cached' = {}
    ELSE /\ queries' = [q \in Query |->
                          IF q \in S
                            THEN {[at |-> "sent", token |-> s.token, try |-> 1]}
                            ELSE queries[q]]
         /\ UNCHANGED cached

\* watchIdentityChanges: another username cancels the queries and empties
\* their cache; under the same one the queries in S are asked again.
Refresh(s, S) ==
  IF s.user # store.user
    THEN /\ queries' = [q \in Query |-> {}]
         /\ cached' = {}
    ELSE /\ queries' = [q \in Query |->
                          IF q \in S
                            THEN {[at |-> "sent", token |-> s.token, try |-> 1]}
                            ELSE queries[q]]
         /\ UNCHANGED cached

\* Zabbix hands out a session for u.
Mint(u) ==
  /\ Len(owner) < MaxToken
  /\ owner' = Append(owner, u)
  /\ live' = live \cup {Len(owner) + 1}

Minted(u) == [token |-> Len(owner) + 1, user |-> u]

\* Signed in, the login page goes: its automatic attempt is cancelled, but
\* the others go on without it.
Unmounted(but) ==
  [a \in Attempt |->
     {[x EXCEPT !.here = FALSE] :
        x \in {y \in attempts[a] : a # but /\ ~(y.kind = "auto" /\ y.here)}}]

\* (mutant) the username is not cleared
ClearSession_keepsUsername ==
  /\ SetSession([store EXCEPT !.token = 0])
  /\ Refresh([store EXCEPT !.token = 0], {})
  /\ origin' = "nobody"

\* (mutant) sessionStorage is not cleared
ClearSession_keepsStorage ==
  /\ store' = None /\ client' = 0 /\ UNCHANGED saved
  /\ Refresh(None, {})
  /\ origin' = "nobody"

ClearSession ==
  /\ SetSession(None)
  /\ Refresh(None, {})
  /\ origin' = "nobody"

-----------------------------------------------------------------------------
(* The login page.                                                         *)

PageShown == store.token = 0

\* The spinner hides the form while a handshake of this page is in flight.
FormShown ==
  /\ PageShown /\ ~autoSso
  /\ \A a \in Attempt : \A x \in attempts[a] : ~(x.here /\ x.kind # "password")

Begin(a, kind, u) ==
  /\ attempts[a] = {}
  /\ attempts' = [attempts EXCEPT ![a] = {[kind |-> kind, user |-> u, here |-> TRUE]}]
  /\ signedOut' = FALSE
  /\ UNCHANGED <<store, client, saved, method, reauthenticating, cooling,
                 renewals, logouts, queries, cached, server, origin>>

LoginBegin(a, u) ==
  /\ FormShown /\ ~loggingIn
  /\ acts < MaxActs
  /\ Begin(a, "password", u)
  /\ generation' = generation + 1
  /\ loggingIn' = TRUE
  /\ acts' = acts + 1
  /\ UNCHANGED autoSso

\* attemptSso, from the Kerberos button or once per tab when the page mounts.
SsoBegin(a) ==
  /\ \/ FormShown /\ Begin(a, "click", Principal)
     \/ PageShown /\ autoSso /\ Begin(a, "auto", Principal)
  /\ autoSso' = FALSE
  /\ UNCHANGED <<loggingIn, generation, acts>>

\* ZabbixApi.login and store.login, both up to their end.
LoginOk(a) ==
  /\ \E x \in attempts[a] :
       /\ x.kind = "password"
       /\ Mint(x.user)
       /\ SetSession(Minted(x.user))
       /\ Refresh(Minted(x.user), {})
  /\ attempts' = Unmounted(a)
  /\ method' = "password" /\ loggingIn' = FALSE
  /\ origin' = "password" /\ signedOut' = FALSE
  /\ UNCHANGED <<autoSso, reauthenticating, cooling, generation, renewals,
                 logouts, acts>>

LoginWithSso(s) ==
  /\ generation' = generation + 1
  /\ SetSession(s)
  /\ method' = "spnego" /\ loggingIn' = FALSE

SsoOk(a) ==
  /\ \E x \in attempts[a] :
       /\ x.kind # "password"
       /\ Mint(x.user)
       /\ LoginWithSso(Minted(x.user))
       /\ Refresh(Minted(x.user), {})
       /\ origin' = x.kind
  /\ attempts' = Unmounted(a)
  /\ signedOut' = FALSE
  /\ UNCHANGED <<autoSso, reauthenticating, cooling, renewals, logouts, acts>>

AttemptFails(a) ==
  /\ \E x \in attempts[a] :
       loggingIn' = IF x.kind = "password" THEN FALSE ELSE loggingIn
  /\ attempts' = [attempts EXCEPT ![a] = {}]
  /\ UNCHANGED <<store, client, saved, method, autoSso, reauthenticating,
                 cooling, generation, renewals, logouts, queries, cached,
                 server, acts, signedOut, origin>>

-----------------------------------------------------------------------------
(* Signing out.                                                            *)

\* The page's logout: user.logout is sent and not waited for (without a token
\* it ends no session).
Logout ==
  /\ store.token # 0
  /\ acts < MaxActs /\ acts' = acts + 1
  /\ generation' = generation + 1
  /\ logouts' = logouts \cup ({client} \ {0})
  /\ ClearSession
  /\ method' = "none" /\ autoSso' = FALSE /\ reauthenticating' = FALSE
  /\ signedOut' = TRUE
  /\ UNCHANGED <<loggingIn, cooling, attempts, renewals, server>>

\* ZabbixApi.logout goes on once Zabbix has ended the session; an error
\* answer, or none, ends it.
LogoutAnswered(n) ==
  /\ n \in logouts
  /\ logouts' = logouts \ {n}
  /\ \/ n \in live /\ live' = live \ {n} /\ client' = 0
     \/ live' \in {live, live \ {n}} /\ UNCHANGED client
  /\ UNCHANGED <<store, saved, flags, attempts, renewals, queries, cached,
                 owner, acts, signedOut, origin>>

-----------------------------------------------------------------------------
(* Queries and the session's end.                                          *)

Ask(q, try) ==
  queries' = [queries EXCEPT ![q] =
                {[at |-> "sent", token |-> client, try |-> try]}]

\* A mounted screen asks, or asks again.
Fetch(q) ==
  /\ store.token # 0
  /\ queries[q] = {}
  /\ Ask(q, 1)
  /\ UNCHANGED <<store, client, saved, flags, attempts, renewals, logouts,
                 cached, server, acts, signedOut, origin>>

\* The one retry, with the token of that moment.
Retry(q) ==
  /\ \E x \in queries[q] : x.at = "backoff"
  /\ Ask(q, 2)
  /\ UNCHANGED <<store, client, saved, flags, attempts, renewals, logouts,
                 cached, server, acts, signedOut, origin>>

Serve(q) ==
  /\ \E x \in queries[q] :
       /\ x.at = "sent"
       /\ queries' = [queries EXCEPT ![q] =
                        {[x EXCEPT !.at = IF x.token \in live THEN "ok" ELSE "denied"]}]
  /\ UNCHANGED <<store, client, saved, flags, attempts, renewals, logouts,
                 cached, server, acts, signedOut, origin>>

QuerySucceeds(q) ==
  /\ \E x \in queries[q] :
       /\ x.at = "ok"
       /\ cached' = cached \cup {owner[x.token]}
  /\ queries' = [queries EXCEPT ![q] = {}]
  /\ UNCHANGED <<store, client, saved, flags, attempts, renewals, logouts,
                 server, acts, signedOut, origin>>

QueryDenied(q) ==
  /\ \E x \in queries[q] :
       /\ x.at = "denied" /\ x.try = 1
       /\ queries' = [queries EXCEPT ![q] = {[x EXCEPT !.at = "backoff"]}]
  /\ UNCHANGED <<store, client, saved, flags, attempts, renewals, logouts,
                 cached, server, acts, signedOut, origin>>

\* handleSessionExpired, called for a query that was denied twice.
SessionExpired(q) ==
  /\ \E x \in queries[q] : x.at = "denied" /\ x.try = 2
  /\ \/ /\ reauthenticating
        /\ queries' = [queries EXCEPT ![q] = {}]
        /\ UNCHANGED <<store, client, saved, flags, renewals, cached, origin>>
     \/ /\ ~reauthenticating /\ method = "spnego" /\ ~cooling
        /\ \E r \in Renewal :
             /\ renewals[r] = {}
             /\ renewals' = [renewals EXCEPT ![r] = {generation}]
        /\ cooling' = TRUE /\ reauthenticating' = TRUE /\ autoSso' = FALSE
        /\ queries' = [queries EXCEPT ![q] = {}]
        /\ UNCHANGED <<store, client, saved, method, loggingIn, generation,
                       cached, origin>>
     \/ /\ ~reauthenticating /\ (method # "spnego" \/ cooling)
        /\ ClearSession
        /\ UNCHANGED <<flags, renewals>>
  /\ UNCHANGED <<attempts, logouts, server, acts, signedOut>>

\* (mutant) the superseded handshake does not release the flag
RenewalSuperseded_keepsFlag(r) ==
  /\ \E g \in renewals[r] : g # generation
  /\ renewals' = [renewals EXCEPT ![r] = {}]
  /\ UNCHANGED <<store, client, saved, flags, attempts, logouts, queries,
                 cached, server, acts, signedOut, origin>>

\* The handshake of a renewal ends after a newer login or logout: its result
\* is dropped.  Releasing the flag has the active queries asked again.
RenewalSuperseded(r) ==
  /\ \E g \in renewals[r] : g # generation
  /\ renewals' = [renewals EXCEPT ![r] = {}]
  /\ reauthenticating' = FALSE
  /\ \E S \in SUBSET Query :
       /\ S # {} => reauthenticating /\ store.token # 0
       /\ Refresh([store EXCEPT !.token = client], S)
  /\ UNCHANGED <<store, client, saved, method, autoSso, loggingIn, cooling,
                 generation, attempts, logouts, server, acts, signedOut, origin>>

\* (mutant) a newer logout does not invalidate the handshake
RenewalOk_ignoresLogout(r) ==
  /\ renewals[r] # {}
  /\ renewals' = [renewals EXCEPT ![r] = {}]
  /\ reauthenticating' = FALSE
  /\ Mint(Principal)
  /\ LoginWithSso(Minted(Principal))
  /\ \E S \in SUBSET Query : Refresh(Minted(Principal), S)
  /\ attempts' = Unmounted("none")
  /\ origin' = "renewal"
  /\ UNCHANGED <<autoSso, cooling, logouts, acts, signedOut>>

\* The new token is adopted, and the active queries, which the model leaves
\* open, are asked again (watchSilentReauth).
RenewalOk(r) ==
  /\ generation \in renewals[r]
  /\ renewals' = [renewals EXCEPT ![r] = {}]
  /\ reauthenticating' = FALSE
  /\ Mint(Principal)
  /\ LoginWithSso(Minted(Principal))
  /\ \E S \in SUBSET Query : Refresh(Minted(Principal), S)
  /\ attempts' = Unmounted("none")
  /\ origin' = "renewal"
  /\ UNCHANGED <<autoSso, cooling, logouts, acts, signedOut>>

RenewalFails(r) ==
  /\ generation \in renewals[r]
  /\ renewals' = [renewals EXCEPT ![r] = {}]
  /\ reauthenticating' = FALSE
  /\ ClearSession
  /\ UNCHANGED <<method, autoSso, loggingIn, cooling, generation, attempts,
                 logouts, server, acts, signedOut>>

RenewalEnds(r) == RenewalSuperseded(r) \/ RenewalOk(r) \/ RenewalFails(r)

-----------------------------------------------------------------------------
(* The rest of the world.                                                  *)

CoolDown ==
  /\ cooling /\ cooling' = FALSE
  /\ UNCHANGED <<store, client, saved, method, autoSso, loggingIn,
                 reauthenticating, generation, attempts, renewals, logouts,
                 queries, cached, server, acts, signedOut, origin>>

\* Zabbix ends a session (auto-logout, an administrator).
Expire(n) ==
  /\ n \in live
  /\ live' = live \ {n}
  /\ UNCHANGED <<store, client, saved, flags, attempts, renewals, logouts,
                 queries, cached, owner, acts, signedOut, origin>>

\* Another tab signs in or out.
OtherTab(m) ==
  /\ method # m /\ method' = m
  /\ UNCHANGED <<store, client, saved, autoSso, loggingIn, reauthenticating,
                 cooling, generation, attempts, renewals, logouts, queries,
                 cached, server, acts, signedOut, origin>>

\* The page is reloaded: the store starts from sessionStorage, and nothing
\* that was in flight comes back.
Reload ==
  /\ store' = saved /\ client' = saved.token
  /\ loggingIn' = FALSE /\ reauthenticating' = FALSE /\ cooling' = FALSE
  /\ generation' = 0
  /\ attempts' = [a \in Attempt |-> {}]
  /\ renewals' = [r \in Renewal |-> {}]
  /\ logouts' = {}
  /\ \E ended \in SUBSET logouts : live' = live \ ended
  /\ queries' = [q \in Query |-> {}]
  /\ cached' = {}
  /\ UNCHANGED <<saved, method, autoSso, owner, acts, signedOut, origin>>

Next ==
  \/ \E a \in Attempt :
       \/ \E u \in User : LoginBegin(a, u)
       \/ SsoBegin(a) \/ LoginOk(a) \/ SsoOk(a) \/ AttemptFails(a)
  \/ Logout
  \/ \E n \in DOMAIN owner : LogoutAnswered(n) \/ Expire(n)
  \/ \E q \in Query :
       \/ Fetch(q) \/ Retry(q) \/ Serve(q)
       \/ QuerySucceeds(q) \/ QueryDenied(q) \/ SessionExpired(q)
  \/ \E r \in Renewal : RenewalEnds(r)
  \/ CoolDown
  \/ \E m \in {"none", "password", "spnego"} : OtherTab(m)
  \/ Reload

\* Every handshake is answered, refused or given up by the browser.
Fairness == \A r \in Renewal : WF_vars(RenewalEnds(r))

Spec == Init /\ [][Next]_vars /\ Fairness

-----------------------------------------------------------------------------
(* Properties.                                                             *)

\* The store, sessionStorage and the client never show different sessions:
\* a request carries the token of the session on the screen or none at all,
\* and a reload brings back what was there, whatever settles in which order.
OneSession == saved = store /\ client \in {0, store.token}

\* The query cache holds only data of the user who is signed in: query keys
\* name no user (query-client.ts:43-58), so what an earlier session fetched,
\* or still has in flight, must not be shown to the next.
CacheIsOwn == cached \subseteq {store.user}

\* A silent renewal never signs somebody in again who has logged out, however
\* late its handshake ends (store.ts:65-74).
RenewalNeverUndoesLogout == ~(signedOut /\ origin = "renewal")

\* The flag that makes handleSessionExpired return early is always released,
\* also when the handshake was superseded (store.ts:138-141): otherwise no
\* later expiry would ever be handled.
FlagIsReleased == reauthenticating ~> ~reauthenticating

\* While the flag is set a handshake is in flight whose end will release it: no
\* logout, newer login, reload or superseded handshake leaves the flag behind
\* (store.ts:109-157).
FlagHasHandshake == reauthenticating => \E r \in Renewal : renewals[r] # {}

\* docs/authentication.md, "Session storage in the frontend": the store is the
\* single source of truth for the session, and "every request carries it
\* explicitly as `Authorization: Bearer <token>`".
RequestsCarryToken == store.token # 0 => client = store.token

\* docs/authentication.md:99-101: "Only `spnego` is renewed silently; a
\* password login still lands on the form."
PasswordLandsOnForm ==
  \A r \in Renewal : generation \in renewals[r] => origin # "password"
=============================================================================
