--------------------------- MODULE AuthSessionProofs ---------------------------
(***************************************************************************)
(* Proofs about AuthSession: one session everywhere, no data of another    *)
(* identity, and no renewal that undoes a logout.                          *)
(***************************************************************************)
EXTENDS AuthSession, TLAPS

-----------------------------------------------------------------------------
(* The invariant.                                                          *)

\* Every login, renewal and logout moves generation on, by one at the most.
GenerationBounded == generation <= acts + Len(owner)

OwnedBy(n, u) == n \in DOMAIN owner /\ owner[n] = u

\* The session is one that Zabbix handed out to the user it shows.
StoreIsOwned == store # None => OwnedBy(store.token, store.user)

\* Every request carries no token or one of the user who is signed in, and
\* only the latter is answered with data.
QueriesAreOwned ==
  \A q \in Query : \A x \in queries[q] :
    /\ x.token # 0 => OwnedBy(x.token, store.user)
    /\ x.at = "ok" => x.token # 0

\* A renewal captured the generation of its own time.
RenewalsArePast == \A r \in Renewal : \A g \in renewals[r] : g <= generation

\* After a logout nothing is left that could sign somebody in but an attempt
\* of the user's own.
LoggedOutIsClean ==
  signedOut => /\ store = None
               /\ origin = "nobody"
               /\ \A q \in Query : queries[q] = {}
               /\ \A r \in Renewal : generation \notin renewals[r]

AuthInv ==
  /\ TypeOK /\ OneSession
  /\ GenerationBounded /\ StoreIsOwned /\ QueriesAreOwned /\ CacheIsOwn
  /\ RenewalsArePast /\ LoggedOutIsClean

-----------------------------------------------------------------------------
(* Lemmas about the operators.                                             *)

\* Zabbix never gives a token to somebody else.
OwnersKept == \A n \in DOMAIN owner : n \in DOMAIN owner' /\ owner'[n] = owner[n]

\* A slot is empty or holds one element.
LEMMA Slots ==
  ASSUME NEW S
  PROVE  /\ {} \in AtMostOne(S)
         /\ \A x \in S : {x} \in AtMostOne(S)
         /\ \A T \in AtMostOne(S) : T = {} \/ \E x \in S : T = {x}
BY DEF AtMostOne

\* A new session has a new token, belongs to the one who signed in, and leaves
\* the older ones as they were.
LEMMA MintedIsOwned ==
  ASSUME TypeOK, AuthAssumption, NEW u \in User, Mint(u)
  PROVE  /\ owner' \in Seq(User)
         /\ Len(owner') = Len(owner) + 1 /\ Len(owner') <= MaxToken
         /\ OwnersKept
         /\ Minted(u).token \in DOMAIN owner' /\ owner'[Minted(u).token] = u
         /\ live' \subseteq DOMAIN owner'
         /\ Minted(u) \in Sessions /\ Minted(u) # None
         /\ Minted(u).token # 0 /\ Minted(u).user = u
<1>1. /\ owner \in Seq(User) /\ Len(owner) \in Nat /\ Len(owner) < MaxToken
      /\ owner' = Append(owner, u) /\ MaxToken \in Nat /\ Nobody \notin User
  BY DEF TypeOK, Mint, AuthAssumption
<1>2. /\ owner' \in Seq(User) /\ Len(owner') = Len(owner) + 1
      /\ DOMAIN owner = 1..Len(owner) /\ DOMAIN owner' = 1..(Len(owner) + 1)
      /\ \A n \in 1..Len(owner) : owner'[n] = owner[n]
      /\ owner'[Len(owner) + 1] = u
  BY <1>1
<1>3. live' \subseteq DOMAIN owner'
  BY <1>1, <1>2 DEF Mint, TypeOK
<1>4. Minted(u) \in Sessions /\ Minted(u) # None
  BY <1>1 DEF Minted, Sessions, Tokens, None
<1>5. QED
  BY <1>1, <1>2, <1>3, <1>4 DEF OwnersKept, Minted

\* Whatever the session becomes, Refresh leaves the queries and the cache to
\* its user alone.
LEMMA RefreshKeepsOwn ==
  ASSUME AuthInv, AuthAssumption,
         NEW s \in [token : Tokens, user : User \cup {Nobody}],
         NEW S \in SUBSET Query,
         Refresh(s, S),
         store'.user = s.user,
         OwnersKept,
         s.token # 0 => OwnedBy(s.token, s.user)'
  PROVE  /\ queries' \in [Query -> AtMostOne(Requests)]
         /\ cached' \subseteq User
         /\ CacheIsOwn' /\ QueriesAreOwned'
<1> DEFINE Asked == {[at |-> "sent", token |-> s.token, try |-> 1]}
<1>1. Asked \in AtMostOne(Requests) /\ {} \in AtMostOne(Requests)
  <2>1. [at |-> "sent", token |-> s.token, try |-> 1] \in Requests
    BY DEF Requests
  <2>2. QED
    BY <2>1, Slots
<1>2. /\ queries \in [Query -> AtMostOne(Requests)] /\ cached \subseteq User
      /\ cached \subseteq {store.user} /\ QueriesAreOwned
  BY DEF AuthInv, TypeOK, CacheIsOwn
<1>3. CASE s.user # store.user
  <2>1. queries' = [q \in Query |-> {}] /\ cached' = {}
    BY <1>3 DEF Refresh
  <2>2. QED
    BY <1>1, <2>1 DEF CacheIsOwn, QueriesAreOwned
<1>4. CASE s.user = store.user
  <2>1. /\ queries' = [q \in Query |-> IF q \in S THEN Asked ELSE queries[q]]
        /\ cached' = cached
    BY <1>4 DEF Refresh
  <2>2. queries' \in [Query -> AtMostOne(Requests)]
    BY <1>1, <1>2, <2>1
  <2>3. CacheIsOwn'
    BY <1>2, <1>4, <2>1 DEF CacheIsOwn
  <2>4. ASSUME NEW q \in Query, NEW x \in queries'[q]
        PROVE  /\ x.token # 0 => OwnedBy(x.token, store.user)'
               /\ x.at = "ok" => x.token # 0
    <3>1. CASE q \in S
      BY <2>1, <2>4, <3>1
    <3>2. CASE q \notin S
      <4>1. x \in queries[q]
        BY <2>1, <2>4, <3>2
      <4>2. /\ x.token # 0 => OwnedBy(x.token, store.user)
            /\ x.at = "ok" => x.token # 0
        BY <1>2, <4>1 DEF QueriesAreOwned
      <4>3. QED
        BY <4>2, <1>4 DEF OwnedBy, OwnersKept
    <3>3. QED
      BY <3>1, <3>2
  <2>5. QED
    BY <1>2, <2>1, <2>2, <2>3, <2>4 DEF QueriesAreOwned
<1>5. QED
  BY <1>3, <1>4

\* The attempts that outlive the login page are still attempts.
LEMMA UnmountedTypes ==
  ASSUME TypeOK, NEW but
  PROVE  Unmounted(but) \in [Attempt -> AtMostOne(Attempts)]
<1> SUFFICES ASSUME NEW a \in Attempt
             PROVE  Unmounted(but)[a] \in AtMostOne(Attempts)
  BY DEF Unmounted
<1> DEFINE Kept == {y \in attempts[a] : a # but /\ ~(y.kind = "auto" /\ y.here)}
<1>1. Unmounted(but)[a] = {[x EXCEPT !.here = FALSE] : x \in Kept}
  BY DEF Unmounted
<1>2. attempts[a] \in AtMostOne(Attempts)
  BY DEF TypeOK
<1>3. Kept = {} \/ \E x \in Attempts : Kept = {x}
  BY <1>2, Slots
<1>4. CASE Kept = {}
  <2>1. Unmounted(but)[a] = {}
    BY <1>1, <1>4
  <2>2. QED
    BY <2>1 DEF AtMostOne
<1>5. ASSUME NEW x \in Attempts, Kept = {x}
      PROVE  Unmounted(but)[a] \in AtMostOne(Attempts)
  <2>1. [x EXCEPT !.here = FALSE] \in Attempts
    BY DEF Attempts
  <2>2. Unmounted(but)[a] = {[x EXCEPT !.here = FALSE]}
    BY <1>1, <1>5
  <2>3. QED
    BY <2>1, <2>2 DEF AtMostOne
<1>6. QED
  BY <1>3, <1>4, <1>5

\* What counts is a natural number.
LEMMA Numbers ==
  ASSUME TypeOK, AuthAssumption
  PROVE  /\ generation \in Nat /\ acts \in Nat /\ acts <= MaxActs
         /\ MaxActs \in Nat /\ MaxToken \in Nat
         /\ Len(owner) \in Nat /\ Len(owner) <= MaxToken
         /\ Generations = 0..(MaxActs + MaxToken)
         /\ \A r \in Renewal : \A g \in renewals[r] : g \in Nat /\ g \in Generations
BY DEF TypeOK, AuthAssumption, Generations, AtMostOne

\* Wherever the session changes hands, all its copies do, and what belongs to
\* its user stays.
LEMMA SessionMoves ==
  ASSUME AuthInv, AuthAssumption,
         NEW s \in Sessions, NEW S \in SUBSET Query,
         SetSession(s), Refresh(s, S),
         OwnersKept,
         s # None => OwnedBy(s.token, s.user)'
  PROVE  /\ store' \in Sessions /\ saved' \in Sessions /\ client' \in Tokens
         /\ queries' \in [Query -> AtMostOne(Requests)] /\ cached' \subseteq User
         /\ OneSession' /\ StoreIsOwned' /\ QueriesAreOwned' /\ CacheIsOwn'
<1>1. /\ s \in [token : Tokens, user : User \cup {Nobody}]
      /\ s.token # 0 => s # None
  BY AuthAssumption DEF Sessions, None, Tokens
<1>2. store' = s /\ saved' = s /\ client' = s.token
  BY DEF SetSession
<1>3. /\ queries' \in [Query -> AtMostOne(Requests)] /\ cached' \subseteq User
      /\ CacheIsOwn' /\ QueriesAreOwned'
  BY <1>1, <1>2, RefreshKeepsOwn
<1>4. OneSession' /\ StoreIsOwned'
  BY <1>2 DEF OneSession, StoreIsOwned, OwnedBy
<1>5. QED
  BY <1>1, <1>2, <1>3, <1>4

\* Signing out needs no new session.
LEMMA ClearSessionMoves ==
  ASSUME AuthInv, AuthAssumption, ClearSession, UNCHANGED owner
  PROVE  /\ store' = None
         /\ store' \in Sessions /\ saved' \in Sessions /\ client' \in Tokens
         /\ queries' \in [Query -> AtMostOne(Requests)] /\ cached' \subseteq User
         /\ OneSession' /\ StoreIsOwned' /\ QueriesAreOwned' /\ CacheIsOwn'
<1>1. None \in Sessions /\ {} \in SUBSET Query
  BY DEF Sessions
<1>2. SetSession(None) /\ Refresh(None, {})
  BY DEF ClearSession
<1>3. OwnersKept
  BY DEF OwnersKept
<1>4. store' = None
  BY <1>2 DEF SetSession
<1>5. QED
  BY <1>1, <1>2, <1>3, <1>4, SessionMoves

\* A session just handed out may be adopted.
LEMMA MintedMoves ==
  ASSUME AuthInv, AuthAssumption, NEW u \in User, Mint(u),
         NEW S \in SUBSET Query,
         SetSession(Minted(u)), Refresh(Minted(u), S)
  PROVE  /\ store' \in Sessions /\ saved' \in Sessions /\ client' \in Tokens
         /\ queries' \in [Query -> AtMostOne(Requests)] /\ cached' \subseteq User
         /\ OneSession' /\ StoreIsOwned' /\ QueriesAreOwned' /\ CacheIsOwn'
         /\ owner' \in Seq(User) /\ Len(owner') <= MaxToken
         /\ Len(owner') = Len(owner) + 1 /\ live' \subseteq DOMAIN owner'
<1>1. TypeOK
  BY DEF AuthInv
<1>2. PICK s \in Sessions : s = Minted(u)
  BY <1>1, MintedIsOwned
<1>3. OwnersKept /\ (s # None => OwnedBy(s.token, s.user)')
  BY <1>1, <1>2, MintedIsOwned DEF OwnedBy
<1>4. SetSession(s) /\ Refresh(s, S)
  BY <1>2
<1>5. QED
  BY <1>1, <1>3, <1>4, MintedIsOwned, SessionMoves

-----------------------------------------------------------------------------
(* The steps.  The lemmas come in the order of AuthSession's actions.      *)

LEMMA LoginBeginStep ==
  ASSUME AuthInv, AuthAssumption, NEW a \in Attempt, NEW u \in User,
         LoginBegin(a, u)
  PROVE  AuthInv'
<1> USE DEF LoginBegin, Begin, server
<1>1. [kind |-> "password", user |-> u, here |-> TRUE] \in Attempts
  BY DEF Attempts
<1>2. attempts' \in [Attempt -> AtMostOne(Attempts)]
  BY <1>1, Slots DEF AuthInv, TypeOK
<1>3. TypeOK /\ GenerationBounded /\ RenewalsArePast
  BY DEF AuthInv
<1>4. GenerationBounded' /\ generation' \in Generations /\ acts' \in 0..MaxActs
  BY <1>3, Numbers DEF GenerationBounded
<1>5. TypeOK'
  BY <1>2, <1>3, <1>4 DEF TypeOK
<1>6. RenewalsArePast'
  BY <1>3, Numbers DEF RenewalsArePast
<1>7. QED
  BY <1>4, <1>5, <1>6
     DEF AuthInv, OneSession, StoreIsOwned, QueriesAreOwned, OwnedBy, CacheIsOwn,
         LoggedOutIsClean

LEMMA SsoBeginStep ==
  ASSUME AuthInv, AuthAssumption, NEW a \in Attempt, SsoBegin(a)
  PROVE  AuthInv'
<1>1. PICK k \in {"click", "auto"} : Begin(a, k, Principal)
  BY DEF SsoBegin
<1>2. [kind |-> k, user |-> Principal, here |-> TRUE] \in Attempts
  BY AuthAssumption DEF Attempts
<1>3. attempts' \in [Attempt -> AtMostOne(Attempts)]
  BY <1>1, <1>2, Slots DEF AuthInv, TypeOK, Begin
<1>4. TypeOK'
  BY <1>1, <1>3 DEF AuthInv, TypeOK, SsoBegin, Begin, server
<1>5. QED
  BY <1>1, <1>4
     DEF AuthInv, SsoBegin, Begin, server, OneSession, GenerationBounded,
         StoreIsOwned, QueriesAreOwned, OwnedBy, CacheIsOwn, RenewalsArePast,
         LoggedOutIsClean

LEMMA LoginOkStep ==
  ASSUME AuthInv, AuthAssumption, NEW a \in Attempt, LoginOk(a)
  PROVE  AuthInv'
<1>1. PICK x \in attempts[a] :
        Mint(x.user) /\ SetSession(Minted(x.user)) /\ Refresh(Minted(x.user), {})
  BY DEF LoginOk
<1>2. x.user \in User /\ {} \in SUBSET Query
  BY <1>1 DEF AuthInv, TypeOK, AtMostOne, Attempts
<1>3. /\ store' \in Sessions /\ saved' \in Sessions /\ client' \in Tokens
      /\ queries' \in [Query -> AtMostOne(Requests)] /\ cached' \subseteq User
      /\ OneSession' /\ StoreIsOwned' /\ QueriesAreOwned' /\ CacheIsOwn'
      /\ owner' \in Seq(User) /\ Len(owner') <= MaxToken
      /\ Len(owner') = Len(owner) + 1 /\ live' \subseteq DOMAIN owner'
  BY <1>1, <1>2, MintedMoves
<1>4. attempts' \in [Attempt -> AtMostOne(Attempts)]
  BY UnmountedTypes DEF LoginOk, AuthInv
<1>5. TypeOK'
  BY <1>3, <1>4 DEF LoginOk, AuthInv, TypeOK
<1>6. GenerationBounded'
  BY <1>3, Numbers DEF LoginOk, AuthInv, GenerationBounded
<1>7. RenewalsArePast' /\ LoggedOutIsClean'
  BY DEF LoginOk, AuthInv, RenewalsArePast, LoggedOutIsClean
<1>8. QED
  BY <1>3, <1>5, <1>6, <1>7 DEF AuthInv

LEMMA SsoOkStep ==
  ASSUME AuthInv, AuthAssumption, NEW a \in Attempt, SsoOk(a)
  PROVE  AuthInv'
<1>1. PICK x \in attempts[a] :
        /\ Mint(x.user) /\ LoginWithSso(Minted(x.user))
        /\ Refresh(Minted(x.user), {})
        /\ x.kind # "password" /\ origin' = x.kind
  BY DEF SsoOk
<1>2. /\ x.user \in User /\ origin' \in {"click", "auto"} /\ {} \in SUBSET Query
      /\ SetSession(Minted(x.user))
  BY <1>1 DEF AuthInv, TypeOK, AtMostOne, Attempts, LoginWithSso
<1>3. /\ store' \in Sessions /\ saved' \in Sessions /\ client' \in Tokens
      /\ queries' \in [Query -> AtMostOne(Requests)] /\ cached' \subseteq User
      /\ OneSession' /\ StoreIsOwned' /\ QueriesAreOwned' /\ CacheIsOwn'
      /\ owner' \in Seq(User) /\ Len(owner') <= MaxToken
      /\ Len(owner') = Len(owner) + 1 /\ live' \subseteq DOMAIN owner'
  BY <1>1, <1>2, MintedMoves
<1>4. attempts' \in [Attempt -> AtMostOne(Attempts)]
  BY UnmountedTypes DEF SsoOk, AuthInv
<1>5. /\ generation' = generation + 1 /\ method' = "spnego" /\ loggingIn' = FALSE
      /\ signedOut' = FALSE
      /\ UNCHANGED <<autoSso, reauthenticating, cooling, renewals, logouts, acts>>
  BY <1>1 DEF LoginWithSso, SsoOk
<1>6. GenerationBounded' /\ generation' \in Generations /\ RenewalsArePast'
  BY <1>3, <1>5, Numbers DEF AuthInv, GenerationBounded, RenewalsArePast
<1>7. TypeOK'
  BY <1>2, <1>3, <1>4, <1>5, <1>6 DEF AuthInv, TypeOK
<1>8. QED
  BY <1>3, <1>5, <1>6, <1>7 DEF AuthInv, LoggedOutIsClean

LEMMA AttemptFailsStep ==
  ASSUME AuthInv, AuthAssumption, NEW a \in Attempt, AttemptFails(a)
  PROVE  AuthInv'
<1>1. attempts' \in [Attempt -> AtMostOne(Attempts)]
  BY Slots DEF AuthInv, TypeOK, AttemptFails
<1>2. loggingIn' \in BOOLEAN
  BY DEF AuthInv, TypeOK, AttemptFails
<1>3. TypeOK'
  BY <1>1, <1>2 DEF AuthInv, TypeOK, AttemptFails, server
<1>4. QED
  BY <1>3
     DEF AuthInv, AttemptFails, server, OneSession, GenerationBounded,
         StoreIsOwned, QueriesAreOwned, OwnedBy, CacheIsOwn, RenewalsArePast,
         LoggedOutIsClean

LEMMA LogoutStep ==
  ASSUME AuthInv, AuthAssumption, Logout
  PROVE  AuthInv'
<1>1. TypeOK /\ GenerationBounded /\ RenewalsArePast
  BY DEF AuthInv
<1>2. /\ generation' = generation + 1 /\ acts' = acts + 1 /\ acts < MaxActs
      /\ ClearSession /\ store.token # 0 /\ signedOut' = TRUE
      /\ UNCHANGED <<loggingIn, cooling, attempts, renewals, owner, live>>
      /\ method' = "none" /\ autoSso' = FALSE /\ reauthenticating' = FALSE
  BY DEF Logout, server
<1>3. /\ store' = None
      /\ store' \in Sessions /\ saved' \in Sessions /\ client' \in Tokens
      /\ queries' \in [Query -> AtMostOne(Requests)] /\ cached' \subseteq User
      /\ OneSession' /\ StoreIsOwned' /\ QueriesAreOwned' /\ CacheIsOwn'
  BY <1>2, ClearSessionMoves
<1>4. GenerationBounded' /\ generation' \in Generations /\ acts' \in 0..MaxActs
  BY <1>1, <1>2, Numbers DEF GenerationBounded
<1>5. /\ RenewalsArePast'
      /\ \A r \in Renewal : generation' \notin renewals'[r]
  BY <1>1, <1>2, Numbers DEF RenewalsArePast
<1>6. origin' = "nobody" /\ \A q \in Query : queries'[q] = {}
  <2>1. store.user # Nobody
    BY <1>1, <1>2, AuthAssumption DEF TypeOK, Sessions, None
  <2>2. QED
    BY <1>2, <2>1 DEF ClearSession, Refresh, None
<1>7. logouts' \subseteq Tokens \ {0}
  BY <1>1 DEF TypeOK, Logout
<1>8. TypeOK'
  BY <1>1, <1>2, <1>3, <1>4, <1>6, <1>7 DEF TypeOK
<1>9. QED
  BY <1>3, <1>4, <1>5, <1>6, <1>8 DEF AuthInv, LoggedOutIsClean

LEMMA ServerStep ==
  ASSUME AuthInv, AuthAssumption, NEW n \in DOMAIN owner,
         LogoutAnswered(n) \/ Expire(n)
  PROVE  AuthInv'
<1>1. /\ client' \in {0, client} /\ live' \subseteq live /\ logouts' \subseteq logouts
      /\ UNCHANGED <<store, saved, flags, attempts, renewals, queries, cached,
                     owner, acts, signedOut, origin>>
  BY DEF LogoutAnswered, Expire
<1>2. client' \in Tokens
  BY <1>1, AuthAssumption DEF AuthInv, TypeOK, Tokens
<1>3. TypeOK'
  BY <1>1, <1>2 DEF AuthInv, TypeOK, flags
<1>4. QED
  BY <1>1, <1>3
     DEF AuthInv, flags, OneSession, GenerationBounded, StoreIsOwned,
         QueriesAreOwned, OwnedBy, CacheIsOwn, RenewalsArePast, LoggedOutIsClean

\* One query moves, nothing else does.
LEMMA OneQueryMoves ==
  ASSUME AuthInv, AuthAssumption, NEW q \in Query, NEW X \in AtMostOne(Requests),
         queries' = [queries EXCEPT ![q] = X],
         \A x \in X : /\ x.token # 0 => OwnedBy(x.token, store.user)
                      /\ x.at = "ok" => x.token # 0,
         signedOut => X = {},
         UNCHANGED <<store, client, saved, flags, attempts, renewals, logouts,
                     server, acts, signedOut, origin>>,
         cached' \subseteq User /\ cached' \subseteq {store.user}
  PROVE  AuthInv'
<1>1. queries' \in [Query -> AtMostOne(Requests)]
  BY DEF AuthInv, TypeOK
<1>2. TypeOK'
  BY <1>1 DEF AuthInv, TypeOK, flags, server
<1>3. QueriesAreOwned'
  <2>1. ASSUME NEW p \in Query, NEW x \in queries'[p]
        PROVE  /\ x.token # 0 => OwnedBy(x.token, store.user)
               /\ x.at = "ok" => x.token # 0
    BY <2>1 DEF AuthInv, TypeOK, QueriesAreOwned
  <2>2. QED
    BY <2>1 DEF QueriesAreOwned, OwnedBy, server
<1>4. LoggedOutIsClean'
  BY DEF AuthInv, TypeOK, LoggedOutIsClean, flags
<1>5. QED
  BY <1>2, <1>3, <1>4
     DEF AuthInv, flags, server, OneSession, GenerationBounded, StoreIsOwned,
         OwnedBy, CacheIsOwn, RenewalsArePast

LEMMA AskStep ==
  ASSUME AuthInv, AuthAssumption, NEW q \in Query, Fetch(q) \/ Retry(q)
  PROVE  AuthInv'
<1>1. PICK try \in 1..2 : Ask(q, try)
  BY DEF Fetch, Retry
<1> DEFINE Sent == [at |-> "sent", token |-> client, try |-> try]
<1>2. Sent \in Requests
  BY DEF Requests, AuthInv, TypeOK
<1>3. {Sent} \in AtMostOne(Requests)
  BY <1>2 DEF AtMostOne
<1>4. client # 0 => OwnedBy(client, store.user)
  BY DEF AuthInv, OneSession, StoreIsOwned, None
<1>5. ~signedOut
  BY DEF AuthInv, LoggedOutIsClean, None, Fetch, Retry
<1>6. /\ queries' = [queries EXCEPT ![q] = {Sent}]
      /\ UNCHANGED <<store, client, saved, flags, attempts, renewals, logouts,
                     cached, server, acts, signedOut, origin>>
  BY <1>1 DEF Ask, Fetch, Retry
<1>7. cached' \subseteq User /\ cached' \subseteq {store.user}
  BY <1>6 DEF AuthInv, TypeOK, CacheIsOwn
<1>8. \A x \in {Sent} : /\ x.token # 0 => OwnedBy(x.token, store.user)
                        /\ x.at = "ok" => x.token # 0
  BY <1>4
<1> HIDE DEF Sent
<1>9. QED
  BY <1>3, <1>5, <1>6, <1>7, <1>8, OneQueryMoves

LEMMA ServeStep ==
  ASSUME AuthInv, AuthAssumption, NEW q \in Query, Serve(q) \/ QueryDenied(q)
  PROVE  AuthInv'
<1>1. PICK x \in queries[q], at \in {"ok", "denied", "backoff"} :
        /\ queries' = [queries EXCEPT ![q] = {[x EXCEPT !.at = at]}]
        /\ at = "ok" => x.token \in live
  BY DEF Serve, QueryDenied
<1> DEFINE y == [x EXCEPT !.at = at]
<1>2. x \in Requests
  BY DEF AuthInv, TypeOK, AtMostOne
<1>3. y \in Requests /\ y.token = x.token /\ y.at = at
  BY <1>2 DEF Requests
<1>4. {y} \in AtMostOne(Requests)
  BY <1>3 DEF AtMostOne
<1>5. x.token # 0 => OwnedBy(x.token, store.user)
  BY DEF AuthInv, QueriesAreOwned
<1>6. y.at = "ok" => y.token # 0
  BY <1>1, <1>3 DEF AuthInv, TypeOK
<1>7. ~signedOut
  BY DEF AuthInv, LoggedOutIsClean
<1>8. UNCHANGED <<store, client, saved, flags, attempts, renewals, logouts,
                  cached, server, acts, signedOut, origin>>
  BY DEF Serve, QueryDenied
<1>9. queries' = [queries EXCEPT ![q] = {y}]
  BY <1>1
<1>10. cached' \subseteq User /\ cached' \subseteq {store.user}
  BY <1>8 DEF AuthInv, TypeOK, CacheIsOwn
<1>11. \A z \in {y} : /\ z.token # 0 => OwnedBy(z.token, store.user)
                      /\ z.at = "ok" => z.token # 0
  BY <1>3, <1>5, <1>6
<1> HIDE DEF y
<1>12. QED
  BY <1>4, <1>7, <1>8, <1>9, <1>10, <1>11, OneQueryMoves

LEMMA QuerySucceedsStep ==
  ASSUME AuthInv, AuthAssumption, NEW q \in Query, QuerySucceeds(q)
  PROVE  AuthInv'
<1>1. PICK x \in queries[q] : x.at = "ok" /\ cached' = cached \cup {owner[x.token]}
  BY DEF QuerySucceeds
<1>2. OwnedBy(x.token, store.user)
  BY <1>1 DEF AuthInv, QueriesAreOwned
<1>3. owner[x.token] = store.user /\ owner[x.token] \in User
  BY <1>2 DEF OwnedBy, AuthInv, TypeOK
<1>4. {} \in AtMostOne(Requests)
  BY DEF AtMostOne
<1>5. cached' \subseteq User /\ cached' \subseteq {store.user}
  BY <1>1, <1>3 DEF AuthInv, TypeOK, CacheIsOwn
<1>6. /\ queries' = [queries EXCEPT ![q] = {}]
      /\ UNCHANGED <<store, client, saved, flags, attempts, renewals, logouts,
                     server, acts, signedOut, origin>>
  BY DEF QuerySucceeds
<1>7. QED
  BY <1>4, <1>5, <1>6, OneQueryMoves

\* Ending the session here, as a rejected renewal or an expiry does.
LEMMA SessionEnds ==
  ASSUME AuthInv, AuthAssumption, ClearSession,
         renewals' \in [Renewal -> AtMostOne(Generations)],
         \A r \in Renewal : renewals'[r] \subseteq renewals[r],
         reauthenticating' \in BOOLEAN,
         UNCHANGED <<method, autoSso, loggingIn, cooling, generation, attempts,
                     logouts, server, acts, signedOut>>,
         ~signedOut
  PROVE  AuthInv'
<1>1. /\ store' \in Sessions /\ saved' \in Sessions /\ client' \in Tokens
      /\ queries' \in [Query -> AtMostOne(Requests)] /\ cached' \subseteq User
      /\ OneSession' /\ StoreIsOwned' /\ QueriesAreOwned' /\ CacheIsOwn'
  BY ClearSessionMoves DEF server
<1>2. origin' = "nobody"
  BY DEF ClearSession
<1>3. TypeOK'
  BY <1>1, <1>2 DEF AuthInv, TypeOK, server
<1>4. QED
  BY <1>1, <1>3
     DEF AuthInv, server, GenerationBounded, RenewalsArePast, LoggedOutIsClean

LEMMA SessionExpiredStep ==
  ASSUME AuthInv, AuthAssumption, NEW q \in Query, SessionExpired(q)
  PROVE  AuthInv'
<1>1. ~signedOut /\ {} \in AtMostOne(Requests)
  BY Slots DEF SessionExpired, AuthInv, LoggedOutIsClean
<1>2. UNCHANGED <<attempts, logouts, server, acts, signedOut>>
  BY DEF SessionExpired
<1>3. CASE /\ queries' = [queries EXCEPT ![q] = {}]
           /\ UNCHANGED <<store, client, saved, flags, renewals, cached, origin>>
  <2>1. cached' \subseteq User /\ cached' \subseteq {store.user}
    BY <1>3 DEF AuthInv, TypeOK, CacheIsOwn
  <2>2. QED
    BY <1>1, <1>2, <1>3, <2>1, OneQueryMoves
<1>4. ASSUME NEW r \in Renewal,
             renewals' = [renewals EXCEPT ![r] = {generation}],
             cooling' = TRUE, reauthenticating' = TRUE, autoSso' = FALSE,
             queries' = [queries EXCEPT ![q] = {}],
             UNCHANGED <<store, client, saved, method, loggingIn, generation,
                         cached, origin>>
      PROVE  AuthInv'
  <2>1. renewals' \in [Renewal -> AtMostOne(Generations)]
    BY <1>4, Slots DEF AuthInv, TypeOK
  <2>2. queries' \in [Query -> AtMostOne(Requests)]
    BY <1>1, <1>4 DEF AuthInv, TypeOK
  <2>3. TypeOK'
    BY <1>2, <1>4, <2>1, <2>2 DEF AuthInv, TypeOK, server
  <2>4. \A g \in renewals'[r] : g <= generation'
    BY <1>4, Numbers DEF AuthInv, TypeOK
  <2>5. RenewalsArePast'
    BY <1>4, <2>4 DEF AuthInv, TypeOK, RenewalsArePast
  <2>6. QueriesAreOwned'
    <3>1. \A p \in Query : queries'[p] \subseteq queries[p]
      BY <1>4 DEF AuthInv, TypeOK
    <3>2. QED
      BY <1>2, <1>4, <3>1 DEF AuthInv, QueriesAreOwned, OwnedBy, server
  <2>7. QED
    BY <1>1, <1>2, <1>4, <2>3, <2>5, <2>6
       DEF AuthInv, server, OneSession, GenerationBounded, StoreIsOwned, OwnedBy,
           CacheIsOwn, LoggedOutIsClean
<1>5. CASE ClearSession /\ UNCHANGED <<flags, renewals>>
  BY <1>1, <1>2, <1>5, SessionEnds DEF flags, AuthInv, TypeOK
<1>6. QED
  BY <1>3, <1>4, <1>5 DEF SessionExpired

LEMMA RenewalSupersededStep ==
  ASSUME AuthInv, AuthAssumption, NEW r \in Renewal, RenewalSuperseded(r)
  PROVE  AuthInv'
<1> DEFINE s == [store EXCEPT !.token = client]
<1>1. PICK S \in SUBSET Query :
        (S # {} => reauthenticating /\ store.token # 0) /\ Refresh(s, S)
  BY DEF RenewalSuperseded
<1>2. /\ renewals' = [renewals EXCEPT ![r] = {}] /\ reauthenticating' = FALSE
      /\ UNCHANGED <<store, client, saved, method, autoSso, loggingIn, cooling,
                     generation, attempts, logouts, live, owner, acts,
                     signedOut, origin>>
  BY DEF RenewalSuperseded, server
<1>3. /\ s \in [token : Tokens, user : User \cup {Nobody}]
      /\ s.user = store.user /\ s.token = client
  BY AuthAssumption DEF AuthInv, TypeOK, Sessions, None, Tokens
<1>4. client # 0 => OwnedBy(client, store.user)
  BY DEF AuthInv, OneSession, StoreIsOwned, None
<1>5. /\ queries' \in [Query -> AtMostOne(Requests)] /\ cached' \subseteq User
      /\ CacheIsOwn' /\ QueriesAreOwned'
  <2>1. PICK t \in [token : Tokens, user : User \cup {Nobody}] :
          t = s /\ t.token = client /\ t.user = store.user
    BY <1>3
  <2>2. Refresh(t, S)
    BY <1>1, <2>1
  <2>3. OwnersKept /\ store'.user = t.user
    BY <1>2, <2>1 DEF OwnersKept
  <2>4. t.token # 0 => OwnedBy(t.token, t.user)'
    BY <1>2, <1>4, <2>1 DEF OwnedBy
  <2>5. QED
    BY <2>2, <2>3, <2>4, RefreshKeepsOwn
<1>6. /\ renewals' \in [Renewal -> AtMostOne(Generations)]
      /\ \A p \in Renewal : renewals'[p] \subseteq renewals[p]
  BY <1>2, Slots DEF AuthInv, TypeOK
<1>7. TypeOK'
  BY <1>2, <1>5, <1>6 DEF AuthInv, TypeOK
<1>8. signedOut => \A q \in Query : queries'[q] = {}
  <2>1. SUFFICES ASSUME signedOut PROVE \A q \in Query : queries'[q] = {}
    OBVIOUS
  <2>2. S = {} /\ \A q \in Query : queries[q] = {}
    BY <1>1, <2>1 DEF AuthInv, LoggedOutIsClean, None
  <2>3. QED
    BY <1>1, <2>2 DEF Refresh
<1>9. QED
  BY <1>2, <1>5, <1>6, <1>7, <1>8
     DEF AuthInv, OneSession, GenerationBounded, StoreIsOwned, OwnedBy,
         RenewalsArePast, LoggedOutIsClean

LEMMA RenewalOkStep ==
  ASSUME AuthInv, AuthAssumption, NEW r \in Renewal, RenewalOk(r)
  PROVE  AuthInv'
<1>1. PICK S \in SUBSET Query : Refresh(Minted(Principal), S)
  BY DEF RenewalOk
<1>2. /\ Principal \in User /\ Mint(Principal)
      /\ SetSession(Minted(Principal))
      /\ generation' = generation + 1 /\ method' = "spnego" /\ loggingIn' = FALSE
      /\ renewals' = [renewals EXCEPT ![r] = {}] /\ reauthenticating' = FALSE
      /\ origin' = "renewal"
      /\ UNCHANGED <<autoSso, cooling, logouts, acts, signedOut>>
  BY AuthAssumption DEF RenewalOk, LoginWithSso
<1>3. ~signedOut
  BY DEF RenewalOk, AuthInv, LoggedOutIsClean
<1>4. /\ store' \in Sessions /\ saved' \in Sessions /\ client' \in Tokens
      /\ queries' \in [Query -> AtMostOne(Requests)] /\ cached' \subseteq User
      /\ OneSession' /\ StoreIsOwned' /\ QueriesAreOwned' /\ CacheIsOwn'
      /\ owner' \in Seq(User) /\ Len(owner') <= MaxToken
      /\ Len(owner') = Len(owner) + 1 /\ live' \subseteq DOMAIN owner'
  BY <1>1, <1>2, MintedMoves
<1>5. attempts' \in [Attempt -> AtMostOne(Attempts)]
  BY UnmountedTypes DEF RenewalOk, AuthInv
<1>6. /\ renewals' \in [Renewal -> AtMostOne(Generations)]
      /\ \A p \in Renewal : renewals'[p] \subseteq renewals[p]
  BY <1>2, Slots DEF AuthInv, TypeOK
<1>7. GenerationBounded' /\ generation' \in Generations /\ RenewalsArePast'
  BY <1>2, <1>4, <1>6, Numbers DEF AuthInv, GenerationBounded, RenewalsArePast
<1>8. TypeOK'
  BY <1>2, <1>4, <1>5, <1>6, <1>7 DEF AuthInv, TypeOK
<1>9. QED
  BY <1>2, <1>3, <1>4, <1>7, <1>8 DEF AuthInv, LoggedOutIsClean

LEMMA RenewalFailsStep ==
  ASSUME AuthInv, AuthAssumption, NEW r \in Renewal, RenewalFails(r)
  PROVE  AuthInv'
<1>1. ~signedOut
  BY DEF RenewalFails, AuthInv, LoggedOutIsClean
<1>2. /\ renewals' \in [Renewal -> AtMostOne(Generations)]
      /\ \A p \in Renewal : renewals'[p] \subseteq renewals[p]
  BY Slots DEF RenewalFails, AuthInv, TypeOK
<1>3. QED
  BY <1>1, <1>2, SessionEnds DEF RenewalFails

LEMMA WorldStep ==
  ASSUME AuthInv, AuthAssumption,
         CoolDown \/ \E m \in {"none", "password", "spnego"} : OtherTab(m)
  PROVE  AuthInv'
<1>1. /\ cooling' \in BOOLEAN /\ method' \in {"none", "password", "spnego"}
      /\ UNCHANGED <<store, client, saved, autoSso, loggingIn,
                     reauthenticating, generation, attempts, renewals, logouts,
                     queries, cached, live, owner, acts, signedOut, origin>>
  BY DEF CoolDown, OtherTab, server, AuthInv, TypeOK
<1>2. TypeOK'
  BY <1>1 DEF AuthInv, TypeOK
<1>3. QED
  BY <1>1, <1>2
     DEF AuthInv, OneSession, GenerationBounded, StoreIsOwned, QueriesAreOwned,
         OwnedBy, CacheIsOwn, RenewalsArePast, LoggedOutIsClean

LEMMA ReloadStep ==
  ASSUME AuthInv, AuthAssumption, Reload
  PROVE  AuthInv'
<1>1. /\ store' = store /\ saved' = store /\ client' = store.token
      /\ generation' = 0 /\ loggingIn' = FALSE
      /\ reauthenticating' = FALSE /\ cooling' = FALSE
      /\ attempts' = [a \in Attempt |-> {}]
      /\ renewals' = [x \in Renewal |-> {}]
      /\ queries' = [q \in Query |-> {}]
      /\ logouts' = {} /\ cached' = {} /\ live' \subseteq live
      /\ UNCHANGED <<method, autoSso, owner, acts, signedOut, origin>>
  BY DEF Reload, AuthInv, OneSession
<1>2. /\ 0 \in Generations /\ client' \in Tokens /\ GenerationBounded'
      /\ {} \in AtMostOne(Attempts) /\ {} \in AtMostOne(Requests)
      /\ {} \in AtMostOne(Generations)
  <2>1. 0 \in Generations /\ GenerationBounded'
    BY <1>1, Numbers DEF AuthInv, GenerationBounded
  <2>2. client' \in Tokens
    BY <1>1, AuthAssumption DEF AuthInv, TypeOK, Sessions, None, Tokens
  <2>3. QED
    BY <2>1, <2>2, Slots
<1>3. TypeOK'
  BY <1>1, <1>2 DEF AuthInv, TypeOK
<1>4. QED
  BY <1>1, <1>2, <1>3
     DEF AuthInv, OneSession, StoreIsOwned, QueriesAreOwned, OwnedBy, CacheIsOwn,
         RenewalsArePast, LoggedOutIsClean

-----------------------------------------------------------------------------
(* The theorems.                                                           *)

\* AuthInv holds whatever settles in which order.
THEOREM SessionInvariant == Spec => []AuthInv
<1>1. Init => AuthInv
  <2> SUFFICES ASSUME Init PROVE AuthInv
    OBVIOUS
  <2>1. /\ 0 \in Generations /\ 0 \in Tokens /\ None \in Sessions
        /\ {} \in AtMostOne(Attempts) /\ {} \in AtMostOne(Requests)
        /\ {} \in AtMostOne(Generations)
    BY AuthAssumption, Slots DEF Generations, Tokens, Sessions
  <2>2. owner = <<>> /\ owner \in Seq(User) /\ Len(owner) = 0
    BY DEF Init
  <2>3. TypeOK
    <3>1. /\ attempts \in [Attempt -> AtMostOne(Attempts)]
          /\ renewals \in [Renewal -> AtMostOne(Generations)]
          /\ queries \in [Query -> AtMostOne(Requests)]
      BY <2>1 DEF Init
    <3>2. /\ Len(owner) <= MaxToken /\ live \subseteq DOMAIN owner
          /\ acts \in 0..MaxActs /\ logouts \subseteq Tokens \ {0}
          /\ cached \subseteq User
      BY <2>2, AuthAssumption DEF Init
    <3>3. QED
      BY <2>1, <2>2, <3>1, <3>2 DEF Init, TypeOK
  <2>4. GenerationBounded
    BY <2>2 DEF Init, GenerationBounded
  <2>5. QED
    BY <2>3, <2>4
       DEF Init, AuthInv, OneSession, StoreIsOwned, QueriesAreOwned, CacheIsOwn,
           RenewalsArePast, LoggedOutIsClean, None
<1>2. AuthInv /\ [Next]_vars => AuthInv'
  <2> SUFFICES ASSUME AuthInv, [Next]_vars PROVE AuthInv'
    OBVIOUS
  <2> USE AuthAssumption
  <2>1. CASE UNCHANGED vars
    BY <2>1
       DEF vars, flags, server, AuthInv, TypeOK, OneSession, GenerationBounded,
           StoreIsOwned, QueriesAreOwned, OwnedBy, CacheIsOwn, RenewalsArePast,
           LoggedOutIsClean
  <2>2. ASSUME NEW a \in Attempt,
               \/ \E u \in User : LoginBegin(a, u)
               \/ SsoBegin(a) \/ LoginOk(a) \/ SsoOk(a) \/ AttemptFails(a)
        PROVE  AuthInv'
    BY <2>2, LoginBeginStep, SsoBeginStep, LoginOkStep, SsoOkStep, AttemptFailsStep
  <2>3. CASE Logout
    BY <2>3, LogoutStep
  <2>4. ASSUME NEW n \in DOMAIN owner, LogoutAnswered(n) \/ Expire(n)
        PROVE  AuthInv'
    BY <2>4, ServerStep
  <2>5. ASSUME NEW q \in Query,
               \/ Fetch(q) \/ Retry(q) \/ Serve(q)
               \/ QuerySucceeds(q) \/ QueryDenied(q) \/ SessionExpired(q)
        PROVE  AuthInv'
    BY <2>5, AskStep, ServeStep, QuerySucceedsStep, SessionExpiredStep
  <2>6. ASSUME NEW r \in Renewal, RenewalEnds(r) PROVE AuthInv'
    BY <2>6, RenewalSupersededStep, RenewalOkStep, RenewalFailsStep DEF RenewalEnds
  <2>7. CASE CoolDown \/ \E m \in {"none", "password", "spnego"} : OtherTab(m)
    BY <2>7, WorldStep
  <2>8. CASE Reload
    BY <2>8, ReloadStep
  <2>9. QED
    BY <2>1, <2>2, <2>3, <2>4, <2>5, <2>6, <2>7, <2>8 DEF Next
<1>3. QED
  BY <1>1, <1>2, PTL DEF Spec

\* The store, the promises and the caches hold what the code puts there.
THEOREM SessionTypeCorrect == Spec => []TypeOK
<1>1. AuthInv => TypeOK
  BY DEF AuthInv
<1>2. QED
  BY <1>1, SessionInvariant, PTL

\* The store, sessionStorage and the client agree on the session, but for a
\* client that a late user.logout has left without one.
THEOREM SessionIsOne == Spec => []OneSession
<1>1. AuthInv => OneSession
  BY DEF AuthInv
<1>2. QED
  BY <1>1, SessionInvariant, PTL

\* No one is shown what the cache holds of somebody else.
THEOREM CacheStaysOwn == Spec => []CacheIsOwn
<1>1. AuthInv => CacheIsOwn
  BY DEF AuthInv
<1>2. QED
  BY <1>1, SessionInvariant, PTL

\* However late a handshake ends, it does not sign in who has logged out.
THEOREM LogoutStands == Spec => []RenewalNeverUndoesLogout
<1>1. AuthInv => RenewalNeverUndoesLogout
  BY DEF AuthInv, LoggedOutIsClean, RenewalNeverUndoesLogout
<1>2. QED
  BY <1>1, SessionInvariant, PTL

\* The flag of a silent renewal is never left set without a handshake that will end.
THEOREM FlagIsNeverLeft == Spec => []FlagHasHandshake
<1>1. Init => FlagHasHandshake
  BY DEF Init, FlagHasHandshake
<1>2. AuthInv /\ FlagHasHandshake /\ [Next]_vars => FlagHasHandshake'
  <2> SUFFICES ASSUME AuthInv, FlagHasHandshake, [Next]_vars PROVE FlagHasHandshake'
    OBVIOUS
  <2>1. ASSUME UNCHANGED <<reauthenticating, renewals>> PROVE FlagHasHandshake'
    BY <2>1 DEF FlagHasHandshake
  <2>2. ASSUME reauthenticating' = FALSE PROVE FlagHasHandshake'
    BY <2>2 DEF FlagHasHandshake
  <2>3. ASSUME NEW q \in Query, SessionExpired(q) PROVE FlagHasHandshake'
    <3>1. ASSUME NEW r \in Renewal, renewals' = [renewals EXCEPT ![r] = {generation}]
          PROVE  FlagHasHandshake'
      <4>1. renewals'[r] = {generation}
        BY <3>1 DEF AuthInv, TypeOK
      <4>2. QED
        BY <4>1 DEF FlagHasHandshake
    <3>2. QED
      BY <2>1, <2>3, <3>1 DEF SessionExpired, flags
  <2>4. ASSUME NEW a \in Attempt,
               \/ \E u \in User : LoginBegin(a, u)
               \/ SsoBegin(a) \/ LoginOk(a) \/ SsoOk(a) \/ AttemptFails(a)
        PROVE  UNCHANGED <<reauthenticating, renewals>>
    BY <2>4 DEF LoginBegin, SsoBegin, Begin, LoginOk, SsoOk, AttemptFails
  <2>5. ASSUME NEW q \in Query,
               Fetch(q) \/ Retry(q) \/ Serve(q) \/ QuerySucceeds(q) \/ QueryDenied(q)
        PROVE  UNCHANGED <<reauthenticating, renewals>>
    BY <2>5 DEF Fetch, Retry, Serve, QuerySucceeds, QueryDenied, flags
  <2>6. ASSUME NEW n \in DOMAIN owner, LogoutAnswered(n) \/ Expire(n)
        PROVE  UNCHANGED <<reauthenticating, renewals>>
    BY <2>6 DEF LogoutAnswered, Expire, flags
  <2>7. CASE CoolDown \/ \E m \in {"none", "password", "spnego"} : OtherTab(m)
    BY <2>1, <2>7 DEF CoolDown, OtherTab
  <2>8. CASE Logout \/ Reload \/ \E r \in Renewal : RenewalEnds(r)
    BY <2>2, <2>8 DEF Logout, Reload, RenewalEnds, RenewalSuperseded, RenewalOk, RenewalFails
  <2>9. CASE UNCHANGED vars
    BY <2>1, <2>9 DEF vars, flags
  <2>10. QED
    BY <2>1, <2>3, <2>4, <2>5, <2>6, <2>7, <2>8, <2>9 DEF Next
<1>3. QED
  BY <1>1, <1>2, SessionInvariant, PTL DEF Spec
=============================================================================
