------------------------ MODULE ZabbixAccessProofs --------------------------
(***************************************************************************)
(* For every number of requests, every TTL and every timeout: nothing the  *)
(* gateway remembers, and no answer on its way, lets a route do its work   *)
(* on a session or a right that ended too long ago.                        *)
(***************************************************************************)
EXTENDS ZabbixAccess, TLAPS

\* What an answer to lookup l vouches for.
Vouched(l) == {"session"} \cup (IF l \in Right THEN {l} ELSE {})

Routes == {"read", "write", "owner", "series", "host"}

Requests ==
  [at : {"idle", "refused"}] \cup [at : {"served"}, route : Route]
    \cup [at : {"call"}, route : Route, step : {1, 2}, try : {1, 2, 3}, age : Nat,
          said : {"nothing", "yes", "less", "no"}]

Facts ==
  /\ holds \subseteq Fact
  /\ since \in [Fact -> Nat]
  /\ \A f \in holds : since[f] = 0

\* A kept answer is no older than its age and the call that brought it.
CacheDated ==
  /\ cache \in [Lookup -> [yes : BOOLEAN, age : Nat]]
  /\ \A l \in Lookup : cache[l].yes /\ Kept(cache, l) =>
       \A f \in Vouched(l) : since[f] <= cache[l].age + Timeout

\* A call is at least as old as the word it brings.
Dated(q) ==
  q.at = "call" =>
    /\ q.step \in DOMAIN Needs[q.route]
    /\ q.age <= Timeout
    /\ q.said = "yes" => \A f \in Vouched(Needs[q.route][q.step]) : since[f] <= q.age

CallsDated == req \in [Request -> Requests] /\ \A r \in Request : Dated(req[r])

AccessInv == Facts /\ CacheDated /\ CallsDated

-----------------------------------------------------------------------------
(* The routes and their lookups.                                           *)

LEMMA Lookups ==
  ASSUME AccessAssumption, NEW k \in Route
  PROVE  /\ DOMAIN Needs[k] \subseteq {1, 2} /\ 1 \in DOMAIN Needs[k]
         /\ \A i \in DOMAIN Needs[k] : Needs[k][i] \in Lookup
         /\ Len(Needs[k]) \in DOMAIN Needs[k]
         /\ \A i \in {1, 2} : i \in DOMAIN Needs[k] <=> i <= Len(Needs[k])
         /\ \A i \in DOMAIN Needs[k] : i < Len(Needs[k]) => Needs[k][i] = "session"
  <1>0. ASSUME NEW i \in DOMAIN Needs[k]
        PROVE  Needs[k][i] \in Lookup
    <2> DEFINE S == {Needs[k][j] : j \in DOMAIN Needs[k]}
    <2>1. Needs[k][i] \in S OBVIOUS
    <2>2. S \in {{Needs[q][j] : j \in DOMAIN Needs[q]} : q \in Route} OBVIOUS
    <2> HIDE DEF S
    <2> QED BY <2>1, <2>2 DEF Lookup
  <1>1. k \in Routes BY DEF AccessAssumption, Needs, Routes
  <1>2. CASE k = "read"
    <2>1. Needs[k] = <<"session">> BY <1>2 DEF Needs
    <2> QED BY <1>0, <2>1
  <1>3. CASE k = "write"
    <2>1. Needs[k] = <<"session", "role">> BY <1>3 DEF Needs
    <2> QED BY <1>0, <2>1
  <1>4. CASE k = "owner"
    <2>1. Needs[k] = <<"name">> BY <1>4 DEF Needs
    <2> QED BY <1>0, <2>1
  <1>5. CASE k = "series"
    <2>1. Needs[k] = <<"item">> BY <1>5 DEF Needs
    <2> QED BY <1>0, <2>1
  <1>6. CASE k = "host"
    <2>1. Needs[k] = <<"host">> BY <1>6 DEF Needs
    <2> QED BY <1>0, <2>1
  <1> QED BY <1>1, <1>2, <1>3, <1>4, <1>5, <1>6 DEF Routes

\* No answer is kept longer than the longest TTL.
LEMMA TtlsAre ==
  ASSUME AccessAssumption
  PROVE  /\ Longest \in Nat /\ Forever \in Nat
         /\ \A l : TtlOf(l) \in Nat /\ TtlOf(l) <= Longest
  BY DEF AccessAssumption, TtlOf, Longest, Forever

LEMMA VouchedFacts ==
  ASSUME NEW l
  PROVE  Vouched(l) \subseteq Fact /\ "session" \in Vouched(l)
         /\ (l \in Right => l \in Vouched(l))
  BY DEF Vouched, Fact

\* Wherever From leads, it keeps the shape of the request ...
LEMMA FromShape ==
  ASSUME AccessAssumption, NEW k \in Route, NEW i \in DOMAIN Needs[k], NEW known
  PROVE  From(k, i, known) \in Requests /\ Dated(From(k, i, known))
  <1>0. Timeout \in Nat BY DEF AccessAssumption
  <1>1. /\ i \in {1, 2} /\ i \in DOMAIN Needs[k]
        /\ i < Len(Needs[k]) => i + 1 \in {1, 2} /\ i + 1 \in DOMAIN Needs[k]
        BY Lookups
  <1>2. ASSUME NEW j \in {1, 2}, j \in DOMAIN Needs[k]
        PROVE  Ask(k, j) \in Requests /\ Dated(Ask(k, j))
        BY <1>0, <1>2 DEF Ask, Requests, Dated
  <1>3. CASE From(k, i, known) = Ask(k, i) BY <1>1, <1>2, <1>3
  <1>4. CASE i < Len(Needs[k]) /\ From(k, i, known) = Ask(k, i + 1) BY <1>1, <1>2, <1>4
  <1>5. CASE From(k, i, known) = [at |-> "refused"] BY <1>5 DEF Requests, Dated
  <1>6. CASE From(k, i, known) = [at |-> "served", route |-> k] BY <1>6 DEF Requests, Dated
  <1> QED BY <1>3, <1>4, <1>5, <1>6 DEF From

\* ... and it serves a route only from what is known and said yes.
LEMMA FromServes ==
  ASSUME AccessAssumption, NEW k \in Route, NEW i \in DOMAIN Needs[k], NEW known,
         From(k, i, known).at = "served"
  PROVE  /\ From(k, i, known).route = k
         /\ LET l == Needs[k][Len(Needs[k])] IN Kept(known, l) /\ known[l].yes
  <1> DEFINE n == Len(Needs[k])
  <1>1. i \in {1, 2} /\ n \in {1, 2} /\ i <= n
        BY Lookups
  <1> HIDE DEF n
  <1>2. Ask(k, i).at = "call" /\ Ask(k, i + 1).at = "call" BY DEF Ask
  <1>3. CASE i < n
    <2>1. i + 1 = n BY <1>1, <1>3
    <2> QED BY <1>2, <1>3, <2>1 DEF From, n
  <1>4. CASE i = n
    <2>1. ~(i < n) BY <1>1, <1>4
    <2> QED BY <1>2, <1>4, <2>1 DEF From, n
  <1> QED BY <1>1, <1>3, <1>4

LEMMA ServedIsRecent ==
  ASSUME AccessAssumption, Facts, NEW k \in Route, NEW known,
         Kept(known, Needs[k][Len(Needs[k])]), known[Needs[k][Len(Needs[k])]].age \in Nat,
         \A f \in Vouched(Needs[k][Len(Needs[k])]) :
            since[f] <= known[Needs[k][Len(Needs[k])]].age + Timeout
  PROVE  RecentFor(k)
  <1> DEFINE last == Needs[k][Len(Needs[k])]
  <1>1. TtlOf(last) \in Nat /\ Timeout \in Nat BY TtlsAre DEF AccessAssumption
  <1>2. known[last].age <= TtlOf(last) BY DEF Kept
  <1>3. \A f \in Vouched(last) : since[f] \in Nat
        BY VouchedFacts DEF Facts
  <1>4. \A f \in Vouched(last) : since[f] <= TtlOf(last) + Timeout
        BY <1>1, <1>2, <1>3
  <1>5. \A i \in DOMAIN Needs[k] : Needs[k][i] = last \/ Needs[k][i] = "session"
    <2>1. ASSUME NEW i \in DOMAIN Needs[k]
          PROVE  i < Len(Needs[k]) \/ i = Len(Needs[k])
          BY Lookups
    <2> QED BY <2>1, Lookups
  <1>6. "session" \in Vouched(last) /\ (last \in Right => last \in Vouched(last))
        BY VouchedFacts
  <1>7. RecentFor(k) <=> /\ since["session"] <= TtlOf(last) + Timeout
                         /\ \A i \in DOMAIN Needs[k] :
                              Needs[k][i] \in Right => since[Needs[k][i]] <= TtlOf(last) + Timeout
        BY DEF RecentFor
  <1> HIDE DEF last
  <1> QED BY <1>4, <1>5, <1>6, <1>7 DEF Right

\* From says "served" only when the invariant bounds what it relies on.
LEMMA FromIsRecent ==
  ASSUME AccessAssumption, Facts, CacheDated, NEW k \in Route, NEW i \in DOMAIN Needs[k],
         From(k, i, cache).at = "served"
  PROVE  /\ From(k, i, cache).route = k
         /\ RecentFor(k)
  <1> DEFINE last == Needs[k][Len(Needs[k])]
  <1>1. From(k, i, cache).route = k /\ Kept(cache, last) /\ cache[last].yes
        BY FromServes
  <1>2. last \in Lookup BY Lookups
  <1>3. cache[last].age \in Nat /\ \A f \in Vouched(last) : since[f] <= cache[last].age + Timeout
        BY <1>1, <1>2 DEF CacheDated
  <1> QED BY <1>1, <1>3, ServedIsRecent

LEMMA StoredDated ==
  ASSUME AccessAssumption, AccessInv, NEW l \in Lookup, NEW yes \in BOOLEAN,
         yes => \A f \in Vouched(l) : since[f] <= Timeout,
         cache' = Stored(l, yes), since' = since
  PROVE  CacheDated'
  <1>1. /\ cache \in [Lookup -> [yes : BOOLEAN, age : Nat]]
        /\ since \in [Fact -> Nat] /\ Timeout \in Nat
        BY DEF AccessInv, CacheDated, Facts, AccessAssumption
  <1>2. cache' \in [Lookup -> [yes : BOOLEAN, age : Nat]]
        BY <1>1 DEF Stored
  <1>3. ASSUME NEW m \in Lookup, cache'[m].yes, Kept(cache', m), NEW f \in Vouched(m)
        PROVE  since[f] <= cache'[m].age + Timeout
    <2>1. f \in Fact /\ since[f] \in Nat BY <1>1, VouchedFacts
    <2>2. CASE m = l \/ (l = "name" /\ m = "session")
      <3>1. cache'[m] = [yes |-> yes, age |-> 0] BY <2>2 DEF Stored
      <3>2. yes BY <1>3, <3>1
      <3>3. f \in Vouched(l) BY <1>3, <2>2 DEF Vouched, Right
      <3> QED BY <1>1, <2>1, <3>1, <3>2, <3>3
    <2>3. CASE ~(m = l \/ (l = "name" /\ m = "session"))
      <3>1. cache'[m] = cache[m] BY <2>3 DEF Stored
      <3>2. cache[m].yes /\ Kept(cache, m) BY <1>3, <3>1 DEF Kept
      <3> QED BY <1>3, <3>1, <3>2 DEF AccessInv, CacheDated
    <2> QED BY <2>2, <2>3
  <1> QED BY <1>2, <1>3 DEF CacheDated

\* A request moves on; Zabbix stays as it is.
LEMMA OneRequest ==
  ASSUME AccessInv, NEW r \in Request, NEW q \in Requests, Dated(q),
         req' = [req EXCEPT ![r] = q], holds' = holds, since' = since
  PROVE  Facts' /\ CallsDated'
  <1>1. Facts' BY DEF AccessInv, Facts
  <1>2. req' \in [Request -> Requests] BY DEF AccessInv, CallsDated
  <1>3. ASSUME NEW p \in Request
        PROVE  Dated(req'[p])
    <2>1. req'[p] = q \/ req'[p] = req[p] BY DEF AccessInv, CallsDated
    <2> QED BY <2>1 DEF AccessInv, CallsDated
  <1>4. ASSUME NEW p \in Request
        PROVE  Dated(req[p])'
        BY <1>3 DEF Dated
  <1> QED BY <1>1, <1>2, <1>4 DEF CallsDated

LEMMA CallFields ==
  ASSUME AccessAssumption, AccessInv, NEW r \in Request, Calling(r)
  PROVE  /\ req[r] \in [at : {"call"}, route : Route, step : {1, 2}, try : {1, 2, 3}, age : Nat,
                        said : {"nothing", "yes", "less", "no"}]
         /\ req[r].step \in DOMAIN Needs[req[r].route] /\ Of(r) \in Lookup
         /\ req[r].age <= Timeout
         /\ req[r].said = "yes" => \A f \in Vouched(Of(r)) : since[f] <= req[r].age
  <1>1. req[r] \in Requests /\ Dated(req[r]) BY DEF AccessInv, CallsDated
  <1>2. req[r] \in [at : {"call"}, route : Route, step : {1, 2}, try : {1, 2, 3}, age : Nat,
                    said : {"nothing", "yes", "less", "no"}]
        BY <1>1 DEF Requests, Calling
  <1>3. req[r].step \in DOMAIN Needs[req[r].route] BY <1>1 DEF Dated, Calling
  <1>4. Of(r) \in Lookup BY <1>2, <1>3, Lookups DEF Of
  <1> QED BY <1>1, <1>2, <1>3, <1>4 DEF Dated, Calling, Of

-----------------------------------------------------------------------------
(* The invariant.                                                          *)

LEMMA AccessInit ==
  ASSUME AccessAssumption, Init
  PROVE  AccessInv
  <1>1. Longest + 1 \in Nat /\ Forever \in Nat BY TtlsAre
  <1>2. Facts BY <1>1 DEF Init, Facts, Fact
  <1>3. CacheDated BY <1>1 DEF Init, CacheDated, Absent
  <1>4. CallsDated BY DEF Init, CallsDated, Requests, Dated, Idle
  <1> QED BY <1>2, <1>3, <1>4 DEF AccessInv

\* What an answer has to say does not change while Zabbix stays as it is.
LEMMA CacheStays ==
  ASSUME CacheDated, cache' = cache, since' = since
  PROVE  CacheDated'
  BY DEF CacheDated, Kept

LEMMA BeginKeeps ==
  ASSUME AccessAssumption, AccessInv, NEW r \in Request, NEW k \in Route, Begin(r, k)
  PROVE  AccessInv'
  <1>1. 1 \in DOMAIN Needs[k] BY Lookups
  <1>2. From(k, 1, cache) \in Requests /\ Dated(From(k, 1, cache)) BY <1>1, FromShape
  <1>3. Facts' /\ CallsDated' BY <1>2, OneRequest DEF Begin
  <1>4. CacheDated' BY CacheStays DEF Begin, AccessInv
  <1> QED BY <1>3, <1>4 DEF AccessInv

LEMMA DecideKeeps ==
  ASSUME AccessAssumption, AccessInv, NEW r \in Request, Decide(r)
  PROVE  AccessInv'
  <1>0. Calling(r) BY DEF Decide
  <1>1. /\ req[r] \in [at : {"call"}, route : Route, step : {1, 2}, try : {1, 2, 3}, age : Nat,
                       said : {"nothing", "yes", "less", "no"}]
        /\ req[r].step \in DOMAIN Needs[req[r].route] /\ req[r].age <= Timeout
        BY <1>0, CallFields
  <1> DEFINE q == [req[r] EXCEPT !.said = Verdict(Of(r))]
  <1>2. Verdict(Of(r)) \in {"yes", "less", "no"} BY DEF Verdict
  <1>3. /\ q \in [at : {"call"}, route : Route, step : {1, 2}, try : {1, 2, 3}, age : Nat,
                  said : {"nothing", "yes", "less", "no"}]
        /\ q.step = req[r].step /\ q.route = req[r].route /\ q.age = req[r].age
        /\ q.said = Verdict(Of(r))
        BY <1>1, <1>2
  <1>4. ASSUME Verdict(Of(r)) = "yes", NEW f \in Vouched(Of(r))
        PROVE  since[f] <= req[r].age
    <2>1. f \in holds BY <1>4 DEF Verdict, Vouched
    <2>2. since[f] = 0 BY <2>1 DEF AccessInv, Facts
    <2> QED BY <1>1, <2>2
  <1>5. req' = [req EXCEPT ![r] = q]
    <2>1. req' = [req EXCEPT ![r].said = Verdict(Of(r))] BY DEF Decide
    <2>2. req \in [Request -> Requests] BY DEF AccessInv, CallsDated
    <2> QED BY <2>1, <2>2
  <1> HIDE DEF q
  <1>6. q \in Requests BY <1>3 DEF Requests
  <1>7. Dated(q) BY <1>1, <1>3, <1>4 DEF Dated, Of
  <1>8. Facts' /\ CallsDated' BY <1>5, <1>6, <1>7, OneRequest DEF Decide
  <1>9. CacheDated' BY CacheStays DEF Decide, AccessInv
  <1> QED BY <1>8, <1>9 DEF AccessInv

\* Asking once more begins a call of its own.
LEMMA AgainDated ==
  ASSUME AccessAssumption, AccessInv, NEW r \in Request, Calling(r), NEW n \in {1, 2, 3}
  PROVE  LET q == [Ask(req[r].route, req[r].step) EXCEPT !.try = n]
         IN  q \in Requests /\ Dated(q)
  <1>1. /\ req[r].route \in Route /\ req[r].step \in {1, 2}
        /\ req[r].step \in DOMAIN Needs[req[r].route] /\ Timeout \in Nat
        BY CallFields DEF AccessAssumption
  <1> QED BY <1>1 DEF Ask, Requests, Dated

LEMMA AskRoleKeeps ==
  ASSUME AccessAssumption, AccessInv, NEW r \in Request, AskRole(r)
  PROVE  AccessInv'
  <1> DEFINE q == [Ask(req[r].route, req[r].step) EXCEPT !.try = 3]
  <1>1. q \in Requests /\ Dated(q) BY AgainDated DEF AskRole
  <1>2. req' = [req EXCEPT ![r] = q] BY DEF AskRole
  <1> HIDE DEF q
  <1>3. Facts' /\ CallsDated' BY <1>1, <1>2, OneRequest DEF AskRole
  <1>4. CacheDated' BY CacheStays DEF AskRole, AccessInv
  <1> QED BY <1>3, <1>4 DEF AccessInv

LEMMA Ended == [at |-> "refused"] \in Requests /\ Dated([at |-> "refused"])
  BY DEF Requests, Dated

\* With a cache that is dated again, From is too.
LEMMA FromKeeps ==
  ASSUME AccessAssumption, AccessInv, NEW r \in Request, Calling(r), CacheDated',
         req' = [req EXCEPT ![r] = From(req[r].route, req[r].step, cache')],
         holds' = holds, since' = since
  PROVE  AccessInv'
  <1>1. req[r].route \in Route /\ req[r].step \in DOMAIN Needs[req[r].route]
        BY CallFields
  <1> DEFINE q == From(req[r].route, req[r].step, cache')
  <1>2. q \in Requests /\ Dated(q) BY <1>1, FromShape
  <1> HIDE DEF q
  <1>3. req' = [req EXCEPT ![r] = q] BY DEF q
  <1>4. Facts' /\ CallsDated' BY <1>2, <1>3, OneRequest
  <1> QED BY <1>4 DEF AccessInv

LEMMA GrantedDated ==
  ASSUME AccessAssumption, AccessInv, NEW r \in Request, Granted(r)
  PROVE  CacheDated'
  <1>1. Calling(r) /\ req[r].said = "yes" BY DEF Granted
  <1>2. /\ Of(r) \in Lookup /\ req[r].age \in Nat /\ req[r].age <= Timeout
        /\ \A f \in Vouched(Of(r)) : since[f] <= req[r].age
        BY <1>1, CallFields
  <1>3. \A f \in Vouched(Of(r)) : since[f] \in Nat BY VouchedFacts DEF AccessInv, Facts
  <1>4. Timeout \in Nat BY DEF AccessAssumption
  <1>5. \A f \in Vouched(Of(r)) : since[f] <= Timeout BY <1>2, <1>3, <1>4
  <1> QED BY <1>2, <1>5, StoredDated DEF Granted

LEMMA GrantedKeeps ==
  ASSUME AccessAssumption, AccessInv, NEW r \in Request, Granted(r)
  PROVE  AccessInv'
  BY GrantedDated, FromKeeps DEF Granted

LEMMA RefusalDated ==
  ASSUME AccessAssumption, AccessInv, NEW r \in Request, Calling(r), since' = since,
         cache' = IF Of(r) = "role" THEN Stored("role", FALSE) ELSE cache
  PROVE  CacheDated'
  <1>1. CASE Of(r) = "role"
    <2>1. "role" \in Lookup BY <1>1, CallFields
    <2> QED BY <1>1, <2>1, StoredDated
  <1>2. CASE Of(r) # "role" BY <1>2, CacheStays DEF AccessInv
  <1> QED BY <1>1, <1>2

LEMMA LackingKeeps ==
  ASSUME AccessAssumption, AccessInv, NEW r \in Request, Lacking(r)
  PROVE  AccessInv'
  <1>1. CacheDated' BY RefusalDated DEF Lacking
  <1>2. Facts' /\ CallsDated' BY Ended, OneRequest DEF Lacking
  <1> QED BY <1>1, <1>2 DEF AccessInv

LEMMA FailsKeeps ==
  ASSUME AccessAssumption, AccessInv, NEW r \in Request, Fails(r)
  PROVE  AccessInv'
  <1>1. CASE Of(r) \in {"name", "role"} /\ req[r].try = 1
    <2> DEFINE q == [Ask(req[r].route, req[r].step) EXCEPT !.try = 2]
    <2>1. q \in Requests /\ Dated(q) BY AgainDated DEF Fails
    <2>2. req' = [req EXCEPT ![r] = q] /\ cache' = cache BY <1>1 DEF Fails
    <2> HIDE DEF q
    <2>3. Facts' /\ CallsDated' BY <2>1, <2>2, OneRequest DEF Fails
    <2>4. CacheDated' BY <2>2, CacheStays DEF Fails, AccessInv
    <2> QED BY <2>3, <2>4 DEF AccessInv
  <1>2. CASE ~(Of(r) \in {"name", "role"} /\ req[r].try = 1)
    <2>1. /\ req' = [req EXCEPT ![r] = [at |-> "refused"]]
          /\ cache' = IF Of(r) = "role" THEN Stored("role", FALSE) ELSE cache
          BY <1>2 DEF Fails
    <2>2. CacheDated' BY <2>1, RefusalDated DEF Fails
    <2>3. Facts' /\ CallsDated' BY <2>1, Ended, OneRequest DEF Fails
    <2> QED BY <2>2, <2>3 DEF AccessInv
  <1> QED BY <1>1, <1>2

LEMMA CloseKeeps ==
  ASSUME AccessInv, NEW r \in Request, Close(r)
  PROVE  AccessInv'
  <1>1. Idle \in Requests /\ Dated(Idle) BY DEF Requests, Dated, Idle
  <1>2. Facts' /\ CallsDated' BY <1>1, OneRequest DEF Close
  <1>3. CacheDated' BY CacheStays DEF Close, AccessInv
  <1> QED BY <1>2, <1>3 DEF AccessInv

\* A fact that ends or comes back is at most as old as it was.
LEMMA ZabbixKeeps ==
  ASSUME AccessAssumption, AccessInv, NEW f \in Fact, Lose(f) \/ Gain(f)
  PROVE  AccessInv'
  <1>1. /\ holds' \subseteq Fact /\ since' \in [Fact -> Nat]
        /\ \A g \in Fact : since'[g] = since[g] \/ since'[g] = 0
        /\ \A g \in holds' : since'[g] = 0
        /\ cache' = cache /\ req' = req
        BY DEF Lose, Gain, AccessInv, Facts
  <1>2. Facts' BY <1>1 DEF Facts
  <1>3. \A g \in Fact, n \in Nat : since[g] <= n => since'[g] <= n BY <1>1
  <1>4. CacheDated'
    <2>1. ASSUME NEW l \in Lookup, cache[l].yes, Kept(cache, l), NEW g \in Vouched(l)
          PROVE  since'[g] <= cache[l].age + Timeout
      <3>1. since[g] <= cache[l].age + Timeout BY <2>1 DEF AccessInv, CacheDated
      <3>2. g \in Fact BY VouchedFacts
      <3>3. cache[l].age + Timeout \in Nat BY DEF AccessInv, CacheDated, AccessAssumption
      <3> QED BY <1>3, <3>1, <3>2, <3>3
    <2> QED BY <1>1, <2>1 DEF AccessInv, CacheDated, Kept
  <1>5. CallsDated'
    <2>1. ASSUME NEW r \in Request, req[r].at = "call", req[r].said = "yes",
                 NEW g \in Vouched(Needs[req[r].route][req[r].step])
          PROVE  since'[g] <= req[r].age
      <3>1. since[g] <= req[r].age BY <2>1 DEF AccessInv, CallsDated, Dated
      <3>2. g \in Fact BY VouchedFacts
      <3>3. req[r].age \in Nat BY <2>1, CallFields DEF Calling
      <3> QED BY <1>3, <3>1, <3>2, <3>3
    <2> QED BY <1>1, <2>1 DEF AccessInv, CallsDated, Dated
  <1> QED BY <1>2, <1>4, <1>5 DEF AccessInv

LEMMA EvictKeeps ==
  ASSUME AccessAssumption, AccessInv, NEW l \in Lookup, Evict(l)
  PROVE  AccessInv'
  <1>1. Absent \in [yes : BOOLEAN, age : Nat] /\ ~Absent.yes BY TtlsAre DEF Absent
  <1>2. cache' = [cache EXCEPT ![l] = Absent] /\ UNCHANGED <<holds, since, req>> BY DEF Evict
  <1>3. CacheDated' BY <1>1, <1>2 DEF AccessInv, CacheDated, Kept
  <1> QED BY <1>2, <1>3 DEF AccessInv, Facts, CallsDated, Dated

\* Time passes for what is remembered and for what it is remembered of.
LEMMA TickKeeps ==
  ASSUME AccessAssumption, AccessInv, Tick
  PROVE  AccessInv'
  <1>0. /\ Timeout \in Nat /\ Forever \in Nat /\ Longest \in Nat
        /\ \A l : TtlOf(l) \in Nat
        BY TtlsAre DEF AccessAssumption
  <1>1. /\ holds' = holds /\ holds \subseteq Fact /\ since \in [Fact -> Nat]
        /\ \A g \in holds : since[g] = 0
        BY DEF Tick, AccessInv, Facts
  <1>2. since' = [f \in Fact |-> IF f \in holds THEN 0
                                 ELSE IF since[f] = Forever THEN Forever ELSE since[f] + 1]
        BY DEF Tick
  <1>3. since' \in [Fact -> Nat] /\ \A g \in holds : since'[g] = 0
        BY <1>0, <1>1, <1>2
  <1>4. \A g \in Fact, n \in Nat : since[g] <= n => since'[g] <= n + 1
        BY <1>0, <1>1, <1>2
  <1>5. Facts' BY <1>1, <1>3 DEF Facts
  <1>6. CacheDated'
    <2>1. cache \in [Lookup -> [yes : BOOLEAN, age : Nat]] BY DEF AccessInv, CacheDated
    <2>2. Absent \in [yes : BOOLEAN, age : Nat] /\ ~Absent.yes BY <1>0 DEF Absent
    <2>3. cache' = [l \in Lookup |-> IF cache[l].age >= TtlOf(l) THEN Absent
                                     ELSE [cache[l] EXCEPT !.age = @ + 1]]
          BY DEF Tick
    <2>4. ASSUME NEW l \in Lookup
          PROVE  /\ cache'[l] \in [yes : BOOLEAN, age : Nat]
                 /\ cache'[l].yes => /\ cache[l].yes /\ Kept(cache, l)
                                     /\ cache'[l].age = cache[l].age + 1
          BY <1>0, <2>1, <2>2, <2>3 DEF Kept
    <2>5. cache' \in [Lookup -> [yes : BOOLEAN, age : Nat]] BY <2>3, <2>4
    <2>6. ASSUME NEW l \in Lookup, cache'[l].yes, NEW g \in Vouched(l)
          PROVE  since'[g] <= cache'[l].age + Timeout
      <3>1. /\ since[g] <= cache[l].age + Timeout /\ cache'[l].age = cache[l].age + 1
            BY <2>4, <2>6 DEF AccessInv, CacheDated
      <3>2. g \in Fact BY VouchedFacts
      <3>3. cache[l].age \in Nat BY <2>1
      <3>4. since'[g] <= (cache[l].age + Timeout) + 1 BY <1>0, <1>4, <3>1, <3>2, <3>3
      <3>5. since'[g] \in Nat BY <1>3, <3>2
      <3> QED BY <1>0, <3>1, <3>3, <3>4, <3>5
    <2> QED BY <2>5, <2>6 DEF CacheDated
  <1>7. CallsDated'
    <2>0. req \in [Request -> Requests] BY DEF AccessInv, CallsDated
    <2>1. req' = [r \in Request |-> IF Calling(r) THEN [req[r] EXCEPT !.age = @ + 1] ELSE req[r]]
          BY DEF Tick
    <2>2. ASSUME NEW r \in Request
          PROVE  req'[r] \in Requests /\ Dated(req[r])'
      <3>1. CASE Calling(r)
        <4>1. /\ req[r] \in [at : {"call"}, route : Route, step : {1, 2}, try : {1, 2, 3},
                             age : Nat, said : {"nothing", "yes", "less", "no"}]
              /\ req[r].step \in DOMAIN Needs[req[r].route] /\ req[r].age < Timeout
              /\ req[r].said = "yes" =>
                   \A g \in Vouched(Needs[req[r].route][req[r].step]) : since[g] <= req[r].age
              BY <3>1, CallFields DEF Tick, Of
        <4> DEFINE q == [req[r] EXCEPT !.age = @ + 1]
        <4>2. /\ q \in [at : {"call"}, route : Route, step : {1, 2}, try : {1, 2, 3},
                        age : Nat, said : {"nothing", "yes", "less", "no"}]
              /\ q.step = req[r].step /\ q.route = req[r].route /\ q.said = req[r].said
              /\ q.age = req[r].age + 1
              BY <4>1
        <4>3. req'[r] = q BY <2>1, <3>1
        <4> HIDE DEF q
        <4>4. q.said = "yes" => \A g \in Vouched(Needs[q.route][q.step]) : since'[g] <= q.age
              BY <1>4, <4>1, <4>2, VouchedFacts
        <4>5. q.age <= Timeout BY <1>0, <4>1, <4>2
        <4> QED BY <4>1, <4>2, <4>3, <4>4, <4>5 DEF Dated, Requests
      <3>2. CASE ~Calling(r)
        <4>1. req'[r] = req[r] /\ req[r].at # "call" BY <2>1, <3>2 DEF Calling
        <4> QED BY <2>0, <4>1 DEF Dated
      <3> QED BY <3>1, <3>2
    <2>3. req' \in [Request -> Requests] BY <2>1, <2>2
    <2> QED BY <2>2, <2>3 DEF CallsDated
  <1> QED BY <1>5, <1>6, <1>7 DEF AccessInv

LEMMA AccessStep ==
  ASSUME AccessAssumption, AccessInv, [Next]_vars
  PROVE  AccessInv'
  <1>1. CASE UNCHANGED vars
        BY <1>1 DEF vars, AccessInv, Facts, CacheDated, CallsDated, Dated, Kept
  <1>2. CASE Tick BY <1>2, TickKeeps
  <1>3. ASSUME NEW r \in Request,
               \/ \E k \in Route : Begin(r, k)
               \/ Decide(r) \/ AskRole(r) \/ Granted(r) \/ Lacking(r) \/ Fails(r) \/ Close(r)
        PROVE  AccessInv'
        BY <1>3, BeginKeeps, DecideKeeps, AskRoleKeeps, GrantedKeeps, LackingKeeps,
           FailsKeeps, CloseKeeps
  <1>4. ASSUME NEW f \in Fact, Lose(f) \/ Gain(f)
        PROVE  AccessInv'
        BY <1>4, ZabbixKeeps
  <1>5. ASSUME NEW l \in Lookup, Evict(l)
        PROVE  AccessInv'
        BY <1>5, EvictKeeps
  <1> QED BY <1>1, <1>2, <1>3, <1>4, <1>5 DEF Next

-----------------------------------------------------------------------------
(* What follows from it.                                                   *)

\* Only a cache that is dated, or the answer that dates it, serves a route.
LEMMA ServedStep ==
  ASSUME AccessAssumption, AccessInv, [Next]_vars
  PROVE  RecentWord
  <1> SUFFICES ASSUME NEW r \in Request, req[r].at # "served", req'[r].at = "served"
               PROVE  RecentFor(req'[r].route)
      BY DEF RecentWord
  <1>0. req \in [Request -> Requests] BY DEF AccessInv, CallsDated
  <1>1. ASSUME NEW p \in Request, NEW q, req' = [req EXCEPT ![p] = q]
        PROVE  p = r /\ req'[r] = q
        BY <1>0, <1>1
  <1>2. ASSUME NEW p \in Request, NEW k \in Route, Begin(p, k)
        PROVE  RecentFor(req'[r].route)
    <2>1. req'[r] = From(k, 1, cache) BY <1>1, <1>2 DEF Begin
    <2>2. 1 \in DOMAIN Needs[k] BY Lookups
    <2> QED BY <2>1, <2>2, FromIsRecent DEF AccessInv
  <1>3. ASSUME NEW p \in Request, Granted(p)
        PROVE  RecentFor(req'[r].route)
    <2> DEFINE k == req[p].route
               i == req[p].step
               last == Needs[k][Len(Needs[k])]
    <2>1. k \in Route /\ i \in DOMAIN Needs[k] BY <1>3, CallFields DEF Granted
    <2>2. req'[r] = From(k, i, cache') BY <1>1, <1>3 DEF Granted
    <2>3. CacheDated' BY <1>3, GrantedDated
    <2>4. From(k, i, cache').route = k /\ Kept(cache', last) /\ cache'[last].yes
          BY <2>1, <2>2, FromServes
    <2>5. last \in Lookup BY <2>1, Lookups
    <2>6. since' = since BY <1>3 DEF Granted
    <2>7. cache'[last].age \in Nat /\ \A f \in Vouched(last) : since[f] <= cache'[last].age + Timeout
          BY <2>3, <2>4, <2>5, <2>6 DEF CacheDated, Kept
    <2> QED BY <2>1, <2>2, <2>4, <2>7, ServedIsRecent DEF AccessInv
  <1>4. ASSUME NEW p \in Request,
               Decide(p) \/ AskRole(p) \/ Lacking(p) \/ Fails(p) \/ Close(p)
        PROVE  FALSE
    <2>1. CASE Decide(p)
      <3>1. req' = [req EXCEPT ![p] = [req[p] EXCEPT !.said = Verdict(Of(p))]]
            BY <1>0, <2>1 DEF Decide
      <3>2. p = r /\ req'[r] = [req[p] EXCEPT !.said = Verdict(Of(p))] BY <3>1, <1>1
      <3>3. req[p] \in [at : {"call"}, route : Route, step : {1, 2}, try : {1, 2, 3}, age : Nat,
                        said : {"nothing", "yes", "less", "no"}]
            BY <2>1, CallFields DEF Decide
      <3> QED BY <3>2, <3>3
    <2>2. CASE AskRole(p) \/ Lacking(p) \/ Fails(p) \/ Close(p)
      <3> DEFINE again(n) == [Ask(req[p].route, req[p].step) EXCEPT !.try = n]
      <3>1. again(2).at = "call" /\ again(3).at = "call" BY DEF Ask
      <3> HIDE DEF again
      <3>2. \/ req' = [req EXCEPT ![p] = again(2)] \/ req' = [req EXCEPT ![p] = again(3)]
            \/ req' = [req EXCEPT ![p] = [at |-> "refused"]] \/ req' = [req EXCEPT ![p] = Idle]
            BY <2>2 DEF AskRole, Lacking, Fails, Close, again
      <3>3. \/ req'[r] = again(2) \/ req'[r] = again(3)
            \/ req'[r] = [at |-> "refused"] \/ req'[r] = Idle
            BY <1>1, <3>2
      <3> QED BY <3>1, <3>3 DEF Idle
    <2> QED BY <1>4, <2>1, <2>2
  <1>5. CASE Tick
    <2>1. req' = [p \in Request |-> IF Calling(p) THEN [req[p] EXCEPT !.age = @ + 1] ELSE req[p]]
          BY <1>5 DEF Tick
    <2>2. CASE Calling(r)
      <3>1. req[r] \in [at : {"call"}, route : Route, step : {1, 2}, try : {1, 2, 3}, age : Nat,
                        said : {"nothing", "yes", "less", "no"}]
            BY <2>2, CallFields
      <3>2. req'[r] = [req[r] EXCEPT !.age = @ + 1] BY <2>1, <2>2
      <3> QED BY <3>1, <3>2
    <2>3. CASE ~Calling(r) BY <2>1, <2>3
    <2> QED BY <2>2, <2>3
  <1>6. ASSUME req' = req PROVE FALSE BY <1>6
  <1>7. ASSUME NEW f \in Fact, Lose(f) \/ Gain(f) PROVE FALSE BY <1>6, <1>7 DEF Lose, Gain
  <1>8. ASSUME NEW l \in Lookup, Evict(l) PROVE FALSE BY <1>6, <1>8 DEF Evict
  <1>9. CASE UNCHANGED vars BY <1>6, <1>9 DEF vars
  <1> QED BY <1>2, <1>3, <1>4, <1>5, <1>7, <1>8, <1>9 DEF Next

\* A route does its work only while its session and its right are at most the TTL
\* of its last lookup and a call's timeout in the past, whatever is asked, cached,
\* lost and taken away meanwhile (zabbix.py:121-265, docker_routes.py:104-295).
THEOREM ServedRecently ==
  ASSUME AccessAssumption
  PROVE  Spec => ServedOnRecentWord
  <1>1. Init => AccessInv BY AccessInit
  <1>2. AccessInv /\ [Next]_vars => AccessInv' BY AccessStep
  <1>3. AccessInv /\ [Next]_vars => [RecentWord]_vars BY ServedStep
  <1> QED BY <1>1, <1>2, <1>3, PTL DEF Spec, ServedOnRecentWord

\* The ages are counted no further than the times are told apart.
Bounded ==
  /\ \A f \in Fact : since[f] <= Forever
  /\ \A l \in Lookup : cache[l].age <= Longest + 1

LEMMA BoundedInit ==
  ASSUME AccessAssumption, Init
  PROVE  Bounded
  BY TtlsAre DEF AccessAssumption, Init, Bounded, Absent

LEMMA BoundedKept ==
  ASSUME AccessAssumption, AccessInv, Bounded, [Next]_vars
  PROVE  Bounded'
  <1>1. /\ Longest \in Nat /\ Timeout \in Nat /\ Forever \in Nat
        /\ \A l : TtlOf(l) \in Nat /\ TtlOf(l) <= Longest
    BY TtlsAre DEF AccessAssumption
  <1>2. /\ since \in [Fact -> Nat] /\ cache \in [Lookup -> [yes : BOOLEAN, age : Nat]]
    BY DEF AccessInv, Facts, CacheDated
  <1>3. ASSUME \A f \in Fact : since'[f] = since[f] \/ since'[f] = 0
        PROVE  \A f \in Fact : since'[f] <= Forever
    BY <1>1, <1>2, <1>3 DEF Bounded
  <1>4. ASSUME \A l \in Lookup : cache'[l] = cache[l] \/ cache'[l].age = 0 \/ cache'[l] = Absent
        PROVE  \A l \in Lookup : cache'[l].age <= Longest + 1
    BY <1>1, <1>2, <1>4 DEF Bounded, Absent
  <1>5. ASSUME NEW l, NEW yes
        PROVE  \A m \in Lookup : Stored(l, yes)[m] = cache[m] \/ Stored(l, yes)[m].age = 0
    BY DEF Stored
  <1>6. CASE UNCHANGED <<since, cache>>
    BY <1>6 DEF Bounded
  <1>7. ASSUME NEW r \in Request, Granted(r) \/ Lacking(r) \/ Fails(r) PROVE Bounded'
    <2>1. /\ since' = since
          /\ cache' = cache \/ \E l, yes : cache' = Stored(l, yes)
      BY <1>7 DEF Granted, Lacking, Fails
    <2> QED BY <2>1, <1>3, <1>4, <1>5 DEF Bounded
  <1>8. ASSUME NEW f \in Fact, Lose(f) \/ Gain(f) PROVE Bounded'
    BY <1>2, <1>3, <1>8 DEF Lose, Gain, Bounded
  <1>9. ASSUME NEW l \in Lookup, Evict(l) PROVE Bounded'
    <2>1. cache' = [cache EXCEPT ![l] = Absent] /\ since' = since
      BY <1>9 DEF Evict
    <2> QED BY <1>2, <1>4, <2>1 DEF Bounded
  <1>10. CASE Tick
    <2>1. ASSUME NEW f \in Fact PROVE since'[f] <= Forever
      <3>1. \/ since'[f] = 0 \/ since'[f] = Forever
            \/ since[f] # Forever /\ since'[f] = since[f] + 1
        BY <1>10 DEF Tick
      <3>2. since[f] \in Nat /\ since[f] <= Forever
        BY <1>2 DEF Bounded
      <3> QED BY <1>1, <3>1, <3>2
    <2>2. ASSUME NEW l \in Lookup PROVE cache'[l].age <= Longest + 1
      <3>1. cache'[l] = IF cache[l].age >= TtlOf(l) THEN Absent ELSE [cache[l] EXCEPT !.age = @ + 1]
        BY <1>10 DEF Tick
      <3> QED BY <1>1, <1>2, <3>1 DEF Absent
    <2> QED BY <2>1, <2>2 DEF Bounded
  <1>11. \A r \in Request : \A k : Begin(r, k) \/ Decide(r) \/ AskRole(r) \/ Close(r)
                                      => UNCHANGED <<since, cache>>
    BY DEF Begin, Decide, AskRole, Close
  <1> QED BY <1>6, <1>7, <1>8, <1>9, <1>10, <1>11 DEF Next, vars

LEMMA TypesOf ==
  ASSUME AccessAssumption, AccessInv, Bounded
  PROVE  TypeOK
  <1>1. /\ Longest \in Nat /\ Timeout \in Nat /\ Forever \in Nat
        /\ \A l : TtlOf(l) \in Nat /\ TtlOf(l) <= Longest
    BY TtlsAre DEF AccessAssumption
  <1>2. holds \subseteq Fact /\ since \in [Fact -> 0..Forever]
    BY <1>1 DEF AccessInv, Facts, Bounded
  <1>3. cache \in [Lookup -> [yes : BOOLEAN, age : 0..Longest + 1]]
    <2>1. cache \in [Lookup -> [yes : BOOLEAN, age : Nat]]
      BY DEF AccessInv, CacheDated
    <2>2. ASSUME NEW l \in Lookup PROVE cache[l] \in [yes : BOOLEAN, age : 0..Longest + 1]
      BY <1>1, <2>1 DEF Bounded
    <2> QED BY <2>1, <2>2
  <1>4. ASSUME NEW r \in Request
        PROVE  /\ req[r] \in Call \cup [at : {"idle", "refused"}] \cup [at : {"served"}, route : Route]
               /\ req[r].at = "call" => req[r].step <= Len(Needs[req[r].route])
    <2>1. req[r] \in Requests
      BY DEF AccessInv, CallsDated
    <2>2. CASE req[r].at = "call"
      <3>1. /\ req[r] \in [at : {"call"}, route : Route, step : {1, 2}, try : {1, 2, 3}, age : Nat,
                           said : {"nothing", "yes", "less", "no"}]
            /\ req[r].step \in DOMAIN Needs[req[r].route] /\ req[r].age <= Timeout
        BY <2>2, CallFields DEF Calling
      <3>2. req[r] \in Call
        BY <1>1, <3>1 DEF Call
      <3>3. req[r].step <= Len(Needs[req[r].route])
        BY <3>1, Lookups
      <3> QED BY <3>2, <3>3
    <2>3. CASE req[r].at # "call"
      BY <2>1, <2>3 DEF Requests
    <2> QED BY <2>2, <2>3
  <1>5. DOMAIN req = Request /\ req = [r \in Request |-> req[r]]
    BY DEF AccessInv, CallsDated
  <1> QED BY <1>2, <1>3, <1>4, <1>5 DEF TypeOK

\* Sessions, rights, what is kept of them and the requests keep their types,
\* the ages within their bounds (zabbix.py:121-265).
THEOREM AccessTypeCorrect ==
  ASSUME AccessAssumption
  PROVE  Spec => []TypeOK
  <1>1. Init => AccessInv /\ Bounded
    BY AccessInit, BoundedInit
  <1>2. AccessInv /\ Bounded /\ [Next]_vars => (AccessInv /\ Bounded)'
    BY AccessStep, BoundedKept
  <1>3. AccessInv /\ Bounded => TypeOK
    BY TypesOf
  <1> QED BY <1>1, <1>2, <1>3, PTL DEF Spec
=============================================================================
