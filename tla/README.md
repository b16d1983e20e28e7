# auzui in TLA+

auzui is a web front end for Zabbix, Graylog and Docker. A React single-page
application (`frontend/`, `packages/`) runs in the browser; a FastAPI gateway
(`services/gateway/src/auzui_gateway/`, below `GW/`) stands between it and the
Zabbix API, Graylog, InfluxDB and the Docker daemons. This directory holds TLA+
models of the parts whose correctness depends on the order of things:
requests that overlap, answers that come late or never, processes that die
halfway. `PROJECT.json` lists the components, the runs, the source lines each
definition stands for, the hazards and the proved theorems.

## The system

### Components, their state and operations

| Component | State it keeps | Operations | What is hard |
|---|---|---|---|
| Container updates (`GW/docker_hosts.py`: `container_action`, `pull_recreate`) | none of its own: the daemon's containers and their names are the state | inspect, pull, stop, rename, create, start, remove; roll back | every call can fail or take effect unseen; no lock between requests; the process can die between two calls; `--rm` containers vanish |
| Call throttling (`DockerService._call`) | a global and a per-host `asyncio.Semaphore` | acquire both, run the call in a thread, release both | nested acquisition, wakeups, fairness |
| Lists and actions (`DockerService.containers`, `act`, `invalidate`; `GW/cache.py`) | TTL caches per host and view; summary, stats caches | list, act and invalidate, expire | a fetch in flight while an action invalidates |
| Docker statistics, update checks, logs (`GW/docker_stats.py`, `docker_updates.py`, `docker_hosts.py`: `logs`) | the previous raw sample, the registry digest cache | poll and stream, look digests up, read two streams | samples of concurrent polls and restarts, cached failures, lines written between two reads |
| Docker routes, compose (`GW/docker_routes.py`, `docker_compose.py`) | none | guarded actions, compose over SSH with a timeout | half-done stack actions |
| Zabbix proxy (`GW/zabbix_proxy.py`) | failed-login counters per address and user | check, forward, count | the check and the count are an `await` apart; pruning; window borders |
| Zabbix sessions and permissions (`GW/zabbix.py`, `deps.py`, `spnego.py`) | TTL caches of sessions, names, roles, hosts | validate, look up a role, exchange a Kerberos ticket | answers cached longer than the fact they state |
| Saved filter sets (`GW/filter_sets.py`) | one JSON file, one lock | list, create, update, delete | read-modify-write, crash between write and rename, read errors |
| Graylog search (`GW/graylog.py`) | none | fan out, merge, deduplicate, cut a page | partial failure, paging over a deduplicated merge |
| InfluxDB, configuration, assembly (`GW/influx.py`, `config*.py`, `app.py`) | settings read once | build queries, wire routes | numeric borders |
| Browser session (`frontend/src/lib/auth/`, `LoginPage.tsx`, `query-client.ts`, `packages/zabbix-client`) | token and name in the store, in `sessionStorage` and in the client; login method in `localStorage`; renewal flag, cooldown, generation; the query cache | log in, Kerberos login, silent renewal, log out, expire, reload | promises that settle after the state they started from is gone; several tabs |
| Docker page and log tail (`features/docker/`) | queries per host filter, an open panel, the log buffer and its cursor | choose, act, tail | hand-kept invalidation lists, polls in flight |
| Logs page (`features/logs/LogsPage.tsx`) | URL search parameters, `localStorage`, debounced text | filter, page, save and apply sets | effects that navigate over each other |
| Problems page (`features/problems/`) | two cached lists, a selection | filter, select, acknowledge, suppress, close | optimistic edits, rollback, polls |
| Maintenance page (`features/maintenance/`, `lib/maintenance.ts`) | a form decoded from an entry | create, edit, delete | what the form cannot show |
| Host dashboards (`features/host-detail/`, `lib/auto-dashboard.ts`) | what each card reported, open sections | filter, scroll, pick a range | reports of cards that are gone |
| Latest data (`features/latest-data/`, `lib/display-templates/`) | what was promoted to the facts, a range, an open chart | choose a section, a range, an item | verdicts that change the list they came from |
| Metrics (`features/metrics/`, `lib/metric-query.ts`) | a selection in the URL, recent sets per user in `localStorage`, the text being edited | type, pick, toggle cells, rows and columns | lookups, rows and users that change in between |
| Topology (`features/topology/`, `lib/topology.ts`, `lib/radial-layout.ts`) | a tab and a cluster in the URL, a stage's own state | search, focus, fold, zoom | severities from two queries, families that too few names share |
| Other pages (`frontend/src/features/`) | URL search parameters | per page | - |
| Pure libraries (`frontend/src/lib/`, `packages/timeseries`, `packages/logs`, `packages/docker`) | none | parse, aggregate, lay out, downsample | borders, empty inputs |
| Demo backend (`frontend/src/demo/`) | mock data | - | not part of the system proper |

### How they interact

A page asks through a package (`zabbix-client`, `docker`, `logs`,
`timeseries`), which sends an HTTP request with the session token of the
browser session. The gateway's routes check the token against Zabbix (cached),
then the role (cached) and, for writes, the host's `readonly` flag, and call a
service: the Zabbix proxy forwards one JSON-RPC call; Graylog and Docker services fan
out to their servers and merge what comes back, per-server errors included.
The gateway is one process with one event loop. Blocking Docker calls run in
threads; everything else interleaves at `await`. A 401 or a Zabbix "re-login"
error comes back to the browser session, which renews it or ends it.

### What makes each part correct

- Updates: a container is never lost or doubled by an update; a failed update
  puts the original back; a reported update is real.
- Throttling: the caps hold, permits are neither lost nor invented, every call
  eventually runs.
- Lists: what is served after an action shows the action, except for the
  documented TTL and the races named below.
- Browser session: one session everywhere, no data of another identity, no
  sign-in that a logout should have prevented, no state that blocks recovery.
- Login throttle: a key is locked once its failures inside the window reach the limit,
  whatever overlaps.
- Sessions and rights: nothing is done on a session or a right that ended
  longer ago than the cache's time-to-live and one call's timeout.
- Filter sets: no acknowledged write is lost, readers never see a torn file,
  only the owner changes a set.
- Graylog search: a page neither merges nor splits lines it should not, the
  first page has the newest lines, pages go back in time.
- Statistics, updates, log tail: a percentage within the host, a recent digest,
  a log without holes.
- Pages: once nothing is under way the list on the screen is one the server
  would have given since the last action; the effects of a page settle; an
  entry that is opened and saved untouched keeps its plan; a chart is hidden
  only for cause; what a template binds is charted; a matrix is its query's; the recent
  sets offered are those stored for the user; no host is lost on the way to the stage.

The hazards behind these are listed with their lines in `PROJECT.json`.

## The modules

| Module | Models | Extends |
|---|---|---|
| `DockerRecreate` | `container_action`, `pull_recreate` and the daemon they talk to | - |
| `AsyncSemaphore` | `asyncio.Semaphore` | - |
| `DockerCalls` | `DockerService._call` | `AsyncSemaphore` |
| `DockerService` | `containers`, `act`, `invalidate`, the container cache | `DockerCalls` |
| `AuthSession` | the browser session | - |
| `LoginThrottle` | `LoginThrottle` and `api_jsonrpc`'s use of it | - |
| `FailureLock` | what `LoginThrottle` promises | - |
| `FilterSets` | the filter-set store: file, temporary file, lock, crashes | - |
| `FilterBoard` | what `FilterSets` promises | - |
| `GraylogSearch` | `GraylogService.search` and the turning of pages | - |
| `ZabbixAccess` | session, name, role, item and host checks, their caches, the routes that ask | - |
| `DockerStats` | `_stats_for`, `stats_one`, `_cpu_pct` | - |
| `RegistryUpdates` | `_updates_for` and `UpdateChecker` | - |
| `LogTail` | the log tab of a container, down to the two reads of its log | - |
| `QueryCache` | one entry of TanStack Query's cache, as the pages use it | - |
| `Problems` | the problems page and `useAcknowledge` | `QueryCache` |
| `DockerPage` | the Docker page and its two mutations | `QueryCache` |
| `LogsPage` | the logs page: URL, storage, effects | - |
| `MaintenanceForm` | the maintenance page: decoding, encoding, saving | - |
| `AutoDashboard` | `buildDashboard` | - |
| `HostDashboard` | the host page's sections and cards | `AutoDashboard` |
| `LatestData` | the latest data of one host: template, sections, facts, series | - |
| `MetricsBrowser` | the metrics page: search, matrix, selection, recent sets | `Filtered` |
| `QueryBar` | the field and the chips of its query | `Filtered` |
| `Filtered` | `Array.prototype.filter`, as a recursive function: `SelectSeq` is out of the prover's sight | - |
| `Topology` | the topology page: severities, clusters, the stage | - |
| `DockerServiceProofs`, `AuthSessionProofs`, `LoginThrottleProofs`, `ZabbixAccessProofs`, `DockerRecreateProofs`, `LogTailProofs` | the theorems | their component and `TLAPS` |
| `GatewayReads` | six parts of the gateway side by side | `FilterSets`, instances of the others |
| `SpaPages` | nine parts of the pages side by side | `LogsPage`, instances of the others |
| `ReadsProofs`, `PagesProofs` | the theorems of the parts that run side by side | `GatewayReads`, `SpaPages` and `TLAPS` |
| `MCDockerRecreate`, `MCDockerCalls`, `MCDockerService`, `MCAuthSession`, `MCLoginThrottle` | symmetry sets, model values | their component |
| `MCGatewayReads`, `MCSpaPages` | servers, containers, items, hosts, entries and queries to check them on | `GatewayReads`, `SpaPages` |

`GatewayReads` and `SpaPages` hold components that share no state: a behaviour
is about one of them (`about`), the cells `c1`, `c2`, ... are its variables, and
the others stand still. `Parts` and `PageSet` choose which of them a run is
about. A property says of each behaviour what the module it is about says; where
several modules make the same kind of claim, it has one conjunct for each.

A definition named `X_doesSomething` directly before `X` and marked "(mutant)"
is `X` with a plausible mistake in it. Nothing refers to it; `PROJECT.json`
pairs it with the property that catches the mistake.

### DockerRecreate

`docker` is the daemon: status, name and image of each container id. Each
`Worker` is a gateway thread; `pc` walks through the Docker API calls of its
request, and `cid`, `nm`, `pulled`, `repl`, `stale` are the locals of
`pull_recreate`. One action is one API call (`Inspect`, `Pull`, `StopOld`,
`RenameOld`, `RestartOld`, `CreateNew`, `StartNew`, `RemoveBackup`, and for the
rollback `FindStale`, `RemoveStale`, `RenameBack`, `StartOld`). `Call` gives
each of them four outcomes: accepted and answered; rejected by the daemon (no
such container, name taken); refused on the way; done with the answer lost.
`Reap`, `Exit` and `GatewayRestart` are the world's moves. `calm`, `refused`,
`lost` and `wasUp` are history variables that properties use to say which
request they speak of. Names count their `-auzui-backup` suffixes. The
`create` arguments, networks and digests' text are left out; whether both
digests are known is a choice, because the code compares only then. A
`restart` verb leaves the container as a start or a broken-off stop does.

### AsyncSemaphore, DockerCalls, DockerService

`AsyncSemaphore` is CPython 3.12's semaphore: `free`, the queue of waiters,
and those who were handed a permit but have not run. `Locked` refuses a newcomer
while anyone is still to be served, `Release` wakes one waiter, `Resume` wakes
as many more as there are permits. `DockerCalls` takes the global permit, then
the host's, and holds the first while it queues for the second, as the
`async with` in `_call` does; an uncontended acquire does not yield, so `Enter`
may do both in one step. `DockerService` refines its steps with what they do to
the cache: `ListFromCache`, `ListFetch` and `ActBegin` are the handlers up to
their `await`, `Daemon` is the call in its thread, `Finish` is the handler after
the `await`, storing a list or invalidating the host. The containers of a host
are a version number, `world`; `acted` is the version the last successful
action left, `floor` its value when a request began, `raced` and `tainted` mark
fetches (and the entries they stored) during which an action succeeded.

### AuthSession

`store`, `saved` and `client` are the three copies of the session: the Zustand
store, `sessionStorage`, the API client's token. `generation`,
`reauthenticating`, `cooling` and `loggingIn` are the variables of `store.ts`,
`autoSso` the two session flags of `sso.ts`, `method` the `localStorage` value.
A promise is a set that is empty or holds what it captured: `attempts` (a
password login or a Kerberos handshake of the login page; `here` says whether the page
that began it is still mounted), `renewals` (the generation), `queries` (the
token sent, the try), `logouts`. `live` and `owner` are Zabbix. `RenewalEnds`
is the continuation in `handleSessionExpired` with its three branches;
`Refresh` is what the two store subscriptions of `query-client.ts` do to the
queries; `Reload` starts the module state anew from `sessionStorage`.
`signedOut` and `origin` are history.

### LoginThrottle, FailureLock

`table` is `_state`: for each address and each name nothing, or a count and the
age of its last failure. Ages stand for `time.monotonic()` differences and stop
at `Lockout`, beyond which the code does not tell them apart. `sent` holds the
logins whose answers from Zabbix are awaited. `Login` is the handler up to its
`await`, with `is_locked`'s early return and its deletion of the expired
entries it meets; `Failure`, `Success` and `Unusable` are the outcomes after
it. `Pruned` is the set of tables `_prune` may leave (entries of the same
age are sorted by their place in the dictionary, which the model leaves open).
`FailureLock` knows no table: runs of failures that end on time, refusals
exactly while one has reached the limit, forgetting only under pressure and
oldest first. `LockSpec` says that the first implements the second under the mapping
that reads a run off a live entry.

### FilterSets, FilterBoard

`file` is what `_read_all` would parse (`whole` says whether it is a list at
all), `temp` and `pending` are the write under way. A mutation runs from the
lock to the opening of the temporary file in one step (`Mutate`), because the
event loop is not left between; then `Dump`, `Replace` or `WriteFails`. `ok` is
whether the read succeeded: an unreadable store counts as empty for the request
that met it, and the next write makes that true. `Crash` may come between any
two. `FilterBoard` knows no file: sets that change atomically, by their owner,
and start anew only after a request that was `blind`.

### ZabbixAccess

One token, several requests. A route asks for its lookups in order (`Needs`);
each is answered from its cache or by a call, which Zabbix decides at one
moment (`Decide`) and whose answer may come later or never. `TtlOf` gives how long
an answer is kept: `HostTtl` (`host_mapping_cache_ttl`) for hosts, `Ttl` for the rest. `since` is how long
ago a fact last held; `cache` ages. `try` follows `_check_authentication`'s
second attempt and the `role.get` behind an administrator's identity.

### GraylogSearch

`log` is what the servers hold, fixed for one time range. A message knows its
server and its place there, so what the handler sorts is a set with its order
(`Before` for the merge, `Above` for the rows), and a row is the set of the copies
it stands for. `Pages` is the handler: `Fetch` asks every server that answers and
merges, `Join` folds a message into the rows of `dedupe_messages`, `Final` is the
loop that doubles the fetch until the rows above the watermark fill the page (in each
round other servers may fail), `Merged` what its last round gives and `Cut` the page.
`Turn` is the user going to a page while the servers of `down` fail.

### DockerStats, RegistryUpdates, LogTail

`DockerStats` keeps the counters of one container and of its host; readings
are taken in one step and arrive in another, so polls overlap, and container
and host restart between. `RegistryUpdates` follows one tag from container and
image list to the registry and its cache. `LogTail` counts time in lines: a
request reads the streams one after the other, its answer is merged into the
buffer, and `from` marks what a load covered. `cursor` is the next time that a
poll asks for.

### QueryCache, Problems, DockerPage

`QueryCache` gives the moves of an entry: `Fetch`, `Observe`, `Cancel`,
`Invalidate`, `Write`, and the answer's two halves. The pages say when. In
`Problems` a problem is the set of what holds of it; `Mutate` cancels, keeps a
snapshot and edits, `Settle` rolls back on an error and invalidates, which is
`onError` and `onSettled` in one step as the library runs them. In `DockerPage`
`engine` is what the containers are and `Stale` the entries an action marks.
`since` is history in both: what the server was since the last action that
ended with the list on the page.

### LogsPage

`url` is the committed search, `nav` the navigation under way, `seen` the
dependencies the effects last ran for. `Effects` runs those of a commit in
their order, each with the URL of that commit; the last navigation wins. A
user acts between commits, not within one. `Open` is the page's mount, from the
menu or by a link that brings a text (`deep`) or filters, which then take precedence
over the stored ones.

### MaintenanceForm

`Decoded` and `Payload` are `maintenanceToFormState` with the inputs' initial
values, and `submit` with `buildMaintenancePayload`. Masks are sets of days and
months. An update replaces the whole entry; an entry may vanish meanwhile. `Zone` is
the browser's clock with its one change; `ToLocal` and `FromLocal` are what
`toLocalDateTime` (with the carry of `setMinutes`) and `new Date(input)` make of a time
by that clock, in the hours around the change too.

### AutoDashboard, HostDashboard

An item is a record of what the rules look at. The stages of `buildDashboard`
(text and states, containers, interfaces, bundles, families) each take from
what the ones before them left. `HostDashboard` follows, per section, which
cards are mounted, what their queries say and what they have reported; a render
with its effects belongs to the step that causes it.

### LatestData

`ResolveTemplate` and `SectionOf` are `resolveTemplate` and `buildSections`: an
item belongs to a bundle, a family or its component. `bound` is the list that
has arrived with its sections, which change once more when the parent
templates arrive. An item's history is a short sequence and a range a pair of
places in it, so that "does not change over the range" means what
`classifyNumericSeries` computes. `series` is what the view's query has and which
request failed, if one did: such a request is not made again (`retry: false`) until the
user comes back to the window (`Refocus`) or another one is wanted (`AskAnew`). `Verdicts` is the effect of a component's
view on the series it has, `OnClassified` the update of `promoted`; the view asks for
`Wanted`, the ids it shows over the page's range, and unmounts when the section on
screen is no component's any more.

### MetricsBrowser, QueryBar

A query is the set of items that it matches and the scope of its `host:` or
`group:` token, which a lookup has to resolve (`lookup`) before the search is
`Enabled`. `rows` are the clicks on a row's head whose request is under way, each with
the selection of its rendering (`order`), since `toggleRow` calls the
`toggleGroup` it closed over. `RunEffects` is the commit's two effects in their
order: the sets of the user are loaded, then the selection is recorded under the user
of that commit. `SignIn` is a change of user while the page is open: the query cache is
cleared (`query-client.ts`), so the matrix, the lookup and the selected items' details
are gone until they are loaded anew, which the second effect takes for a change of the
selection. `author`, who made the selection, is history, and an entry's `by` says so. In
`QueryBar` a text is a sequence of words and `host:a` one word; `Draft` is
`currentFieldDraft`, `Resync` the effect on `value`.

### Topology

`Key` and `Joined` are the two queries of `useHostProblemCounts`. `Clusters`
gives the clusters of a tab with the rule of each, `AnchorOf` what monitors a
host; `Hit` and `Jump` are the search's jump. `Families` follows
`deriveNameFamilies` with its two counts, of who shares a prefix and of who
chose it; `Ring` is the circle that `FocusStage` draws. Effects of a commit come before
anything else (`Due`).

## The runs

All bounds are constants of the module and are named in it.

| Run | Instance | States | Shows |
|---|---|---|---|
| `docker_recreate` | 2 workers, 3 ids, 2 updates, any number of starts, stops and gateway restarts, 2 faults per request, 1 new release, with and without `--rm`; symmetric | 1.3 million | `SomeCopySurvives`, `OneInstance`, `OriginalRecoverable`, `RollbackRestores`, `UpdateIsReal` |
| `docker_recreate_overlap` | 3 workers, 4 ids, 3 updates, no faults; symmetric | - | violates `RollbackSparesOriginal` |
| `docker_calls` | 4 tasks, 2 hosts, caps 3 and 2 | 20 thousand | `PermitsConserved`, `NoLostWakeup`, `SomeCallProceeds`, `EveryCallRuns` |
| `docker_service` | 3 tasks, 1 host, caps 2 and 2, 2 views, 2 changes; symmetric | 0.6 million | `StaleOnlyIfRaced` |
| `auth_session` | 2 people, 2 login attempts, 2 renewals and 1 query in flight, 2 sessions, 2 logins or logouts | 0.2 million | `OneSession`, `CacheIsOwn`, `RenewalNeverUndoesLogout`, `FlagIsReleased` |
| `login_throttle` | 3 logins in flight, 2 addresses, 2 names, limit 2, lockout 2 ticks, room for 3 keys; symmetric | 50 thousand | `FailuresBounded`, `TableBounded`; implements `FailureLock` |
| `gateway_reads` | the six parts below, one at a time | 0.8 million | `SearchHolds`, `StatsWithinHost`, `TailIsWhole`, `AccessIsRecent`, `UpdatesAreRecent`; implements `FilterBoard` |
| `log_tail_streams` | a container that writes to both streams | small | violates `NoLogLineSkipped` |
| `spa_pages` | the nine parts below, one at a time | 0.8 million | `ListsAreCurrent`, `BalanceAgrees`, `ItemsHaveTheirPlace`, `CollapseIsEarned`, `StoredIsShown`, `SearchIsWhatIsTyped`, `StageShowsAll`, `PagesSettle`, `UntouchedSaveIsHarmless` |
| `maintenance_round_trip` | the maintenance page alone | small | violates `RoundTripsAreExact` |
| `metrics_row_toggle` | the metrics page alone | small | violates `RowTogglesAreLocal` |
| `latest_facts` | the latest data alone | small | violates `FactsAreReversible` |

In `gateway_reads`: 2 users and 2 filter sets; 2 servers with every log of up
to 3 messages at 4 times, 3 pages of one row, a window of 1 and fetches capped
at 4, so the loop doubles, hits the cap and falls back; 2 requests against a
time-to-live and a timeout of one tick each, with the routes `write` and
`owner` (the same run was also made with `read`, `series` and `host` and hosts kept
for two ticks, as 600 s are twice 300 s: 0.6 million states); 2 polls, a
host that reboots once; 2 checks and 3 digests of one tag; 2 containers of one
stream each, 3 lines in a buffer of 4, so that the buffer always has room, which
`TailIsWhole` asks for, 2 polls in flight.

In `spa_pages`: one stream, one value to filter by and 3 clicks, enough to
open, change and come back; one problem with 2 actions of the two parts of the
page and one further change; 2 states of the containers, 2 host filters, 2
actions; maintenances of every recurrence and of 4 lengths, one of which the
form does not show exactly, on a clock that is set back an hour, with a one-time entry
and a daily one within two hours of the change and the others well away from it; a host in 4 lists of items that take every way
through the pipeline, 2 ranges, 3 moves; 2 hosts with 2 lists of items, 2 templates that
bind by key and by parent template, histories of 6 places and 3 ranges, 3 turns,
which the loop from a verdict to the next series needs; 3 metrics on 2 hosts, one
of them twice, 2 users, 2 queries and the empty one, 3 turns; 2 fields of 2
values and one text, up to 3 words, 3 edits; 8 hosts in 2 lists with every way
of being monitored, families of 2 where the code asks for 4 and a threshold of 3
where it asks for 24, 4 lists of problems, 3 turns.

Why the bounds are enough. A rollback that goes wrong needs one fault to start
it and one inside it, so two faults per request; two workers give every
pairwise interleaving, and the third id lets both of them create a replacement.
Two updates are not enough for everything: a third one that overlaps both can
destroy the original (`docker_recreate_overlap`), so `SomeCopySurvives` is
claimed only while at most two have begun. The other properties were
also checked with three updates, by one worker with faults and by two without
starts and stops.
Four tasks over caps of three and two fill the global queue and a host's queue
at once, and a woken task meets a newcomer. One host suffices for the cache
because its entries are keyed by host and nothing reads across hosts; the
global semaphore is still contended. Two sessions let a late answer meet a
newer session; two renewals let a superseded handshake overlap its successor.
With a limit of two, three logins can all pass the check and overshoot; four
keys over a cap of three make failures prune, and a lockout of two ticks has a live, an
old and an expired age.

Deadlock is checked except where the system may really stop: with `--rm`
reaped, no container is left to ask for (`DockerRecreate`).

### Fairness

`DockerCalls` assumes that the event loop runs each woken task and each
finished call (asyncio does) and that every thread's call ends (docker-py has a
timeout on its connections). It assumes nothing about requests being sent.
`AuthSession` assumes that each handshake settles: `attemptSso` never rejects, and a
`fetch` is answered, refused or given up by the browser; the code itself sets
no timeout. `LogsPage` assumes that React runs the effects of a commit, that
the router ends a navigation and that a timer fires. The page of the latest
data assumes that effects run and that a request which nothing replaces is answered or
fails: the query has a timeout. A request that has failed is not made again by
the page, so no answer to it is assumed, and what the page settles in
(`ViewIsSettled`) is that no effect is due and no request under way. It assumes that
the polls come to rest (`MaxTurns`), for what it claims is that
the page by itself does not go on for ever. Nothing is assumed of users. Every other property is a safety property and needs no
fairness. Deadlock is not checked in the two side-by-side runs, where bounded
clicks, moves and actions run out.

## What the violated runs show

1. **`docker_recreate_overlap`**. A rollback removes whatever bears the name
   its update started from, and takes it for the partial replacement. Two updates
   inspect the container under its own name, and the first renames it to its
   backup name. A third inspects it there, takes that name for the original's
   and renames it to the backup name of the backup. Then the second one's rename
   goes through, since its target is free again, and puts the container back at
   the backup name. The third cannot create its replacement, whose name is taken,
   and its rollback removes the original it finds under that name. No Docker call
   has to fail by itself.
2. **`log_tail_streams`**. `DockerHostClient.logs` reads stdout, then stderr,
   and its docstring says the second call costs a round trip "and nothing else".
   A line written to stdout between the two is older than the newest stderr
   line, which becomes the cursor; no poll asks for it again.
3. **`maintenance_round_trip`**. The form rounds a length that is no preset to
   hundredths of an hour. A window of 605 minutes is 12 seconds shorter after
   it has been opened and saved untouched; the test that says nothing changes
   goes round the form's own decoding.
4. **`metrics_row_toggle`**. A click on a row's head fetches the row's items and
   then toggles them in the selection of the moment it was clicked. A cell
   selected while the request is under way is taken back by its answer; of two
   rows clicked in a row only the one answered last stays selected.
5. **`latest_facts`**. A number found constant over a short range moves to the
   facts and out of its component. The comment promises that a wider range in
   which it varies brings it back; but only the items of the component on the
   screen are asked for and classified, and it is not among them any more.

### Other disagreements met while modelling

The modules state these too, and TLC finds them violated when they are listed;
they have no run of their own.

- `DockerRecreate!FailureLeavesOneRunning`: the docstring of `pull_recreate`
  promises that any failure after the stop restores the original. A container
  started with `--rm` is gone once it has been stopped.
- `DockerCalls!SlowHostCannotStarve`: the comment on `PER_HOST_CONCURRENCY`
  says a slow host cannot starve the others. The global permit is taken first
  and kept in the host's queue, so sixteen calls to one slow host hold back
  every other host.
- `DockerService!NextListReflectsAct`: `invalidate` is "called after a write action so
  the next list reflects it right away". A list that was being fetched while the action
  ran is stored after the invalidation, and is served until it expires.
- `AuthSession!RequestsCarryToken`: a `user.logout` answered after the next
  login clears the new session's token in the client.
- `AuthSession!PasswordLandsOnForm`: the login method is shared by all tabs;
  after a Kerberos login in another tab, a password session that expires is
  renewed as the Kerberos principal.
- `GraylogSearch!PagesDescend`: with deduplication, a deep page that cannot be
  filled from covered rows is cut from a different set of rows than the page
  before it, and may be newer.
- `LogTail!BufferChronological`: the polls of the log do not wait for the first load. One
  that starts before the load has answered has no cursor and asks for the log from its
  beginning; answered after the load, it appends what the load's tail left out: lines
  older than those they stand behind, in a buffer that "stays chronological".
- `MaintenanceForm!TimesStay`: `toLocalDateTime` adds the offset of a time to its clock
  time with `setMinutes`. When the clock is set back within that offset after the time,
  the sum lies behind the change and is read by the other offset, and an hour that
  occurs twice is read back as the first. A one-time window that starts in those hours
  is moved by one or two by being opened and saved untouched.
- `MetricsBrowser!NotRecordedAgain`: the effect that records a selection runs on a change
  of the selection or of the number of its items that are known. When another user signs
  in while the page is open, the cleared cache makes that number drop and rise, and the
  first user's selection is stored among the second one's recent sets. The comment
  (`MetricsPage.tsx:197-198`) says that a user who changes must not re-record.
- `DockerPage!StackPanelIsCurrent`: the mutation of a container "invalidates
  every query whose data an action can change", but not the stacks: an open
  stack panel, which no poll refreshes, keeps the state from before the action.
- `HostDashboard!HiddenChartsComeBack`: an empty card is kept mounted so that it
  can report data later. A section that collapses unmounts all its cards, so after
  a change to a range that has data they stay hidden until somebody opens it.
- `LogsPage!FiltersComeBack`: with a default stream and the list of streams
  still cached, both effects of the first commit navigate; the later one leaves
  the stored filters out, and the empty ones are then stored.

Two more behaviours the `AuthSession` model exhibits and no property forbids,
since no document promises otherwise: a login or a Kerberos click that is
pending while the user logs out still signs in when it succeeds; and a query
that failed with the old token can, within the cooldown, end the session a
renewal has just established.

## What is proved

`DockerServiceProofs` proves for every number of tasks, hosts and permits (from
`CallsAssumption`: finitely many tasks, some host, positive caps) that
`CallsTypeOK`, `PermitsConserved`, `CapsHold`, `NoLostWakeup` and `SomeCallProceeds`
hold of `CallsSafety`. None of them is inductive. The invariant `CallsInv` adds that a
task is in a semaphore's queue or among its granted exactly when its program
counter says so, that no task queues twice, and that the two sets are disjoint.
Conservation then follows step by step: each operation of the semaphore moves
tasks between disjoint sets, and lemmas about `Serve`, `Release`, `Resume` and
about cardinalities say by how much. The caps follow from conservation.

`SomeCallProceeds` is what `EveryCallRuns` can be proved to say without fairness:
nobody ever waits for tasks that all wait. Where a host's queue is not empty one
of its tasks has been woken, or its permits are used up, and since none is lost threads have
them; where only the global queue is not empty, the global permits are used up by threads
or by tasks that queue for a host, which has just been dealt with. That the two
semaphores are always taken in this order is what makes the argument end.

`DockerService` is written as these steps with what they do to the cache, so what holds
of the calls holds of the service (the lemma `ServiceImplementsCalls`, which says
nothing more of the code). The cache theorem `StaleListsAreRaced` needs
`CacheInv`: results exist only after answers, no cached or fetched version and no
action is newer than the world, and an unraced fetch that has its answer is at
least as new as the last action. Without the last part a fetch could end with
an old version and store it untainted.

`AuthSessionProofs` proves type correctness, `OneSession`, `CacheIsOwn` and
`RenewalNeverUndoesLogout` for every number of people, sessions, attempts,
renewals and queries (from `AuthAssumption`: the Kerberos principal is a user,
nobody is not). Only the first two would be inductive alone. `AuthInv` adds that the
session on the screen and the token of every query in flight belong to the user
shown, so a late answer is that user's data and the cache stays their own; that
a renewal never captured a generation that is yet to come; and that after a
logout there is no session, no query and no renewal of the present generation,
so a handshake that ends can only be a superseded one. That generations are
used up by logins and logouts bounds them. `FlagIsNeverLeft` is the safety half of
`FlagIsReleased`: while the flag is set there is a handshake, and the end of any
handshake releases it.

`LoginThrottleProofs` proves from `ThrottleAssumption` (finitely many logins,
addresses and names, no name that is an address, a cap of at least two) that the
table is bounded, that `FailuresBounded` holds, and that `LoginThrottle`
implements `FailureLock`. The first needs that a failure adds two keys and that
half of `Cap + 2` is at most `Cap`. The second is inductive with the
types: a login passes only when the key's count is below the limit or gone, and
a failure turns a login in flight into a count. For the refinement each action is
matched with one of `FailureLock`; the lemma on pruning shows that the entries which
count are what is left after the expired ones are dropped.

`ReadsProofs` proves from `StoreAssumption` (no set is the mark of an empty
slot) type correctness and `StoreImplementsBoard`. The invariant adds to the
types that a file which is not whole reads as empty and that a write under way holds
a list that one owner's change makes of what its request read: the file as it
still is, or nothing if it was blind. The lock gives "as it still is": no second
mutation begins while a temporary file is open.

`DockerRecreateProofs` proves for every number of threads, containers, requests,
faults and releases that the types hold whatever overlaps, and that
`OneInstance`, `OriginalRecoverable`, `RollbackRestores` and `UpdateIsReal` hold
of updates that nobody disturbs; and `SomeCopySurvives` of two updates that overlap in
any way. The invariant `CalmInv` says that names are
unique (the daemon refuses a second bearer), that an idle thread keeps nothing of
an earlier request, that at most one request is at work while one is undisturbed, and of each
undisturbed request, by its step in the code, which containers run
(`OneRuns`), where its original is (`OriginalKept`), what its replacement has
(`ReplacementMade`) and what a rollback still has to undo
(`RollbackReady`). None of the four properties is inductive by itself:
that a rollback removes nothing but the replacement needs that names
are unique and that the original bears the backup's name at that step. The proof takes
each of the code's calls with its outcomes: done, refused, or done with the answer
lost. `CopiesInv`, for `SomeCopySurvives`, follows two
updates at once: for each it names a container that its next steps neither rename nor
remove (`Spared`), and says what it finds while the other has not yet renamed
(`Unopposed`) and that, once both have, they work on one container that they found
under different names (`Apart`). With a third update it is false
(`docker_recreate_overlap`).

`ZabbixAccessProofs` proves from `AccessAssumption` that a route does its work
only on recent word (`ServedOnRecentWord`, whose action `AccessIsRecent` checks), for every
number of requests, times-to-live (of hosts and of the rest) and timeout. `AccessInv` dates everything
that vouches for a fact: what holds now ended no time ago, a cached answer ended at
most its age and a timeout ago, and its age is at most the time-to-live of its lookup, and the word of a call under way at most the
call's age ago. Time is a step that ages all three together and drops what is too old,
so the dates stay true.
`AccessTypeCorrect` gives the types, with what a request may hold at each step.

`ReadsProofs` takes these results, and those of the other parts, to the
specification that `gateway_reads` checks, for every value of its constants
(`ReadsAssumption`: what each part assumes of its own): each part's invariant is inductive for the
cells that hold its variables while the others stand still. For the
statistics `UsageInv` says of any two samples taken in one run of the host, the kept
one and those under way, that between them the container used no more than the host
counted. For the digests `UpdatesInv` dates an answer: one on its way is no
older than its call, a kept one no older than its age and a call. `ReadsTypeOK`
adds the bounds of ages, cursors and buffers.

`LogTailProofs` proves `OneStreamStaysWhole` of a container with one stream: once a load
has answered with no poll under way, and while the buffer has room, it
shows the log in order and without a gap from its first line on. Nothing is asked of how
long loads and polls take: polls may start while the load is under way and end before
it, and overlap one another at will. A poll that is under way when a load answers does
break the order, as `BufferChronological` shows, so `from`, which
marks what is covered, is set only by a load that answers with none. `TailInv` says of
every load and poll under way that what it has got is unbroken up to its newest line, and
that a poll begins where the buffer ends or before (`PollWhole`). Once the buffer is
full that is no longer so: a poll that overlaps a newer one brings lines back that
have been trimmed, and they are put behind newer ones. The attempt to prove the property
without the bound on the buffer found this.
A buffer is the sorted sequence of a finite set, so its proofs rest on lemmas on the
rank of an element.

The search (`SearchIsSound`) holds of every number of servers and messages, with a
`Cap` that is no less than a page. `JoinKeeps`: a message that comes after all others leaves rows
that divide what was merged, each sound (`Groups`), no two of which could be
one (`Apart`); `StepsKeep` carries this through the recursive function by a least
counterexample, since there is no induction to cite. What a page
shows is then counted: `CutIsTop` and `ShortCutIsAll` say what a cut leaves out, and
`RowsOfOneServer` that messages of one server are in as many rows, so that a page's worth of
newer messages of a server leaves no room for an older row (`CutMissesOld`). With the watermark that is the
first page (`FirstPageHasNewest`), and from page to page without deduplication it is
`Below`: nothing further down in a server's log is newer than what is shown.

`PagesProofs` does the same for the nine parts of `spa_pages`. The data that pages show
are constants too: the theorems hold of every list of items, hosts, problems,
maintenances and metrics, every query, link and user, and every limit, for which
`PagesAssumption` asks what the code or the server's answer guarantees. Items have
an id each; the ids of metrics are integers, a query matches some of them, a link gives no id
twice, and at least one recent set is kept; a range lies within the history; severities are 0
to 5; a recipe's query is tokens and then text. Of templates, histories, names and maps it
asks nothing.

- *Lists* (`ListsAreCurrent`). `Sane` relates an entry of the query cache to the
  answers the server would have given since the last action that ended: what is on its
  way is one of these, and so is what is shown, unless it is marked; and a marked
  entry on the page is being fetched or has failed (`Heeded`). For the
  containers that is inductive (`ContainersInv`). For the problems it is not while an
  optimistic edit is on the page: `ProblemsInv` has it only while no action is
  under way, and needs that an action cancels the fetches before it edits, so that no
  older answer comes back, and that only the last action to end marks the lists.
- *Balance* (`BalanceAgrees`): by cases on a row, for every list and filter.
- *Storage* (`StoredIsShown`). `LogsInv`: what is stored, after the restore, is what
  the effects last saw or nothing; and a page that was just opened still has effects to run.
- *The no-data bar* (`CollapseIsEarned`). `SectionsInv` says that whatever a section or
  one of its cards, shown or not, says of no data has been answered so; every change
  of the page goes through the same rendering, for which one lemma suffices.
- *The charts of a host* (`ItemsHaveTheirPlace`). `NoItemIsLost` holds of every list of
  items: `IsList` asks for a finite set with an id per item
  in which only a container's item is classified as one (what `classifyItem` and
  `isContainerItem` guarantee together), and for a positive
  `MAX_CHARTS_PER_SECTION`. Instances divide the items and families divide the
  instances; `RanksRise` and `OneIsFirst` say what "fewer than `Cap` rank above it" leaves
  of a family, so that what is cut is counted and has no greater value
  (`ShownRankHighest`); the charts of the four kinds are told apart by their ids
  (`ChartsStandApart`).
- *The stage of the topology* (`StageShowsAll`). `NoHostIsLost` holds of every list of
  hosts and every set of problems of severities 0 to 5: each kind of ring
  divides its cluster, by name, by quiet hosts or one by one (`RingDivides`), and a
  shared node has no host that `StaysAlone` would have kept out. What is inductive is that the
  problems are of such severities.
- *Maintenance* (`UntouchedSaveIsHarmless`). `RoundTrip`: for every entry that the form
  can show and shows exactly, what is encoded of what was decoded means the same, by
  cases on the recurrences. `FormInv` says that an untouched form holds just that,
  through polls, removals and requests under way. The times of an
  entry go through the local clock and back: `ToLocal` followed by `FromLocal` gives
  the time itself when the clock is not changed within a day of it (`Calm`), for
  offsets of up to 14 hours that differ by at most two (`ZoneAssumption`). Nearer to a change it is
  false (`TimesStay`). The rest of `MaintenanceAssumption` is what
  the Zabbix API guarantees: times in whole minutes, and nothing in a field that the type does
  not use.
- *The search* (`SearchIsWhatIsTyped`). `MetrInv`: what came back was found with the ids it
  was asked for, and a query with a scope was asked only after its lookup had ended; the
  sets in memory are those stored for the user they were loaded for, and no two sets
  stored for a user have the same items (`AllDiffer`): recording drops the one alike
  before it puts the new one in front (`RecordedDiffers`). When the user changes, what the
  queries had answered is gone, so no matrix is another user's. That a recorded set is
  what its user selected is not claimed: it is false (`NotRecordedAgain`). `BarInv`: the query is its tokens and
  then its text (`Parsed(value) = value`). That is what makes an edit safe that leaves
  the query as it was, so that no effect runs: the field then holds the query's
  text already (`UnchangedText`).
- *Types* (`PagesKeepTypes`). Each page has an inductive invariant of its own, of which
  the metrics' says most: no metric is selected twice (`NoneTwice`). A toggle either filters
  the selection, which keeps its order (`KeptInOrder`), or appends the ids it lacks, each
  once, in their order (`SortedIsOnce`: every place in the order of a finite set of
  integers is taken, `EveryPlace`); and what is restored, from a link, from the recorded sets or
  from the click that asked for a row, was such a selection when it was stored. The
  topology's needs that clusters of a tab are told apart by what they are of, a host page's
  that a section's cards are dropped with their charts.

The proof of `NoItemIsLost` failed at first, for a good reason: `NothingIsLost` let
any item marked idle go without a chart, a container's too, though only the CPU
bundle drops what is idle (`applySemanticBundles` sees no container's items). The property
now excepts just those.

The proofs assume nothing else; every obligation is discharged by SMT, Zenon or
the temporal-logic backend. TLC checks the same formulas on the instances above.

Only model-checked: the liveness properties `EveryCallRuns`, `FlagIsReleased` and
`PagesSettle`, which are out of the prover's reach. Every invariant and every other
property of a passing run is a theorem. Two theorems say what no run checks apart:
`CapsHold`, which follows from `PermitsConserved`, and `FlagHasHandshake`.

## Not modelled

`PROJECT.json` gives a reason for each component. In short: rendering, wording
and layout; parsing of configuration; floating-point formulas (geometry,
downsampling, pan and zoom gestures); the create arguments of a container; the
tables of hosts and web scenarios, which are functions of one answer; panels and
charts; the world map; InfluxDB queries; the demo backend. The default
thread pool may be smaller than the global cap on a small machine; the model
assumes a thread for every permit. Of the modelled pages the runs take one at
a time: they share the browser session, which `AuthSession` covers, and
nothing else.

## Plan

What would add most next:

1. The rest of the Docker service: summary cache, `search` over hosts, compose
   actions with their timeout.
2. The metric query language (quotes, wildcards) as an operator against a
   reference definition, and the gestures of `usePanZoom`, whose set of pointers no
   lost pointer leaves.
3. Refinements for the caches (`RegistryUpdates`, `DockerStats`) in the manner
   of `FilterBoard`.
