# sse-proxy: a TLA+ model of the event proxy

sse-proxy is one Go process (`src/main.go`, `rbac.go`, `auth.go`, `audit.go`) that reads
Kubernetes events from the ClickHouse table `otel_logs` and serves them to browsers: live, as
server-sent events (`GET /notifications`), and on demand (`GET /events`, `GET /audit`). What a
caller sees is limited to the namespaces its own Kubernetes RBAC lets it observe.

This directory has the TLA+ modules that model it, the configurations with which TLC checks
them on small instances, and proofs, checked by TLAPS, of what holds for every size.

    tlc -workers 2 -config MCPoller.cfg MCPoller     # one run; PROJECT.json lists them all
    tlapm PollerProofs.tla                           # the proofs of one module

## 1. Inventory

| Part (source) | State | Operations | Talks to |
|---|---|---|---|
| hub (`main.go` 133-239) | `clients` under an RWMutex; per client a buffered channel, a topic and a scope that are fixed at connect time | `register`, `unregister`, `broadcast`, `count` | called by the poller and by the SSE handlers |
| SSE handler (`handleSSE`) | the client it made | connect, receive and write a frame, leave | hub, RBAC scoper |
| poller (`poller`) | `lastSeenUnix`, the locals of `poll`, the ticker's channel | `run`, `tick`, `poll` | ClickHouse, hub, metrics |
| ClickHouse queries (`pollSQL`, `eventsSQLTemplate`, `buildAuditQuery`, `queryClickHouse`) | none | select, order, cut, decode | ClickHouse over HTTP |
| `/events` (`handleEvents`, `queryEventsWindowed`) | the window it is at | newest window first, unbounded query last | ClickHouse, RBAC scoper |
| `/audit` (`audit.go`) | none | refuse without scoping, one query | ClickHouse, RBAC scoper |
| RBAC scoper (`rbac.go`) | a cache of scopes with a TTL, one per scoper | `scopeFor`, `resolve` (parallel SubjectAccessReviews under a semaphore) | Kubernetes API |
| authentication (`auth.go`) | keys (in `jwtutil`) | `requireBearer` | authn's JWKS |
| router, CORS (`newRouter`, `cors.go`) | none | which path needs a token | handlers |
| process (`main`) | a context, the server, the goroutines | start-up checks, signals, shutdown | all of the above |
| telemetry (`telemetry.go`) | the OTel providers installed | resolve the gates, install, shut down in `main`'s deferred call | OTLP endpoint |
| metrics (`metrics.go`) | three counters, a gauge | fed by `poll`; the gauge calls `hub.count` | telemetry |
| logging (`logging.go`) | none | | |

What is hard in it, and what has to hold:

* **Concurrency.** Handlers, the poller and the signal goroutine run at the same time. A channel
  is closed by the handler and sent on by the poller; a send on a closed channel panics. A row of
  a composition is broadcast twice, with the lock released in between. *No send on a closed
  channel; every broadcast accounts for every registered client; no row twice.*
* **Ordering.** The collector writes rows late, in any order; a row's second may be over for the
  cursor when it arrives. *What is sent is in order and the cursor never goes back; what is
  skipped is known.*
* **Limits.** A buffer holds one page. *A client that keeps up never loses a row, and a loss is
  counted.*
* **Tenants.** Scopes are computed from many calls, some of which fail, and cached. *No scope is
  partial, older than its TTL, or another caller's; no row goes to a caller who may not see it.*
* **Failure.** Polls fail or are never answered, reviews fail, exporters cannot be made, the process
  is restarted or told to stop. *No duplicate after a retry; nobody waits for ever; a signal ends
  the process; it starts with authentication and scoping or not at all.*

## 2. Modules

    Scope ── OtelLogs ─┬─ Poller ── PollerProofs ── FeedProofs ── LossProofs
      │                │   │ └───── LiveFeed    (Poller implements it: INSTANCE ... WITH)
      ├── Hub ─────────│───┘                    (Poller EXTENDS Hub and OtelLogs)
      │    └─ HubProofs│
      │                └─ Rest ── RestProofs
      └── RBACScoper ── ScoperProofs            Lifecycle ── LifecycleProofs

* **Scope** `nsScope`: nil (scoping off), everything, or a set of namespaces; `Allows` and
  `Restricted`, and `scopeHeaderValue`, which announces it. The empty namespace of a cluster-scoped
  object is no namespace's name.
* **OtelLogs** rows as the queries return them, and what `ORDER BY ... LIMIT` may leave of a set of
  them. A row has an id (it stands for the columns that only go into the payload), a second, a
  namespace, a composition id, and whether its line decodes. The order inside a second is open.
* **Hub** the clients' map, its lock, the channels, and one handler per connection slot. `msg` is
  the argument of the broadcast in progress, and is also the read lock: `Register` and
  `Unregister` need `msg = NoMsg`. `Visit` is one turn of the range loop (skip, send, drop).
  `CloseChan` is a step of its own because `unregister` closes the channel after it has unlocked.
  `queue[c]` is all that was ever sent on a channel, `taken[c]` how much of it was received.
* **Poller** the poller goroutine composed with Hub, with the table, the wall clock in seconds, and
  the ticker (a channel of one: ticks that find it full are lost, the one in it grows stale).
  `phase` follows `tick`, `poll` and the two broadcasts of a row; the actions of the handlers are
  Hub's. `Restart` is a crash at any point. `published`, `left`, `cut`, `behind` and `owed` are
  history that properties read and no guard does.
* **LiveFeed** what `/notifications` promises, without hub, topics, polls or locks: per subscriber a
  bounded feed of rows it is entitled to, once each and in order; a row lost only while the feed is
  full; two counters that are exactly what was sent and lost. It models no code; `Feed` in Poller
  is the refinement mapping (a channel is open: subscribed; the metrics plus what `poll` and
  `broadcast` have not yet added to them: the counters) and `ImplementsFeed` the claim.
* **RBACScoper** `scopeFor` and `resolve` for several concurrent requests: cache lookup under the
  lock, the cluster-wide review, the namespace list page by page, one goroutine per namespace under
  the semaphore, the store. The cluster's permissions (`acl`) and namespaces (`existing`) change
  while all this runs, and calls fail. Later pages show the state of the first, as the API's
  continue tokens do. `/events` and `/audit` have a scoper each if audit scoping is configured apart.
* **Rest** one request through CORS, `requireBearer`, and the handler of its path, to the reply;
  for `/events` the windows one by one, with rows arriving between their queries. The scope is any
  that RBACScoper may return; the reply has the scope header where the handler sets it. A request
  for `/notifications` ends where Hub's `Connect` starts.
* **Lifecycle** `main`: what `loadAuthConfig`, `loadRBACScoper`, `loadAuditScoper` and
  `setupTelemetry` make of the environment variables, `ListenAndServe`, the signal goroutine with
  `cancel` and `Shutdown`, the poller's loop as seen from there, the deferred shutdown of the
  telemetry providers, and the end of the process, which is when `main` returns, whatever the
  goroutines are doing. An environment tells unset, empty and blank variables apart.

The MC modules give the constants values. A name that ends in `_Something` next to a
definition is a mutant of it: the definition with a plausible mistake, with which the run that
PROJECT.json names must fail. Mutants are used nowhere else.

## 3. Runs

| Run | What it asks |
|---|---|
| `hub` | two connections come and go, one may never read, buffers hold one message: `NoSendOnClosed`, `FanOutAccounted`, `BroadcastEnds`, `DepartedIsFreed`, `StreamReachesReaders` |
| `poller` | two clients at once, of the global topic without scoping and of a composition in one namespace; three rows in two seconds, one cluster-scoped; pages and buffers of two rows; a failing poll: `AtMostOnce`, `InOrder`, `OnlyEntitled`, `OnlyBehindDrops`, `NoSilentLoss`, `CursorNeverBack`, `CursorPassesPublished`, `ImplementsFeed` |
| `poller_live` | four rows, one of them undecodable, a failing poll, a restart, queries that are never answered: `HandlersNotHeldUp`, `VisibleRowsAreReached`, `IdleCursorStaysLive`, `ImplementsFeed` |
| `scoper` | two requests on two endpoints by callers that share a username and differ in groups, a permission or a namespace that changes, a call that fails: `NoStaleGrant`, `NoStaleDenial` |
| `scoper_live` | three namespaces, pages of one, two slots, any permissions, two changes between any two steps, failing calls: `NoStaleDenial`, `EveryRequestEnds` |
| `rest` | every way to present credentials, every path, limits below, at and above the default, scoping on and off, rows in each window: `OnlyEntitledRows`, `WindowedIsUnbounded`, `EarlierRowsAnswered`, `AnnouncedScope` |
| `lifecycle` | every combination of the authentication, of the scoping and of the telemetry variables, a signal at any point, exporters and a listener that fail: `NeverHalfScoped`, `StartsIfConfigured`, `SignalEndsProcess` |
| `poller_gaps`, `poller_watermark`, `rest_none_header`, `lifecycle_graceful`, `lifecycle_no_source` | sentences of the repository that the code does not live up to (section 6) |

**Bounds.** Two seconds of rows are the least in which a row can be late for the cursor and another
ahead of it; with two rows in one second a poll between two inserts, or a page that ends there,
cuts through a second. Two connection slots are needed for one client to drop while another does
not; a slot is reused once it is free. The third row a client is sent finds its buffer full if it has
not read. The collector's inserts are batches, so that the instance with two clients stays small;
`Batches` says which. `MaxSent` (in `hub`) cuts the history of a channel: once a client has been
sent that many messages the broadcasts rest until its slot is free again. A client that does not
read never gets there, since its buffer holds one message, and one that has received nothing has not
got there yet: the behaviours in which `StreamReachesReaders` could fail are not cut. `MaxBoots` (processes in a row), `MaxPollErrors`, `MaxChanges` and `MaxErrors` are one or
two: each failure is followed by the recovery the properties are about, and a second one starts from
a state like the first. Restarts are in `poller_live` and not in `poller`, whose two clients are
enough states. Two cases are beyond the instances and covered by the theorems alone: an entry of the
scoper's cache that a slower, older request overwrites and a third one reads, and a page that LIMIT
cuts inside a second in `CursorPassesPublished`. `PageLimit` of one and three namespaces give a first, a middle and a last page. The
clock runs a few seconds because the cursor and the TTL compare times only for order; `Lookback`
and `TTL` are one second. In `lifecycle` the environments vary in their authentication, scoping and
telemetry variables one group at a time, since these are read by different functions.

**Fairness.** *Hub*: the broadcasting goroutine and handlers with work are scheduled (weak), and a
writer that waits for `h.mu` gets it although broadcasts take the read lock again and again
(strong): Go's RWMutex blocks new readers once a writer waits. No client is assumed to read;
`StreamReachesReaders` has as its antecedent that this client does (weak fairness of `Take`) and that
something it wants keeps being published (strong fairness of `BroadcastBegin`). *Poller*: the ticker fires, the poller is scheduled, and handlers get the lock as in Hub.
Nothing is assumed of clients, nor of ClickHouse: `outboundClient` has no timeout, so a query that is
never answered stops the poller for good. `HandlersNotHeldUp` holds all the same; the two properties
of the cursor have `ClickHouseAnswers` (strong fairness of `QueryOk`) as their antecedent, and do not
hold without it. *RBACScoper*: calls of the Kubernetes API end (the in-cluster client has a 10 s
timeout; the one that `KUBERNETES_API_URL` makes for tests has none). No call has to fail.
*Lifecycle*: goroutines run and the shutdown timers expire; requests and the poller's query need not
end, and nothing has to fail: `ServeFails`, which would end every process, is outside `MainStep` for
that reason.

**Deadlock** is checked in every run; where a model comes to its end (`Quiet`, `Replied`, `Ended`)
an explicit stutter says so.

## 4. What is proved

Every invariant and action property that a run expects to hold, and the refinement of LiveFeed, is
also a theorem: for any sets of connections, topics, namespaces, compositions, rows, callers and
requests, any page size, buffer, lookback, time to live, windows and limits, any environment, and
any number of restarts and failures. In each module the argument is an inductive invariant (the
initial states have it, every step keeps it, it implies the property), with one lemma per group of
actions.

**Hub** (`HubProofs`)

* `HubTypeCorrect`, `HubNeverSendsOnClosed`: the channels' bound, and no send on a closed channel.
  The latter is not inductive. `HubInv` adds that the map has exactly the clients whose handlers
  are between `register` and `unregister` (`MapMatchesHandlers`), that a channel is open until
  its handler is through with `CloseChan` (`OpenUntilClosed`), and that a broadcast ranges over a
  part of the map (`LoopWithinMap`), which the lock preserves.
* `HubFanOutAccounted`: `FanOutInv` adds that the tally is the number of clients served so far, which
  are those in the map that want the message and are not still to visit. Counting needs a finite
  map, and that is itself part of the invariant: clients join one at a time. Nothing is assumed of
  the set of connections.

**The live path** (`PollerProofs`, `FeedProofs`, `LossProofs`)

* `PollerImplementsHub`: `Spec => HubSpec`. The composed system uses the hub only through its
  operations, so that `PollerNeverSendsOnClosed` and `PollerFanOutAccounted` follow. This needs
  `LoopInv`: what poll hands to `broadcast` is a message on a topic of the hub.
* `PollerTypeCorrect`, `CursorMonotone`.
* `StreamAtMostOnce`, `StreamInOrder`, `StreamOnlyEntitled`. The invariant is about each row on
  each channel (`SentOK`): the stream's front is at or past it, the page in progress does not have it
  any more, and if it is the row being published then the broadcast that could send it again has
  passed this client or is on the topic that this client does not have. The step that matters is
  `SendIsNew`. It needs that the global topic is no composition's id, and that pages are published
  oldest first from rows after the cursor (`CursorInv`).
* `CursorPassesOnlyPublished`, from `LeftInv`: what the query could see is published, or on the
  page, or behind a page that LIMIT has cut.
* `PollerImplementsFeed`: the refinement. Every handler's step is LiveFeed's Subscribe, Receive,
  Unsubscribe or a stutter (`HandlersRefineFeed`), a turn of the broadcast's loop is Deliver, Lose
  or a stutter (`BroadcastRefinesFeed`, from `SendIsNew`), a restart is NewProcess. `CountInv` says
  where the counts are: nothing is in the tally without a broadcast or in `poll`'s sums outside it,
  so that handing them on (`BroadcastEnd`, the end of `poll`) changes no total.
* `DropsOnlyBehind`: for a client that was not behind when the page came, its backlog plus the rows
  still to come for it, the current one included until the broadcast that may send it has passed,
  are at most a page (`RoomInv`), and the buffer holds a page.
* `StreamLosesNothingSilently`: while nothing was lost, a row owed to a client is on its channel, or
  is the current row and the broadcast on the client's topic is still to reach it (`OwedInv`). The
  step that matters is that poll's two broadcasts together reach everybody who may see a row.

**The RBAC scoper** (`ScoperProofs`)

* `ScoperTypeCorrect`, `ScopeNeverStaleGrant`, `ScopeNeverStaleDenial`. The idea is
  `ScopeOK(S, s, u, t)`: the scope S is what rule s grants caller u, but for what has changed at time
  t or later. Nothing the administrators do can make that false, because what they change they
  change now (`Dated`, `ScopeKept`). A cached scope has it for the start of the request that stored
  it, which is its expiry less the TTL (`CacheInv`); a resolved one for its request's start, and one
  that was read from the cache for less than a TTL before (`ResultInv`). While `resolve` runs
  (`ResolveInv`), each namespace that is granted and has not changed since the start is unlisted, to
  be checked, under review, allowed, or lost to an error, and then `Collect` gives no scope at all.
  The first page needs that bindings are only in namespaces that exist (`AclInv`). `RBACScoper`
  assumes of the callers what a record of username and groups means: equal fields, equal callers.

**GET /events and GET /audit** (`RestProofs`)

* `RestTypeCorrect`, `RestOnlyEntitledRows`: the invariant follows the request
  from `requireBearer` (`Admitted`) to its reply, which no later step changes (`ReplyInv`).
* `RestWindowedIsUnbounded`, for any windows of which the last is unbounded. The lemma on the queries
  is `FullPageIsUnbounded`: a page that fills the limit within a window is a page of the whole table,
  since all that lies before the window is older. The loop ends only with a full page or without a
  bound (`LastWindowIsUnbounded`). `RestEarlierRowsAnswered` follows with `PushedOut`.
* `ScopeIsAnnounced`, under the hypothesis that no namespace is called `none` or `*`, which
  `rest_none_header` shows to be needed (of `none`; Kubernetes admits no namespace `*`).

**The process** (`LifecycleProofs`)

* `LifecycleTypeCorrect`, `ProcessNeverHalfScoped`. `StartInv` says what has been configured by the
  time `main` is at each of its points, and that a process that has accepted a request was configured
  and is serving, in its deferred calls, has returned, or was ended by a listener that failed: it was
  not killed by a signal before the handler was there, nor ended by `os.Exit` in start-up. `StopInv`
  orders `cancel` and `Shutdown`.

The assumptions are those of the modules (`HubAssumption`, `PollerAssumption`, `ScoperAssumption`,
`RestAssumption`, ...): names are disjoint where the code relies on it, sets of rows are finite, the
buffer has the size of a page, requests have the fields a request has. TLC evaluates them in every
run. Only `ScopeIsAnnounced` has a hypothesis of its own.

Only model-checked: liveness under fairness (`BroadcastEnds`, `DepartedIsFreed`, `StreamReachesReaders`,
`HandlersNotHeldUp`, `VisibleRowsAreReached`, `IdleCursorStaysLive`, `EveryRequestEnds`,
`StartsIfConfigured`, `SignalEndsProcess`), which is outside this prover's reach, and the five
violations, which are counterexamples.

## 5. What is not modelled

* Logging, what OpenTelemetry exports and when, the text of headers (other than the announced
  scope), frames and error bodies, keepalive pings: none of them is read by another part.
* A failing `initMetrics` leaves `metrics` nil, and then nothing is counted; Poller has the counters.
* What makes a token valid (`jwtutil`, JWKS refresh): a token is valid, invalid, or its key cannot
  be had. The durations that `loadAuthConfig` hands to `jwtutil` and the variables of ClickHouse
  and the listener, which are passed on as they are.
* `clickhouseArrayParam` refusing a namespace that is no RFC 1123 label: names come from the
  Kubernetes API.
* That `/audit` sets the scope header without exposing it to other origins, as `/notifications` does.
* The growth of the scoper's cache, which never evicts an entry.
* A collector whose clock is ahead of the proxy's: rows are stamped at or before the proxy's time. With
  such a skew the cursor of `poll`, which is a row's timestamp, would run ahead of the clock too.
* Cache keys that meet: `cacheKey` (`rbac.go:456`) gives a caller without groups and one whose only
  group is the empty string the same key. No binding can name the empty group, so both have the same
  scope; `CacheKey` tells them apart.
* What `shutdownTel` does with errors: it joins and logs them, after the last provider.
* A clock that jumps back; the fraction of a second in timestamps, other than as an open order
  inside a second.
* Manifests, the Dockerfile, examples.

## 6. Where the code and its documentation differ

* `StreamHasNoGaps` (run `poller_gaps`). "globalTopic carries every event"
  (`main.go:179`). The cursor is a whole second and the next query starts a second later, so a row
  of the cursor's second that is written after the poll, or that LIMIT cut off, is never
  streamed, nor counted as dropped. `CursorPassesPublished` says what does hold.
* `ResumesFromWatermark` (run `poller_watermark`). "The poller resumes from its watermark on
  restart" (`docs/overview.md:52`). The cursor is in memory; a new process starts 30 s before now.
* `GracefulShutdown` (run `lifecycle_graceful`). "Graceful shutdown on SIGTERM/SIGINT"
  (`main.go:981`). `ListenAndServe` returns when `Shutdown` starts; `main` then returns, and
  requests in progress are cut off.
* `RefusesWithoutSource` (run `lifecycle_no_source`). "If `URL_AUTHN` and `JWT_JWKS_URL` are both
  empty the proxy refuses to start" (`README.md:36`). `getEnv` takes an empty variable for an unset
  one, so the default `URL_AUTHN` applies and the proxy serves; only white space makes it refuse.
* `AnnouncedScope` (run `rest_none_header`; it holds in `rest`, where no namespace has that name).
  "`none` IS AN EXPLICIT TOKEN" (`rbac.go:150`) for the empty scope, and also a legal name of a
  namespace.
* Without a run: `main.go:144` and `docs/overview.md:45` say that a client without a topic gets
  every message; `wants` gives it the global topic only, and `AtMostOnce` depends on that.
  `docs/overview.md` also says that `/events` filters by the object's uid; the code filters by
  the composition id. `docs/configuration.md:131-132` says that with scoping off "`/audit` is not
  namespace-filtered", and `rbac.go:421-422` that "/audit must not invent an enforcement the rest of
  the proxy is not applying"; `handleAudit` (`audit.go:224`) answers 503 in that case, as
  `docs/configuration.md:136-140` says a few lines on, and the last conjunct of `OnlyEntitledRows`
  takes this side. `metrics.go:8-9` says that the delivered counter is "incremented per event the
  poller fans out"; `poll` adds what `broadcast` has sent, one per client and message, and that is the
  counter of `ImplementsFeed`. The same comment and the one of `initMetrics` do not know the dropped
  counter.

## 7. Plan

Done: all components of section 1 that carry logic are modelled and checked; LiveFeed is implemented
by Poller, checked and proved; every safety property is proved in general. Next, in this order:

1. The seams between modules as theorems: that what `scopeFor` returns is what Hub and Rest assume of
   a scope (never nil while scoping is on), and that Lifecycle's scopers are the rules of RBACScoper.
2. An abstract specification of `/events` (one atomic query) that Rest implements.
3. Shorter proofs where steps repeat themselves.
