# A TLA+ model of BEACN

BEACN is an event service: producers publish events over HTTP, the service
stores them and delivers them to consumers over WebSocket or SSE, on one server
process or on several behind a load balancer that share a database and,
optionally, Redis. This directory models the parts of it where the order of
steps matters: what publish requests do to each other and to the store, how
events reach the other processes, what a connection goes through, what a
consumer that reconnects can miss, what operators do to keys, accounts and
sessions at the same time, and what the clients (the SDKs, the dashboard, the
shell, the Celery signals) make of all this. TLC checks each model on a small instance;
TLAPS proves nearly all of the safety properties for every value of the constants.

Paths below are relative to the repository root.

## 1. The system

| Part | State | Operations | Talks to |
|---|---|---|---|
| Identifiers `domain/ids.py` | `_last_ms`, `_last_rand` under a lock | `new_id` | every writer |
| Ingestion `app/services/ingest.py`, `POST /api/v1/events` | `event_idempotency`, `events`, `tasks`, `notifications`; one topic cache per process | `ingest`, `_dedupe`, `_topic_settings`, `Task.apply_event`, `Notification.from_event`, the sweep of old markers | database, event bus |
| Event bus `realtime/bus.py` | seen set, subscribed channels, degraded flag, the listener's connection | `publish`, `_listen`, `_ensure_subscribed` | Redis, local hub |
| Realtime sessions `realtime/session.py`, `realtime/__init__.py`, `domain/topics.py` | session registry, hub rooms, one `connections` row per connection | `run`, `_handle`, `shutdown`, `Realtime.publish`, `stop`, operator termination, the reaper | hub, database |
| Replay `app/services/replay.py` | reads `events` | `replay`, `_do_replay`, REST replay | database, the connection's socket |
| Rate limiter `app/services/ratelimit.py` | token buckets in memory | `check`, `prune`, `snapshot` | publish handlers |
| Retention and repair `app/jobs.py` | – | prune events, tasks, markers; reap connections; refresh counters | database |
| SSE `routes/api/realtime.py` | the peer's queue, the sink queue, hub memberships and a row per stream | stream, ping, close, reap | hub, database |
| History `app/services/history.py`, the list routes | reads events, tasks, notifications, the audit log | one page from a cursor | database |
| Control plane `routes/api/control.py`, `app/auth.py`, `app/authz.py`, `database/models/identity.py` | producers, API keys, accounts, groups, sign-in sessions, audit log, topics | create, rotate, revoke, disable, change a role, sign in and out, upsert topics, terminate connections | database, topic cache, sessions |
| Credentials `app/auth.py`, the v1 routes | API keys, operator sessions, signed realtime tokens | check, mint, expire | control plane, sessions |
| Dashboard `routes/web/` | the session cookie in the browser | the page guard, sign in and out, pages and their reads | control plane |
| CLI `cli/` | the credentials file | one command at a time, login, logout | control plane, v1 routes |
| TypeScript SDK `sdk/typescript/src/beacn.ts` | socket, subscriptions, pending requests, reconnect timer, `lastEventId` | connect, subscribe, replay, disconnect | WebSocket, token endpoint |
| Python SDK `sdk/python/beacn.py` | retry state, the consumer's last id | publish with retry, consume, page through a listing | HTTP, SSE, WebSocket |
| Celery signals `integrations/celery.py` | none of its own | one publish per signal | Python SDK |
| Storage, documentation pages, Django, deployment, observability | – | boot, text, helpers, configuration | – |

Every server process is one asyncio event loop. Coroutines interleave where
they `await`, so in the models **a step ends at each await**: at a database
call, a Redis call, a socket write. What was read before an await may be stale
after it. Only `domain/ids.py` is also called from several threads and uses a
lock. Processes share only the database and Redis.

What is hard here, with the property that makes each part correct:

- *Ingestion.* Two publishes with one idempotency key may race, on one process or
  two, and be retried while the first is under way; a database error or a crash
  can fall between claiming the key and storing the event. Correct: at most one
  event per key, every answer names it, nothing is fanned out before it is
  stored, one-hop propagation with cyclic topic lists, every request ends.
- *Event bus.* Redis loses what nobody is subscribed to, a call can time out
  after it took effect, a connection can break while a call is under way. Correct: at
  most one local delivery, publishes end though Redis is gone or its calls fail,
  listeners recover.
- *Sessions.* The socket's end, an operator and the server's stop may shut a
  session down at once, while it awaits a query. Correct: hub, session and row
  agree; nothing is left behind; no subscription without authorization.
- *Replay.* Retention, paging, live frames, a bounded queue and reconnects all
  move while a consumer follows a cursor. Correct: what it misses is exactly
  what was shed, pruned or made visible out of order.
- *TypeScript client.* Opening a connection waits for a token, a handshake and a
  welcome, and the application, timers and other sockets act meanwhile; requests are
  matched with answers by topic only. Correct: never left without a way back,
  connected in the end, subscriptions restored, every call ended.
- *Control plane.* A request checks its operator, reads a row, and writes it
  some awaits later; a save without `update_fields` writes every column of a
  copy that may be stale; disabling, role changes and rotation are several writes.
  Correct: what is revoked stays revoked, a disabled account has no
  session, an account has one role, somebody can still manage accounts, rotation
  leaves the producer a working key.
- *Credentials.* A realtime token is never looked up once signed, a request
  passes its checks in several awaits, a WebSocket outlives its token, a cookie the
  session behind it. Correct: access ends a bounded time after what the code
  checks is withdrawn.
- *Dashboard.* The cookie and the session row behind it can disagree, other tabs
  and administrators act between the two awaits of the guard. Correct: no
  endless redirects, no page for one who had lost the right before asking.
- *CLI.* Several terminals share a file that is emptied before it is written; an
  answer is lost, a command interrupted. Correct: no live session the operator
  does not know of, but for named reasons.
- *Python SDK, Celery.* An attempt given up may still be running on the server;
  a consumer's topics share one last id; a retried task repeats its signals.
  Correct: a call stores its event at most once and ends, a consumer misses only
  what the design gives up, a finished task is shown as finished.
- *Listings.* Rows appear out of order, change and vanish between two pages.
  Correct: nothing twice, nothing left out that was there throughout.
- *Rate limiter, identifiers.* Arithmetic at the boundary: rounding, overflow,
  clocks that stand still or go back.

`PROJECT.json` lists these hazards one by one with the line where each bites.

## 2. The modules

### `Ulid`: `domain/ids.py`

`Enter(t)` takes the lock, reads the clock, compares it with the globals and
computes the next pair; `Leave(t)` stores the pair in the globals, releases the lock and
returns the id, which joins `issued`. The clock
is any value at any time, so it stands still and goes back. Ids are pairs
`(ms, rand)`; `Candidates` gives the ones the code can draw, with the
increment and its overflow into the next millisecond; `Encoded` writes a
pair as digits, the loop of `_encode` (`Shifted`) filling them from the last to the
first; `EncodingAssumption` says that they hold both fields. The module's
`UlidInit`, `UlidNext` and `UlidSpec` are named apart from those of the modules
with which it shares a run or a proof module; so are `RateInit` and `SessionInit`.

### `Ingest`: the pipeline

A request (`r`) is a batch handled by one process, `Home[r]`. `pc[r]` names the
await it is suspended in:

| `pc` | in `ingest.py` |
|---|---|
| `dedupe`, `claim`, `reread` | `_dedupe`: look the key up, insert the marker, read the winner's |
| `settings`, `fill` | `_topic_settings`: query on a cache miss, then fill the cache |
| `store` | `Event.create` |
| `apply`, `save` | `Task.apply_event`: read the row, save every column |
| `notice` | `Notification.from_event` |
| `fanout` | `realtime.publish` |
| `route`, `refill` | `_propagate_targets` |

The nested call for propagated copies is `hop[r]`, the targets still to do; a
copy goes through `settings` .. `fanout` and never through `dedupe` or `route`.
The actions that fail or die (`DatabaseError`, `SwallowedError`, `Crash`) follow
the `try` blocks: errors in the task and notification writes and in fan-out are
logged, an error in the nested call ends the propagation, any other ends the
request. Operators save topic rows (`UpsertTopic`, `InvalidateCache`), the
sweeper deletes markers (`SweepIdempotency`).

`IdempotentPublish` is what the pipeline promises about keys: a key has at most
one owner, and what becomes visible under a key belongs to its owner.
`ImplementsPromise` is that specification under the mapping
`owner <- marker, visible <- events \cup fanned`.

Abstracted: validation (an envelope in a batch has passed it), payloads, the
producer statistics. Keys stand for (environment, producer, key) triples.
Publishes without a producer have a null in that triple, for which SQL's unique
constraint does not hold; the HTTP handler always has one.

### `RedisBus`: `realtime/bus.py`

`ppc[e]` is where the publish of event `e` awaits, `lpc[i]` the listener of
process `i`. `channels` is what `_channels` says, `live` what Redis has the
pubsub object subscribed to, and `conn` that object's connection. Redis and the
network are the environment: `RedisDown` breaks connections and loses what is in flight,
`CallFails` is a failed call, and `FallsSilent` is a Redis that keeps its connections and
answers nothing: no call returns or raises then, for the client has no socket timeout
(`bus.py:133`), nor does the listener see an error. `RedisUp` ends either. A publish that
fails may or may not have reached Redis (`SendFails`).

A publish that awaits a silent Redis waits, and with it whoever needs `_lock`. So
`PublishEnds` is claimed of a Redis that does not stay silent; that ingestion is never
blocked, as the docstring has it, is `IngestionNeverBlocks` and fails (`silent_redis`).

`Reconnect` replaces the pubsub object without the lock, as the code does. A
publish awaiting SUBSCRIBE on the old object is then *orphaned*: when its call
returns, the channel is recorded but the new object does not listen to it.
`ListenersHear` therefore states that what a process believes is what Redis has
it subscribed to only up to the first outage, and the delivery for processes that are
subscribed. Also seen while modelling: after one failed publish the process stays degraded until its
listener reads a frame or has an error of its own.

### `Session`: connections of one process

`phase[s]` is where `run` is suspended, `drop[s]` how far `shutdown` has come,
whoever runs it (`run`'s `finally`, an operator, `stop`). The three records of a subscription
are `topics` (the session), `hub` (the rooms, keyed by topic name only) and
`subs` (the database row). `Authorized` is `authorize_subscription` with
`default_spec`; the topic row it reads may be edited at any time. `Exit` is the
end of the process, by a crash or by the end of `stop`; only the database survives it. The
reaper closes rows that have been open for twice the longest lifetime.

Notes from the code: the welcome frame is sent outside the `try`, so a client
gone by then leaves a session registered (`WelcomeFails`); an operator's
terminate may run while the session awaits the query of a subscribe, which then
joins the hub after it was told to leave (`foreign` in `CleanEnd`); a terminate
request for a session of another process only sets `terminate_requested_at`,
which nothing reads (`asked`).

### `Delivery`: from publish to a consumer that wants no gaps

One topic, ids `1..N` in the order they are minted; 0 is no id. `Store` and `Fanout` happen
in any order of ids, because an id is minted before the first await. The
connection has the peer's bounded queue (`Enqueue`, oldest dropped); `rp` is where `_do_replay`
awaits: the query for the oldest row, the query for the page, the sends. `page` is
the set of rows read and not yet sent, the least of which goes next, and `First(n, S)`
is `order_by("id").limit(n)`. The
consumer is the one `docs/ARCHITECTURE.md` section 3 describes: it records the
last id it processed and after each reconnect follows `next_since` from there,
setting live frames aside until the replay is done.

### `RateLimit`: `app/services/ratelimit.py`

Tokens and time are integers (a token is a rate's worth of small units, so
fractions of a second are represented). An observer (`mark`, `spent`) opens a
window at any moment and adds up what is admitted in it. `Admit` and `Deny` are
the two outcomes of `check`; nothing in the repository calls `prune` yet.

### `TsClient`: `sdk/typescript/src/beacn.ts`

A JavaScript task (a call of the application, an event of a socket, a timer) is an
action; the promises it settles are queued in `jobs`, and `RunJob` runs their continuations
before the next task. `sock[s]` follows one call of `_open` from its token to the
close of its socket, `opener[s]` is who waits for it, `ws` the socket dialled last.
`pending` and `deadlines` are the map of requests and their ten-second timers,
`pass[s]` is `_resubscribeAll` as started by the welcome of `s`, and `wire` and
`granted` stand for the server, which answers the requests of a connection in order. A
token comes after a task of its own, as it does with `getToken`; with a fixed token it
comes at once, which is one of the model's behaviours. A closing socket delivers no
more messages, as in browsers. `mishaps` records what may
explain a lost request or socket.

What the model shows of the code, and the properties allow for:

- A failed reconnection is scheduled twice, by `onclose` and by the timer's
  `catch`, so several sockets may be live; each keeps its subscriptions.
- `disconnect` closes `this.ws` only, and nothing asks `closedByUser` after the
  token: a connection under way is completed and the state becomes
  `CONNECTED` again. A resubscribe pass interrupted by `disconnect` calls `connect` for its
  next channel, which undoes it. `docs/SDK_TYPESCRIPT.md` says "`disconnect()` closes and does
  not reconnect"; no property here states that. `connect`'s promise is not
  settled when `disconnect` comes before the welcome.
- A second request for a key replaces the first, and a timer that outlives its
  request removes whichever has its key; the loser never ends. If the loser is a
  resubscribe pass, the channels after it are not subscribed again.
- A close rejects the requests of every socket, but those on another socket are still
  answered. If the same request has been made again meanwhile, the late answer is taken
  for the new one's (`Await` notes it as "crossed"). An `unsubscribe` loses its entry so;
  of a `subscribe` and an `unsubscribe` of the topic that follow, the latter is resolved by the
  first one's late answer and the `subscribe` after it: the channel says subscribed, and then
  the server removes the subscription.
- `this.ws` is the socket dialled last, and nothing sets it back (`GiveUp`). When
  several are on their way and that one fails after the last attempt, the client says
  `FAILED` with no timer left; a welcome of another socket then makes it `CONNECTED`, and it
  sends on the closed one for ever. `Recovers` allows for it once FAILED was said
  while another socket lived; `Resubscribed` states the document without that exception, and fails.

### `Control`: operators, keys, accounts, roles, sessions

A request `r` is one call of a handler; `req[r]` holds its operation, the
operator it acts for, the row it has read (`copy`) and the await it is suspended in:

| `pc` | in the code |
|---|---|
| `session`, `actor`, `seen`, `permission` | `control_actor` and `require`: the session's row, its user, `last_seen_at`, the permissions |
| `read` | the handler's first read of the row it changes |
| `issue`, `revoke` | `keys_create`, `keys_rotate`, `keys_revoke`: create a key, save the old one as read |
| `write`, `sweep` | the save of a producer's status, of an account or of a session signed out; `User.disable`'s revocation of the sessions |
| `assign`, `unassign` | the new account is there and its groups are read; each is removed, then the new one added |
| `create` | the session of a sign-in, after the account was looked up |
| `key`, `producer`, `used`, `touch` | `resolve_api_key` with the counters it keeps, `touch_producer_stats`, the save of `RefreshCounters` |
| `audit` | the audit row, last |

`Fail(r)` ends a request at any await. Which columns a save writes is kept
apart: `Bookkeeping` is a save with `update_fields`, a handler's own save writes
its whole copy. `refresh` is the `RefreshCounters` job; `local_role`, `local_create`,
`local_disable` and `local_enable` are the commands that run on the server itself
(`user role`, `user create`, `user disable`, `user enable`). `raced` is a history
variable: the sign-ins that looked an account up before it was disabled, and the
users on whom two role changes overlapped.

There are two ways to disable an account. The control plane's calls `User.disable`, which
clears the flag and revokes the sessions; the shell's (`cli/users.py:225`) clears the flag
alone (`LocalSetActive`), and the sessions it leaves are remembered in the request's `copy`.
They are shut out while the account is disabled where its flag is read, and work again
once it is enabled. `DisabledIsSignedOut` excepts them by name, and
`ShellDisableRevokes`, what `docs/SECURITY.md:43-44` says of the command, fails
(`shell_disable`).

From the code: two rotations of one key at once leave two live successors, and
rotating an expired key yields one that has expired too. Two administrators may
disable each other; `LastManager` says that this, and giving up one's own role, is the
only way to be left without an administrator. `RefreshCounters` may overwrite
counters incremented meanwhile, which nothing here promises.

### `Access`: how long a credential lets in

The v1 routes with the scope each requires, the routes of the control plane that
act for a producer, the realtime endpoint and the three routes that mint realtime tokens.
An operator comes with a bearer token, whose row and account are read (`LookUpSession`,
`LookUpAccount`), or with the dashboard's cookie, for which `control_actor` returns the
framework's user and reads no row; then `require` asks the role. `Withdrawn` follows:
for a cookie only the role counts, and the account if the framework refuses to load a
disabled one (`loads`); a cookie whose session was revoked goes on being answered and
mints tokens, and `AccessEnds` does not say otherwise. Time
is counted down: what is left of a token, of a connection's lifetime and of its
silence. `since` is the time since each credential was withdrawn. `CallTime` is an
assumption about the network: a request or a handshake is over by then. A
realtime token outlives the revocation of its key, and the `ttl_seconds` asked for is
not capped, so `Longest`, the bound of `AccessEnds`, contains the constant
`LongestTtl`: whoever mints tokens must choose it, the code does not. SSE streams have no deadline and are outside the property. A credential
given back after it was withdrawn is left to `Control`; `Withdrawals` bounds
which of the five (key, producer, session, account, role) go in one behaviour.

### `Web`: one browser

Tabs share a cookie jar. A visit goes through `_kit.py`'s guard one await at a
time, is redirected, lands on a page, a form or an error; a page refreshes with
reads of the control plane. Meanwhile the other tab signs in or out, and others
disable the account, revoke the session or change the role. What the cookie
carries is the framework's and external to `src/`; whether the framework still
loads a disabled user for it is left open (`loads`). `hops` counts the redirects
since anything that decides the next redirect last changed - the jar, the session's row,
the account, the role - up to three; a sign-out therefore resets it in every tab. `live` and `allowed` are observers:
whether the session and the permission stood at any moment since the request was sent.
The guard of the pages reads the session's row, the reads with which they refresh do not
(`Actor`): `ShownWhileEntitled` speaks of the row for pages only, and `EveryRequestChecked`,
what `docs/SECURITY.md:8` says of every request, fails (`cookie_reads`).

### `Shell`: the `beacn` command

A command reads the credentials file, sends at most one request and exits. `login`
empties the file before it writes it, as `write_text` does; `logout` removes it
whatever the server answered. Requests given up stay in `late` and may still be
handled. `excused` records the sessions lost for a reason: an answer never taken in, a
second login, a logout that did not reach the server, and a logout with
`BEACN_TOKEN` set, which revokes that token and deletes the file of another. The
thirty days after which a session expires by itself are left out: with them the
property would be weaker.

### `PyPublish`: one publish of the Python SDK

`pub` is the loop of `_request`, `requests[a]` the server's side of attempt `a`,
which goes on although the client has given it up. `markers` and `copies` say
what the server has: the marker of a key is committed before its event. What
may be retried is the code's decision: an item without a key makes the
call not repeatable, and the asynchronous client never repeats a batch. A key's
marker is assumed to outlive the call (24 hours against seconds). `AttemptTime` is an assumption
too: the SDK's `timeout=` bounds each operation on the socket (`beacn.py:409-410`), not the
attempt, so a server that sends its answer byte by byte can hold an attempt longer than
`TimedOut` says, and the bounds of `InTime` and `CallReturns` with it. Seen while modelling: a
retry may be answered "deduplicated" for an event whose first attempt died after the claim, which
`PublishedOnce` names as its exception; the SDK takes the wait after a 429 from
`details.retry_after` (`beacn.py:141`) while the server sends it in the
`Retry-After` header alone (`_common.py:44-45`), so it falls back to its own backoff.

### `PyConsumer`: its two consumers and the SSE endpoint

`reader` is the iterator: synchronous over SSE, asynchronous over the WebSocket;
`links[c]` is what the server keeps of connection `c`. On the server's side the
module has the whole of `realtime_sse` (the joins and the row come before the
response generator starts, so a client gone by then is never cleaned up by it) with its
two queues in a row, and the replay requests of a WebSocket. `excused` collects, at
the step that gives it up, each event the design does not promise. Several
topics share one last id: after a reconnection over the WebSocket every topic is replayed
from the newest id any of them yielded. Over SSE the SDK reconnects with
`last_id`, as its docstring promises, but the endpoint does not read it. Events
are stored and fanned out in the order of their ids here; `Delivery` has the
publishes that overtake each other. Both properties of the module have a safety half,
which is an operator of its own: `NothingLost`, where each event not yielded yet is
while a connection lasts, and `ClosedIsGone`.

### `History`: listings

The four paged listings with their limits and cursors, followed to the end as
`Page.autopage` does. Between two pages rows appear anywhere, vanish, and enter and
leave the filter. A limit of 0 is the default for events and one row for
the others.

### `CeleryTask`: the signals of one task

A worker that retries, is lost and redelivered sends signals; each is one
`Beacn.publish` with the key `task_id:event`. The second `started` or `retrying`
of a task is dropped as a repeat. The row follows `Task.apply_event`.

### The combined runs

`MCShared` (`Ulid`, `RateLimit`, `RedisBus`), `MCWebSocket` (`Session`, `TsClient`),
`MCConsumers` (`Delivery` and the Python client's modules) and `MCControl` (`Control`, `Web`,
`Shell`, `Access`) each hold several modules that share no state. A variable of theirs
(`part`, `end`) is fixed in the initial state: in each behaviour one part runs
and the others stand still, so a run explores the sum of the parts and never
their product.

## 3. What TLC checks

| Run | Instance and bounds | Shows |
|---|---|---|
| `shared` | ids: 2 threads, random field 0..3, clock 0..2; rate limiter: costs 1, 4, 7, 9, burst 7, rate 2, 9 ticks; bus: 2 processes, 3 events, 2 channels, seen set of 2, one outage, one silence, one failed call | `Monotonic`, `SortsAsText`: ids strictly increase, and so does their text; `WithinRate`: any window within burst plus rate; `RetryAdmitted`; `AtMostOnce`; `PublishEnds`; `ListenersHear`: listeners recover and hear |
| `ingest` | 2 requests of 2 envelopes on 2 processes, one shared key, 3 topics with a propagation cycle, one topic edit, one sweep, one fault | `OneEventPerKey`, `PersistenceFirst`, `OneHop`, `AcceptedIsDelivered`, `TaskRowConsistent`; `RepeatIsDelivered`: every request ends and some answer to a key names an event that was shown; `ImplementsPromise` |
| `websocket` | server: 1 connection, 2 topics, 2 frames, one database error, one visibility edit, an event of another environment; TypeScript client: 2 channels, one reconnect attempt allowed, 2 upsets (calls of the application, lost connections, failed tokens, refusals, late timers), 6 calls of `_open`; a new client, or one connected and subscribed | `RecordsAgree`, `CleanEnd`, `RowsCannotOpen` (no subscription without authorization), `EveryRowCloses`, `StopEnds`; `NeverStranded`; `Recovers`: connected in the end, subscriptions restored; `CallsEnd`: every call ends |
| `consumers` | replaying consumer: 3 events, queue of 1, page of 1, 2 disconnects; publish: 3 attempts, elapsed bound 3, batches of 1 and 2 with some keys; Python consumer: 2 topics, 3 events (2 over SSE), queues and page of 1, 2 connections, 1 failure; listing: 4 rows, limits 0, 1, 3; Celery: 2 runs of a task, 1 unsure publish | `MissedExplained`, `TruncationIsTold`, `EventuallyProcessed`; `PublishedOnce`, `CallReturns`; `YieldedOrExcused`, `LeavesNothing`; `ListsEachOnce`; `OutcomeTold` |
| `control` | control plane: 2 requests or commands of the server's shell, 3 operators of whom one is owner and one does not exist yet, 1 producer with 1 key, 1 tick; dashboard: 2 tabs of one visit each, of which the second only signs in or out, 1 login, 2 changes by others; shell: 2 terminals of 2 commands, 3 sessions, one terminal with `BEACN_TOKEN`; access: 2 calls one after the other, withdrawn are the key and its producer, the session and the account, or the role, ttls 0 (none) and 2, every other time 1; the key's scopes and `loads` vary together | `RotationKeepsAccess`, `DisabledIsSignedOut`, `OneRole`, `RevokedStaysRevoked`, `LastManager`; `Lands`, `ShownWhileEntitled`; `NoForgottenSession`; `AccessEnds` |

Why the bounds are enough: the races here are between two actors, so two
requests, processes, tabs, terminals or threads reach them (a run of `Control`
with three requests over fewer operations finds nothing more); propagation needs a cycle
and a chain (three topics); paging needs a page boundary in the middle of a replay
(three events, page one); eviction needs one id more than the seen set holds;
overflow needs a random field that can be exhausted; a retry that overlaps the
attempt before it needs two, and three leave room for one that fails between.
One fault at a time, at every await: each property that tolerates faults says
so. Sessions of one process interact only through `stop`, which handles them one
after the other. The TypeScript client's races are between an upset and the
recovery from another, so two upsets from a connected client reach most of them; six
calls of `_open` are room for all that follow (the sixth is never made). What only a
third upset reaches is the dead `this.ws` of `ts_gives_up`: with three upsets and one
channel, and one or ten attempts, the three properties of the client hold with `Recovers` as
stated. A fifth reaches the crossed answers of section 2; `RestsSubscribed`, before it was
proved, held with four upsets, and in random behaviours with seven. `CeleryTask` with three runs and `History` with five rows were checked too.

`Control.cfg` declares the requests symmetric; that run has safety properties only.

Seven runs state what a document or comment of the repository says and the code
does not do; TLC shows a behaviour that breaks it:

- `terminal_task`: a late event moves a completed task back (`TerminalKept`).
  `apply_event` decides from the row it read and saves the whole row.
- `every_instance`: a process that has not published in an environment hears
  nothing of it (`EveryInstanceHears`). Only `publish` subscribes.
- `silent_redis`: a publish waits for ever for a Redis that accepts its call and does not
  answer (`IngestionNeverBlocks`). `bus.py:19-20` and `docs/ARCHITECTURE.md:193` say that
  ingestion is never blocked and unaffected.
- `shell_disable`: `beacn user disable` revokes none of the account's sessions
  (`ShellDisableRevokes`). `docs/SECURITY.md:43-44` says it revokes them immediately.
- `cookie_reads`: a request of the control plane is answered although the session
  behind its cookie was revoked before (`EveryRequestChecked`). `docs/SECURITY.md:8` says the row is
  checked on every request; `control_actor` (`_common.py:92-106`) does not read it.
- `environments`: an event reaches a connection of another environment
  (`EnvironmentsNeverCross`). The hub's rooms are keyed by topic name.
- `ts_gives_up`: a client that reconnected subscribes nothing again (`Resubscribed`). A
  connect while connected, the connection lost, two sockets dialled; the later one fails after
  the last attempt, the earlier one is welcomed, and `this.ws` is the one that failed.

Two more disagreements are visible in the models and are the stated exceptions of
properties there: a repeat may be answered with an id that was never
stored, since the marker is committed before the event (`docs/EVENT_MODEL.md:88-89`;
`RepeatIsDelivered`, `PublishedOnce`); and a consumer's cursor may pass an id that
is stored later, without any frame being shed (`docs/PERFORMANCE.md:34`;
`MissedExplained`).

Deadlock is not checked: in every run the system may come to rest, or a bound ends it
(requests are finite, connections end, ids stop at the bound on the clock). The properties
that say what must still happen are the liveness properties.

### Fairness

- In `TsClient`, continuations run, reconnect timers fire, tokens, handshakes,
  welcomes, answers and closes come. Request timers, failures and the application are not
  fair: a request is to end by its answer.
- A coroutine whose await is over is resumed by the event loop, and a call to
  the database returns or raises: weak fairness of each request's
  `Step`, of each publish under way on the bus, of the listener, of `Run` and `Shutdown` of each
  session and of `Stop`. Nothing makes a request start, an operator act or an outage end,
  and nothing makes a silent Redis answer: while it is silent no step of a publish that
  awaits it is enabled, so fairness asks for none.
- A session's loop ends although the client is silent: the receive timeout is three
  heartbeats and a connection has a longest lifetime (`LoopEnds`).
- The scheduler runs the reaper (`ReapConnections`), on some process.
- In `Delivery`, a publish that stored its event goes on to fan-out, the session
  and the peer's writer run, and the consumer reconnects. Its liveness
  properties hold for such a consumer only.
- In `PyPublish` only the client is fair: it sends, its timer ends an attempt, it
  wakes from its sleep, time passes (`Send \/ Wake`, `TimedOut`, `Elapse`). Nothing
  is asked of the server, so `CallReturns` holds with the server down.
- In `PyConsumer` the application goes on asking the iterator, the server's
  coroutines and the stream's pump and writer run, time passes (`Age`), each
  response that was started is run (`Stream`), and the reaper runs (`Reap`).
- `Control`, `Web`, `Shell`, `Access`, `History` and `CeleryTask` have safety
  properties only, and no fairness.

## 4. What is proved

Eight modules hold the proofs, which TLAPS checks for every value of the constants
that the named assumptions of the modules allow:

| Proof module | About |
|---|---|
| `DeliveryProofs` | `Ulid`, `Delivery` |
| `IngestProofs` | `Ingest`, with `IdempotentPublish` |
| `RedisBusProofs` | `RedisBus` |
| `SessionProofs` | `Session` |
| `RateLimitProofs` | `RateLimit` |
| `ControlProofs` | `Control` |
| `OperatorProofs` | `Web`, `Shell`, `Access` |
| `ClientProofs` | `PyPublish`, `PyConsumer`, `History`, `CeleryTask`, `TsClient` |

`ControlProofs`, `OperatorProofs` and the Python half of `ClientProofs` are about each
part alone (`CtlSpec`, `WebSpec`, `ShellSpec`, `AccessSpec`, `PubSpec`, `ConsSpec`,
`HistSpec`, `TaskSpec`); the combined runs add nothing but parts that stand still.
Every theorem has the same shape: an invariant that is inductive, with a lemma for each
action, and the property as a consequence. What follows says what each
invariant adds to its property, and why the property alone does not do.

**Identifiers.** `UlidInvariant`, `UlidMonotonic`: for any set of threads, any width of the
random field and any clock, every id returned is greater than all returned
before. The invariant adds that the globals are the latest id issued
(`LastIsLatest`) and that the thread holding the lock has an id later than all
(`HolderIsLater`). `UlidSorts` (`SortsAsText`): the text of ids orders them as they were
minted, for any alphabet, any number of digits and any clock and random field that
fit them. `Shifted` is a recursive function; that there is one for every value and length,
and that a smaller value leaves no more after any shift than a greater one, are
shown by the least counterexample. The last shift after which two values still differ
is then the first digit that differs, and the greater value has the greater one
there (`DigitsLater`). That every pair issued fits (`MintedFits`) needs that the globals step
at most one millisecond beyond a clock reading.

**Replay and delivery.** `DeliveryTypes`, `NothingMissed` (`MissedExplained`),
`TruncationTold` (`TruncationIsTold`): any number of events, queue and page
sizes, and reconnections. An event is *owed* while it is stored, was not shed and
neither was nor will be out of order (`Owed`). `MissedInv` says that the cursor and the
page never pass an owed event (`Ahead`), that the cursor and the page's last row are
where the session thinks they are (`Cursor`), that after the last page an owed event
that was fanned out is in the page, in the queue or set aside (`Reachable`), and
that live frames come in the order of ids but for late ones (`InOrder`). The last is what
makes setting live frames aside during a replay right. `TruncationTold` needs that
retention removes a prefix of all that was ever stored (`PrunedPrefix`). TLC checked
`MissedInv` with four events and a queue of two before it was proved.

**Rate limiter.** `RateLimitInvariant`, `RateLimitWithinRate`: any window admits at most
the burst plus the rate times its length, for any rate, burst, costs and keys. The
invariant is an account: what was spent in the window plus what the bucket
holds now is at most the burst plus the refill since the window opened
(`Account`). `RateLimitRetryAdmitted` (`RetryAdmitted`): what a denied key lacks of
the promised cost is at most what is refilled until the promise is due and one hundredth of
a second more (`PromiseKept`), the hundredth being what rounding may take away.
Their assumption about deployment is `PruneAssumption`: a bucket is pruned only
after a time that refills the burst.

**Ingestion**, for any requests, batches, processes, topics, keys, fault budgets and
topic edits:

- `IngestTypes`. `TypeInv` adds to the types what is known of a
  request by where it waits (`Waiting`: only an envelope with a key is looked
  up, copies are neither looked up nor routed) and that every row in the table, in
  a cache or in a request's hands is one the topic has had (`RowsKnown`).
- `IngestImplementsPromise`. The pipeline implements `IdempotentPublish`, step by
  step: a claim is the promise's claim, a store or fan-out its showing, an answer
  its answer, a sweep its forgetting, and everything else a stutter. The
  invariant behind it is `Owned`: a request past `_dedupe` owns the marker of its
  key until the marker is swept, since (`OwnersStay`) a marker kept does not
  change hands.
- `IngestOneEventPerKey`, `IngestAnswersAgree`. Both follow from `KeyInv`: every
  event visible, and every id answered, is the one the key's marker names. That
  events and answers stay so needs only the steps of the promise, so it is argued
  on the abstract specification and carried over by the refinement.
- `IngestPersistenceFirst`, `IngestOneHop`. `PlaceInv`: a request about to store
  holds a topic some row of which persists; past the store, the event in hand is in
  the table unless some row of its topic says not to persist; and the copies still
  to do are targets of the topic published to. The cache may be stale at any of
  these points, which is why both speak of the rows a topic has ever had.
- `IngestAcceptedIsDelivered`. `DeliveryInv`: while nothing has failed, a request past
  its fan-out has fanned out its root (`RootFanned`), every target of a topic nobody
  edits is fanned out or still to do (`CopiesFanned`), and what was answered is
  as promised (`AnswersPromised`). A request may route by the cache of another's query, which
  is why the topic must be unedited and not merely unedited since the request came.
- `IngestTaskRowConsistent`. Both the row and the drafts held across the await
  between reading and saving it are consistent (`TaskInv`), so whichever save
  comes last leaves a consistent row.

**Event bus**, for any processes, events, channels, sizes of the seen set, outages
and failed calls (module `RedisBusProofs`):

- `TypeCorrect`, `DeliveredOnce` (`AtMostOnce`). `DeliveryInv`: what an instance has delivered
  it remembers or has evicted, and nothing of an event is in a queue or seen
  anywhere before its publish has delivered it at its origin.
- `BelievesWhatItHas` (`BelievesWhatIs`, the safety half of `ListenersHear`). Without outages
  no connection is lost, no call is orphaned and no listener backs off (`CalmInv`);
  and a subscription is always one the process recorded.

**Sessions**, for any connections, topics, grants, faults and edits (module `SessionProofs`):

- `TypeCorrect`, `RowsNeverOpen` (`RowsCannotOpen`). Membership is decided one await before the join,
  from a row that may be edited in between: `EntitledInv` adds that the session about to
  join was found entitled. That holds whatever the rows say, because the claim on a user's,
  organization's, project's or system topic is read from the grant alone.
- `RecordsAlwaysAgree` (`RecordsAgree`), `EndsClean` (`CleanEnd`). `ConnectionsInv` says for every
  connection where its three records may differ (between the steps of one
  frame), what a shutdown has still to leave at each of its steps, and who runs it:
  `run` itself, or somebody else while `run` may still be about to join.

**Control plane**, for any operators, accounts, keys, requests, operations and clock:

- `ControlTypes`. `TypeInv` adds where a request of each kind may wait, what kind of row it
  holds there (`Waits`, `ReqRow`), and that a session has the user it was created for.
- `ControlRevoked` (`RevokedStaysRevoked`). Every writer of a key or of a session
  either leaves the status alone or writes `revoked`; `KeyInv` and `SessionInv` carry what a
  request knows of the row behind its copy, and that a row is created once. `ControlAuditTells`: what the
  audit log says was revoked or rotated is, and the keys it says were issued exist.
- `ControlSignsOut` (`DisabledIsSignedOut`). A session of a disabled account was created by a
  sign-in that had looked the account up before (`SignInInv`: who is about to create a session
  found the account active, and it still is or the request is in `raced`), or the
  control plane's disable has not swept yet, or died before it could, or a disable of the
  server's shell found it live and left it (`LeftRow`). The theorem says of the control plane
  that it signs out, and of the shell that it does not.
- `ControlOneRole` (`OneRole`). `GroupInv`: who removes a user's groups knows them and
  is alone with that user unless the user is in `raced`; between removal and
  assignment the request is under way or dead there.
- `ControlLastManager` (`LastManager`). A step disables an account or removes a group of
  one, never its own operator's by a disable and by a creation (`AccountInv`). So either its
  operator is still a manager afterwards, or was none any more.
- `ControlRotation` (`RotationKeepsAccess`). A key issued by a rotation is later than the
  key it replaces, which orders keys by rank. `RankInv`: while nothing but rotations revoke, a revoked key
  has a successor of greater rank with the same producer and expiry. All ranks are below a
  bound, so a key has a last successor (`Least`, from the well-foundedness of the
  naturals), and the last one is not revoked.

**Dashboard, shell, credentials** (module `OperatorProofs`):

- `BrowserLands` (`Lands`), any tabs and sessions. `HopsInv`: a tab is sent on only with the
  jar's cookie or for the first time, and a tab sent on twice is with the one of the two, guard
  or sign-in screen, that will keep it. This proof first failed, for a reason: in the
  model a sign-out in one tab did not start the count of the others anew,
  although it changes the row they are judged by. With more visits per tab than
  the run had, TLC found the behaviour; `LogoutRow` was corrected.
- `PagesNeedEntitlement` (`ShownWhileEntitled`). What the guard has found so far was so at some
  time since the request was sent (`ShownInv`), whatever changes between its awaits.
- `NothingForgotten` (`NoForgottenSession`), any terminals and tokens. The property is
  inductive once it is known that only a login that was answered holds a session to
  lose and that a logout carried out has revoked what it named (`TermFits`).
- `WithdrawalEnds` (`AccessEnds`), any calls, scopes, ttls and times. A time budget: a token minted by a
  request that began before the withdrawal ends within `LongestTtl + CallTime` of it
  (`TokensEnd`), a handshake with it one `CallTime` later, the connection after its
  lifetime and silence (`EndsInTime`); and a request that began after the withdrawal
  comes no further than the check that looks it up (`LateStops`). Which check that is depends
  on the credential: a bearer token's row stops at `LookUpSession`, its account at
  `LookUpAccount`, a role at `RequirePermission`; for a cookie nothing looks at the row,
  and accordingly its end is no withdrawal.

**Clients** (module `ClientProofs`):

- `CallStoresOnce` (`PublishedOnce`), any call, number of attempts and behaviour of the
  server. Two attempts can work on one event only if the call may be repeated
  (`LoopInv`), and then every event has a key; the marker lets one attempt at most
  come to the insert (`ItemInv`); and an event behind the position of an attempt is stored, about to
  be, or was given up there (`Accounted`).
- `CallEndsInTime` (`InTime`, the safety half of `CallReturns`). No call is out longer than
  `max_elapsed` and the time of one attempt: a sleep never ends after `max_elapsed`.
- `HistoryListsEachOnce` (`ListsEachOnce`). `CursorSeparates`: what was yielded
  lies on the near side of the cursor and once, and every row there throughout
  that lies on the near side was yielded. Any number of rows, limits and defaults, and both orders.
- `ConsumerLosesNothing` (`NothingLost`, the safety half of `YieldedOrExcused`), any topics,
  queues, pages, connections and failures. `AsksInOrder` carries it over the WebSocket: requests are
  handled in the order sent, every subscribe before every replay, so a topic not joined
  yet still has its subscribe frame and, with a last id, its replay to come. What is
  published before the join is therefore found by the replay; were the replays sent
  first, an event between the two would be lost. Over SSE every step moves an event between
  the queues, to the consumer, or to `excused`.
- `ConsumerClosedIsGone` (`ClosedIsGone`, the safety half of `LeavesNothing`). Inductive with the
  types of the connections (`LinksFit`).
- `RowTellsOutcome` (`OutcomeTold`). A key claimed was sent; with one outcome ever sent, no other can
  have moved the row to its end, and what comes after it moves it no more (`TaskInv`).
- `ClientNeverStranded` (`NeverStranded`). The property allows continuations still to run as
  what is under way; the invariant shows more: a reconnect timer or a socket is there whenever
  a connection is wanted (`Retrying`), so whichever socket closes, and whoever
  opened it, another try was scheduled in the same task.
- `ClientTypes`. Whoever is kept as an opener, in `pending` or in a continuation is a call
  that was made, a pass or the timer. `Opening`: a socket has an opener exactly
  while it is on its way, so none that closes unwelcomed rejects nobody.
- `NoCallForgotten` (`NoneForgotten`, what `CallsEnd` rests on), any channels, sockets and
  upsets. `Carried`: every entry of `pending` has its request on the wire of a socket that is open
  or closing, so an answer, a refusal or a close will find it; an answer takes the
  request and the entry of its key together, and a close takes all entries, those of
  other sockets too. `EntryFits`: the call that an entry belongs to waits for that
  request, so the deadline that removes the entry rejects the call. Where entries are
  replaced, or removed by the deadline of a request before them, `mishaps` says so, and the
  property excuses it.
- `ClientRestsConnected` (`RestsConnected`, the safety core of `Recovers`), any channels,
  sockets, attempts and upsets. A state that says it is connecting has a timer or a socket not yet
  welcomed (`OnItsWay`), so at rest it is `CONNECTED`. While any socket is being opened
  or open, a timer runs, a token is awaited, or `this.ws` is such a socket itself
  (`WsLives`): whichever closes, the next attempt replaces `this.ws`, unless the attempts are used
  up. Without that exception the invariant is false beyond two upsets: `ts_gives_up` is its
  counterexample.
- `ClientRestsSubscribed` (`RestsSubscribed`, what `Recovers` says of channels at rest), any
  channels, sockets, attempts and upsets. Unless a mishap excuses it, each channel that
  says it is subscribed is served (`Served`): a connection is on its way; an open socket has
  the subscription, or will answer the `subscribe`, with nothing behind it that leaves the topic
  (`Provided`); a pass has yet to come to it (`PassDue`); or its `unsubscribe` is out, or
  answered and not yet heard of (`Leaving`). At rest only the second is left. The property alone
  says nothing of the steps in between, and the four facts each step needs are about different parts:
  two requests that are out differ, and an awaited `subscribe` is on a wire (`WireInv`), so an answer
  belongs to the request its entry stands for; a call waits in one place (`CallInv`), so no
  two continuations mark one channel for it; a pass begins at the welcome of its socket and
  never unsubscribes (`PassWaits`); and a call told that its `subscribe` was answered is alone
  in the queue (`SubTold`), so what was granted still holds when the channel is marked. A pass
  that finds it cannot send goes on without the channel, which is sound only because
  `WsLives` then says that another connection is coming.

The assumptions are the `ASSUME`s of the modules. Most give types to the constants;
those that say more: batches are non-empty and every request has a home process
(`Ingest`); the digits of an id hold its two fields (`Ulid`); the owners have accounts and the names of keys, users and requests are
apart (`Control`); there is a topic (`Session`); a call has at least one item, and the
keyed ones are among them (`PyPublish`); limits are naturals and the two configured
ones positive (`History`); the topics asked for are a sequence (`PyConsumer`), and so are the channels, of which there is
one (`TsClient`); `LongestTtl` bounds the ttls asked for, and a call and a
silence take time (`Access`); `PruneAssumption` (`RateLimit`).

Only model-checked:

- Liveness, which is out of this prover's reach: `RepeatIsDelivered`, `PublishEnds`,
  the rest of `ListenersHear`, `EveryRowCloses`, `StopEnds`, `EventuallyProcessed`,
  that the TypeScript client comes to rest (the rest of `Recovers`), that a call of the TypeScript client ends (`CallsEnd`), that
  a publish returns at all (`CallReturns`), that what is on its
  way to a Python consumer arrives (`YieldedOrExcused`) and that what a connection leaves
  is cleaned up (`LeavesNothing`).
- That the seven documented statements of section 3 fail: those are behaviours.

## 5. What is not modelled, and the plan

Not modelled on purpose:

- *Boot* (`columns.py`, `ensure_roles`). Each statement is the database's. Seen while reading: a role
  emptied on purpose is filled again at boot although `authz.py` says that
  narrowed roles are kept; a crash inside `add_permissions` can leave a role half filled; two
  instances may boot at once. A model of these would be the next one to write.
- *Text and presentation*: the documentation pages, what pages and commands print,
  the JSON the routes answer. The routes that serve them are in `Web`.
- *Deployment and observability*: counters that only leave the process, settings that only enter it.
- *Django*: middleware and helpers that hold a client and publish with it.
- *The job queue*: each job may run at any time. *Start and stop of the bus*
  appear only as its initial state.
- *Validation*: a batch "may be refused"; an envelope in `Ingest` has passed it. A
  task event without a task id changes no task row and an unknown status is kept as it is;
  the model has neither.
- *Restarts of `domain/ids.py`*: after one with a clock that went back, new ids are
  smaller than old ones (`ids.py:21`); `Ulid` is about one run of a process.
- The thin wrappers of the SDKs that send one request and return its answer, ack
  frames, delivery counters, examples and benchmarks.

Left to do, in this order: an abstract specification of
what a gapless consumer is promised, implemented by `Delivery`, and one of the hub's
membership, implemented by `Session`; a `Boot` module
for several instances that start at once.

## 6. Running

    tlc -config Ingest.cfg MCIngest      # likewise for the other runs
    tlapm DeliveryProofs.tla             # likewise for the other proof modules

Each proof module takes between half a minute and fifteen minutes from nothing.
`PROJECT.json` holds the list of runs, the source lines each definition
models, and for each property a changed definition under which TLC finds it
violated.
