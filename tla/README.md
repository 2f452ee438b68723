# Verification of the crypto dashboard backend

The backend (`src/src`, FastAPI on asyncio) lets users run trading bots on a separate
trade engine, backtest strategies, sign in, keep exchange keys and follow everything on a
dashboard. This directory holds TLA+ models of the parts of it that are concurrent or survive
failures, the TLC runs that check them on small instances, and TLAPS proofs of their safety
properties for every instance. The rest of this file says what is modelled, how it corresponds
to the code, what the runs and the proofs show, and what is left out.

## 1. Inventory

One process runs everything: request handlers, the Redis subscriber and the backtest worker
are tasks of one asyncio event loop, started and stopped by `main.lifespan`. PostgreSQL holds
what is durable, Redis holds pub/sub channels and expiring keys, the trade engine is another
program that is only reached through Redis channels.

| Component | State it keeps | Operations | What makes it correct | Module |
|---|---|---|---|---|
| Bot control (`bot_service`, `routers/bots`, `bot_repo`, `command_repo`, `command_publisher`) | `bots.status`, `bots.updated_at`, `bot_commands` | create, start, stop, update params, delete | a status is one the user asked for; a recorded command was sent; no deadlock | `BotControl` |
| Event projector, status (`event_projector`) | the same rows | one handler per engine channel, three steps per heartbeat | the table follows the engine; nobody stays in `starting`; a deleted bot stays deleted | `BotControl` |
| Event projector, rows (`event_projector`, `order_repo`, `balance_repo`, `position_repo`, `error_repo`) | orders, balance and position snapshots, errors | one handler per engine channel | no dangling row, no half update, nothing older shown after something newer | `Records` |
| Subscriber (`pubsub_subscriber`) | its connection, a backoff, the last-heartbeat key | receive, process in a transaction, reconnect | one event at a time, in order, none twice; one bad event does not stop it | `Subscription`, `Records`, `BotControl` |
| WebSocket feed (`ws_manager`, `routers/ws`) | user -> open sockets | connect, disconnect, broadcast, `close_all` | no gap and no reordering on an open socket; a slow client delays the others at most by the timeout | `LiveFeed`, `EventFeed` |
| Backtests (`routers/backtest`, `backtest_worker`, `backtest_repo`) | `backtest_jobs`, an in-memory queue, the worker | run, delete, take, run the subprocess, record | each job runs once and ends | `BacktestJobs` |
| The gate of a sign-in (`email_codes.check_rate_limit`, `oauth_clients` states) | a counter per client address, one-shot states, all expiring | count, start, callback | a window lets no more through than the limit and ends; a state works once | `LoginGate` |
| Email sign-in (`email_codes`, `email_auth_service`, `resend_email`) | a code record per address, expiring | request a code, verify it | the newest code is the valid one, works once, and wrong ones are counted; overlaps and failures break that only once each | `SignIn` |
| Accounts (`identity_service`, `routers/oauth`, `telegram_auth`) | `users`, `oauth_identities` | callback, resolve or create | one user per address, one identity per provider subject | `SignIn` |
| Two-factor setup (`two_fa_service`, `routers/cabinet`) | a pending secret in Redis, two columns of `users` | set up, verify, disable | the secret in force is one whose first code was checked; none is lost | `Cabinet` |
| API keys (`api_key_service`, `api_key_repo`) | `user_api_keys` | create, show, delete, verify | a key opens from the answer that shows it until it is deleted | `Cabinet` |
| Exchange credentials (`credential_service`, `credential_repo`, `exchange_validator`) | `exchange_credentials` | validate and create, delete | none in use is deleted; nothing refers to one that is gone | `Records` |
| Market data, valuation (`routers/candles`, `routers/exchanges`, `balance_valuation`, `routers/balances`) | read-through caches in Redis | read | nothing older than its time to live; a price is missing only if every source failed | `MarketData` |
| Tokens (`auth_service`, `security`) | none (JWT) | issue, refresh | they name a user that exists | `SignIn` |
| Trades, metrics, health; configuration, logging | none | read | - | - |

How they interact:

* a request handler writes PostgreSQL and publishes to the engine inside one transaction, and
  the publish comes first (`bot_service.py:85-97`, commit in `api/deps.py:28`). FastAPI (0.136
  in `uv.lock`) runs the part of `get_db` after its `yield` when the response has been sent: a
  handler answers before it commits;
* the engine answers on `engine.*` channels; the subscriber hands each message to a projector
  with a transaction of its own (`pubsub_subscriber.py:25-31`), which writes the same
  `bots.status` that handlers write, and rows that refer to bots and credentials that handlers
  delete;
* the projector pushes most events to the sockets of the user through the connection manager,
  and waits for the sends before it commits (`event_projector.py:78`, `ws_manager.py:37`);
* `POST /api/backtest/run` commits a row and then puts its id into an `asyncio.Queue` that the
  worker task reads (`routers/backtest.py:49-50`, `backtest_worker.py:186`);
* sign-ins, two-factor setups and caches each keep something in Redis and something in
  PostgreSQL (or at an exchange), and no transaction spans the two.

What is hard here: several writers of one status column, none of which checks the status it
replaces; look-ups whose result is used some awaits later; commands, answers and pushes that go
out before a commit that may fail; events lost on a reconnection or by a restart of the engine;
timeouts that race with late answers; Redis commands that are atomic one by one but not
together; a queue that does not survive the process next to rows that do; clients that stop
reading. PROJECT.json lists these hazards line by line with the properties that cover them.

## 2. Modules

| Module | What it is | Proofs |
|---|---|---|
| `BotLifecycle` | abstract specification: what a user may see a bot's status do | |
| `Subscription` | abstract specification: what the backend may rely on of its subscriber | |
| `LiveFeed` | abstract specification: what the live feed promises to the client behind a socket | |
| `BotControl` | handlers, command channel, engine, subscriber and projector; implements `BotLifecycle` and `Subscription` | `BotControlProofs` |
| `Records` | the rows about trading: written by the projector, created and deleted by handlers; implements `Subscription` | `RecordsProofs` |
| `BacktestJobs` | job handlers, queue, worker, restarts | `BacktestJobsProofs` |
| `EventFeed` | endpoint tasks, connection manager, broadcasts, shutdown; implements `LiveFeed` | `EventFeedProofs` |
| `SignIn` | one-time codes, and the accounts a sign-in finds or creates | `SignInProofs` |
| `LoginGate` | the counter of code requests, the states of provider sign-ins | `LoginGateProofs` |
| `Cabinet` | two-factor setup, API keys | `CabinetProofs` |
| `MarketData` | the caches in front of the exchanges | `MarketDataProofs` |
| `MCBotControl`, `MCTasks`, `MCAccounts`, `MCTrading` | instances for TLC | |

Definitions whose comment begins "Variant with a bug" are not part of a model. They are
plausible mistakes in the code a definition models, and substituting one of them must make
TLC report a violation of the property it is paired with in PROJECT.json.

### BotControl

A request handler is `Begin` (read the bot, check the status, draw a command id),
`InsertCommand`, `PublishCommand`, `WriteStatus` and `CommitRequest`, or `AbortRequest` at any
point. Between two of these every other actor may move. PostgreSQL at READ COMMITTED is
modelled by `write[b]`, the lock holder of a row and what it has written: an UPDATE waits for
the lock (`LockedAgainst`), other transactions see the committed `status` (`View`), a commit
publishes the write and refreshes `updated_at` (`CommitWrites`), a rollback drops it. An insert
that refers to the bot holds a key-share lock that delays only a DELETE (`KeyShared`). Whether
the ORM emits an UPDATE at all depends on whether the new value differs from the one it read
(`dirty`): stopping a bot that is stopping sends a command but writes nothing.

The projector (`proj`) takes an event, selects rows, updates them one by one and commits. A
heartbeat has three stages in one transaction: listed and starting -> running; unlisted and
running or stopping -> stopped; unlisted, starting and stale -> error. `seen` and `aged` are the
ORM's identity map: the third stage compares the `updated_at` that the first one loaded.

The engine is external. Its actions are what the backend can observe: a start that succeeds,
fails with an event or fails in silence; a stop; heartbeats that list the active bots; a
strategy that reports an error and survives it or not; crashes that lose strategies and unread
commands. Redis pub/sub keeps nothing for a receiver that is not there.

Two specifications say what `BotControl` has to be. `BotLifecycle` is the user's view: which
moves of the committed status are legal, and that a bot leaves draft only once it was activated.
`Subscription` is the projector's: events are taken one at a time in the order of their arrival,
and only a loss of the connection, or of the process, loses any. `WaitsFor` is the relation of
waiting for a row lock, from which `NoDeadlock` is stated.

Abstracted: owners and the 403/404/409 answers (they change nothing), params and strategies,
the wall clock (`old[b]`: the row was last updated more than two minutes ago; a transaction is
assumed to be shorter than that), events for unknown bots.

### Records

The subscriber (`sub`) takes one event at a time (`TakeEvent`), looks the bot up (`Resolve`),
converts and writes the rows (`WriteRows`), pushes to the clients (`Push`), commits
(`CommitRows`) and, after a heartbeat, sets the key (`SetHeartbeat`). The order is that of the
code: bots are looked up before the first write, credentials only when rows are written; clients
are told before the commit. `Fails` is an amount that is no number, or a foreign key that points
to nothing; `RollBack` is an error of the database. `Disconnect` also stands for a failed SET of
the heartbeat key, which happens outside the try block and ends the subscription.

Handlers create and delete credentials and bots. A DELETE is finding the row and answering 204,
and the statement at the commit, where PostgreSQL applies `bots.credential_id` RESTRICT,
`balances_snapshots` CASCADE and `orders.bot_id` SET NULL as the migrations declare them, and
waits for transactions that hold the row (`HoldsBot`, `HoldsCredential`).

Abstracted: amounts, prices, sides and statuses of an order (the number of the event that wrote
them stands for them), the status of bots (in `BotControl`) and who receives a push (in
`EventFeed`). The length of the backoff is left out.

### BacktestJobs

A step of the worker is what happens between two awaits of `_process_job`: `TakeJob`, `LoadJob`,
`MarkRunning`, `PrepareJob`, `RunSubprocess`, `RecordOutcome`. `AbandonJob` is an exception
outside its try block, `FailRecording` a database error while the outcome is written. A POST is
`RunBacktest` (row committed) and `PutJob`, a DELETE is `CheckDelete` and `DeleteJob`. `Restart`
forgets everything but the rows. `Outcomes` keeps apart what the code treats differently: a JSON
object, JSON that is no object (recorded as completed, then failed, because the log line raises
after the commit), unreadable output, an exit code, a timeout, an exception.

### EventFeed

The lock of the connection manager is never held across an await that suspends, so its critical
sections are single steps, and so is the accept-connect-greet prefix of the endpoint. Each socket
has its own task (`handler`), and each broadcast snapshots the registry (`Recipients`) and runs
one send per socket. A send succeeds, or fails by timeout or exception: then the socket leaves the
registry at once and is closed a step later. `Shutdown` is the end of the lifespan handler.
`LiveFeed` is the promise to a client without registry, tasks or timeouts: from when it joins
until it is given up a socket is handed the events for its user, one after the other, and the next
event happens only when nobody misses the last. Under the refinement a socket is open while it is
registered or a send to it is on its way. Abstracted: tokens that do not decode (no state), pings,
payloads, the rows the projector writes, events that address no client.

### SignIn

A handler moves by one Redis command or SQL statement at a time. `RequestCode` is everything up
to the SET of the new code, `SendMail` the rest, which may fail. `ReadCode` is the GET of
`EmailCodeStore.verify` with the comparison, which has no await in between; `WriteBack` and
`DropCode` are the SET and the DELETE that follow, on whatever the key holds by then. A right
code, a provider's `Callback` or a `TelegramVerify` lead on to the database: `FindIdentity`,
`FindUser`, `CreateUser`, `LinkIdentity`, `TouchLastLogin`, `IssueTokens`, `Commit`. Unique keys
are modelled as PostgreSQL keeps them at READ COMMITTED: an INSERT waits while another open
transaction has inserted the key, then fails if that one has committed; a lookup sees committed
rows only.

`KeyOf` maps the spellings of an address to the key in Redis (trimmed, lower case), whereas
`users.email` compares them as they are. `guesses`, `uses` and `overlaps` are history, one
counter per code: the wrong codes compared with it, the sign-ins it let through, and how often
it was compared or replaced while another handler had read it and not yet written it.
`EmailCodeStore.verify` does not guard against such overlaps, so `NoStaleCode` and
`GuessesAreCounted` say exactly what they cost: each overlap, and each failure, lets through at
most one sign-in more, leaves at most one wrong code uncounted, and only a code with an overlap
can come back after it was replaced. Abstracted: the code itself (an id; a wrong one is 0), hashing, captcha, dev mode,
and users that are disabled or deleted, which no code path of the program brings about.

### LoginGate

`CountRequest` is the INCR of `check_rate_limit`, `SetExpiry` the EXPIRE after the first of a
window; another request, or a failure (`Break`), may come between them. `Start` issues a state
for a provider, `ConsumeState` is the GET and DELETE in one Redis transaction with the
comparison in `oauth_callback`, `ExchangeCode` the call to the provider. One client address is
modelled, since counters of different addresses share nothing.

### Cabinet

Two-factor setup of one user: `Setup` writes a pending secret with a time to live, `BeginVerify`
loads the user, `CheckCode` reads the pending secret and compares the code, `FlushUser` is the
UPDATE, `DropSetup` the DELETE of the Redis key with the answer, `CommitUser` the commit; a
disable goes the same way without a check. A flush names only the columns whose value differs
from the loaded one (`SetsSecret`, `SetsFlag`) and waits for an open transaction on the row
(`HoldsRow`); a commit applies the columns named (`Updated`). `CreateKey`, `ShowKey`,
`DeleteKey` and `CommitKey` are those of API keys; `Opens` is the look-up by prefix and the
comparison of hashes.

### MarketData

One request works through a sequence of keys: `Lookup`, `Fetch` or `FetchFails`, `Store`. The
three kinds of key differ in `FetchFails`: symbols fall back on a fixed list, which is cached
like a real one; prices are asked for at a second exchange, and given up for this request;
candles end in 502. `Tick` ages the values. Redis and exchanges are called without any lock, so
requests that miss together fetch together and store one after another.

### Composition

`Records` and `BotControl` both model the subscriber's loop, each with the part of an event's
effect that it is about; they agree on the loss of events and on one event at a time, and both are
shown to implement `Subscription`, with their own events, queue and event in hand. Their other
state is disjoint, since a transaction about a trade does not write `bots.status` and one
about a status writes no trading row (a strategy error writes both: its error row is in
`Records`, the status in `BotControl`). `EventFeed` begins where the projector calls the
connection manager.

`SignIn`, `LoginGate` and `Cabinet` share no state, nor do `Records` and `MarketData`, nor
`EventFeed` and `BacktestJobs`. So `MCAccounts`, `MCTrading` and `MCTasks` extend them (which is
why the names of `Cabinet`, `LoginGate`, `MarketData` and `BacktestJobs` begin with a word of
their own where they would clash) and put them next to each other with a constant `focus` per
behaviour: each behaviour moves one of them, and TLC explores the sum of their state spaces, not
the product. Every property is about one of them, so this loses nothing.

`SignIn` itself is in focus twice, since its counters make the whole too large: once with every
action but those of providers ("codes"), and once with every action and a single code ("rows").
What TLC does not see is a second code together with a provider's callback; the theorems about
`SignIn` have no such limit.

## 3. Runs

| Run | Instance | Shows |
|---|---|---|
| `bots` | 1 bot, 2 concurrent requests, 2 commands, 2 waiting events, 1 fault | `TypeOK`; every status was asked for (`StatusWasRequested`); `ImplementsSubscription` |
| `bots_pair` | 2 bots, 1 request at a time, 2 commands, 1 waiting event, 1 fault | `ImplementsLifecycle`; `NoDeadlock`; `HeartbeatAgreesWithEngine` |
| `bots_live` | 1 bot, 1 request at a time, 2 commands, fair | `StartingResolves`, `StatusConverges` |
| `tasks` | jobs: 3 jobs, 2 faults, fair | `JobsTypeOK`, `ScheduledOnce`, `JobLife`, `RunningIsExecuted`, `QueuedIsScheduled`, `JobsEnd` |
| | feed: 2 sockets of one user next to a user without any, 2 events, fair | `TypeOK`, `RegisteredMissNothing`, `RegistryIsTidy`, `ImplementsFeed`, `BroadcastEnds`, `GoneClientsLeave` |
| `accounts` | sign-in: 2 spellings of an address, 2 handlers, 3 sign-ins, 1 fault; with 2 codes of 2 attempts, or with 1 code and 1 provider account | `AccountsAreUnique`, `SameAccountAgain`, `TokensNameAccounts`, `NoStaleCode`, `GuessesAreCounted`, `NoDeadlock` |
| | gate: 2 requests at a time, a limit of 3 in 6 requests, 2 states, 2 providers, 2 callbacks, 1 failure | `LimitHolds`, `CounterExpires`, `StateUsedOnce` |
| | cabinet: 2 handlers, 2 setups, 3 secrets of which 2 begin alike, 1 failure | `SecretWasProven`, `ProvenIsAdopted`, `KeysAreHonoured` |
| `trading` | rows: 1 credential, bot and order, 2 items, 2 handlers, 2 events of 9 kinds, 1 fault, fair | `KeysHold`, `UpdatesAreWhole`, `PushedIsRecorded`, `ShownAdvances`, `SubscriberKeepsUp`, `ImplementsSubscription` |
| | market: 4 keys, 2 requests, 1 failure of Redis | `BoundedStaleness`, `SkippedHaveNoSource` |
| `bots_double_start` | as `bots` | violated: `StartOnlyWhenIdle` (section 6) |
| `bots_timeout` | as `bots` | violated: `TimeoutOnlyFromStarting` (section 6) |
| `backtests_delete` | 2 jobs, no fault | violated: `RunningIsNotDeleted` (section 6) |
| `backtests_stuck` | 2 jobs, 1 fault, fair | violated: `RunningCompletes` (section 6) |
| `codes_uncounted` | the codes of `accounts`, no fault | violated: `EveryVerifyCounts` (section 6) |
| `two_fa_lost` | the cabinet of `accounts` | violated: `VerifiedIsEnabled` (section 6) |

Bounds. All bots behave alike and interact only through the list in a heartbeat, the event
queue and the projector; two of them in one heartbeat, or one with two requests, exhaust the
pairs of actors that write a row. Two commands allow start/start, start/stop and stop/update;
two waiting events let a stale event meet a newer command. One fault is enough for each failure
path to be taken once at any point. Three jobs give one in the worker, one in the queue and one
being posted or deleted. In `JobsEnd` a result that `jsonb` refuses (NaN) is a fault, not an
outcome; the property asks for an end only while there was none. Two events are what it takes for one to overtake the other, on a socket
or in the rows, and for a socket to have a gap before the second. Two codes are what it takes
for one to be stale, and three sign-ins for a third to find what two that raced, or one that
failed, have left. Two handlers and two attempts are what it takes for a wrong code to go
uncounted and for one to be compared beyond the limit. Six requests fill one window and start another. Two setups let a pending
secret be replaced between its check and the UPDATE; three API secrets, two that begin alike.
A summary that asks for two prices, one of Binance and one of another exchange, has a key with
one source after a key with two. The times to live are 2 and 3 ticks against a delay of 1,
enough for a key to end while a value for it is on its way. The safety properties are proved
without these bounds (section 4).

Symmetry is used only with safety properties. In the models of jobs, of the feed, of accounts and
of trading the system may stop (every job, socket, event or sign-in is used up, and a client need
not do anything more), so those runs do not check for deadlock; the bot runs do. A circle of
transactions that wait for each other, while the rest of the system goes on, is what `NoDeadlock`
is about; TLC's deadlock check would not see it. Handlers of `accounts` are two, enough for a
circle of two; `bots_pair` has the projector and a request, with two rows to wait for.

Fairness. Weak fairness only, and only of what the code keeps doing by itself: handlers, the
subscriber and the projector are tasks of an event loop, the subscriber reconnects after its
backoff (`pubsub_subscriber.py:82`), a subprocess is killed after its timeout
(`backtest_worker.py:73`), a send ends by its timeout (`ws_manager.py:56`), and time passes. Two
assumptions concern code outside the repository: a running engine reads its commands, sends
heartbeats and is restarted after a crash; the WebSocket server bounds a close. Faults, clients
and users are never required to do anything. The heartbeat assumption is essential: without
heartbeats a bot can be `starting` for ever. `SignIn`, `LoginGate`, `Cabinet` and `MarketData`
state no fairness: nothing in them has to happen but what a client asks for again.

## 4. Proofs

TLAPS proves, for any sets of bots, requests, jobs, users, sockets, addresses, secrets, keys and
payloads, and any bounds, every safety invariant and action property that the passing runs check,
and the refinements of `BotLifecycle`, `Subscription` (twice) and `LiveFeed`. It also proves what no
run checks: `CommandRowsWereSent` (a recorded command was published), `DeliveredIsPrefix` and
`DeliveredInOrder` (which `ImplementsFeed` contains, for open sockets), and the type invariants of
the models of `accounts` and `trading`.

* `BotControlProofs`: `TypeCorrect`, `StatusIsRequested`, `CommandRowsAreSent`, `HeartbeatsAgree`,
  `LifecycleIsImplemented`, `TransactionsNeverDeadlock`, `SubscriptionIsKept`,
  `SerialStartsAreIdle`, `SerialTimeouts`. `StatusWasRequested` is not inductive: the status that
  is committed may come from an open transaction, from a handler that has yet to write, from an
  event in the queue, from a strategy the engine runs or from a command it has not read. `IInv`
  says of each of those places that it holds only what a sent command justifies
  (`WritesWereRequested`, `HandlersWereRequested`, `EngineWasRequested`, `EventsWereRequested`,
  `ProjectorWasRequested`); `sent` only grows, so every step preserves it. That `BotControl`
  implements `BotLifecycle` needs more, since no UPDATE looks at the status it replaces:
  `LegalInv` says that whoever is about to write a status that a draft must not get has seen the
  bot out of draft, which it never enters again, and that no row is deleted under a lock. Its part
  `ProjectorIsLegal` also gives `HeartbeatsAgree`: what the projector has written for a heartbeat,
  and what it is about to write, agrees with the heartbeat's list. `NoDeadlock` is a statement
  about sets of transactions; it rests on `HoldersCommit`: a request that holds a row has nothing
  but its commit before it, so only the projector can hold a row and wait, and one transaction
  alone is no circle. `SubscriptionIsKept` maps each step to one of `Subscription` or to a
  stutter; a crash may drop the event in hand, a lost connection does not.
* `BacktestJobsProofs`: `TypeCorrect`, `JobsAreScheduledOnce`, `JobsFollowTheirLife`,
  `NoJobIsForgotten`, `FaultsStrandJobs`. The worker checks no status before it writes, so that a
  finished job never runs again has to come from the queue: `LifeInv` adds to `ScheduledOnce` that
  an id that is scheduled has a row that is queued or deleted, that the worker's job is running or
  deleted, and that a DELETE under way has a row to delete. The bound on stranded jobs needs the
  cardinality of a set that grows by at most one element with each fault.
* `EventFeedProofs`: `TypeCorrect`, `RegistryStaysTidy`, `RegisteredSocketsMissNothing`,
  `SocketsGetPrefixes`, `EventsArriveInOrder`, `PromiseIsKept`. That a socket's events have no gap
  is not inductive, since a send in flight may end after its socket has left the registry and may
  have been buffered nevertheless. `FeedInv` adds `SendsAreNext`: the event of a send in flight is
  the newest one, and its socket, registered or not, has had every earlier event due to it. A
  delivery therefore always extends the prefix, which gives the order of arrival as well. The rest
  (`JoinedInThePast`, `UnopenedIsUnused`) says that a socket that is registered now is owed
  nothing yet. `PromiseIsKept` needs the same invariant: a send that ends hands over the oldest
  event that is missing because it is the only one (`SendsAreNext`), and the next event finds
  nobody missing any because the last broadcast has ended.
* `RecordsProofs`: `TypeCorrect`, `RecordsKeepTheirKeys`, `UpdatesStayWhole`, `ShownOnlyAdvances`,
  `PushesAreRecorded`, `SubscriptionIsKept`. That no row dangles rests on what transactions hold
  between a write and its commit: `KeysInv` adds that the subscriber's rows refer to rows that are
  there (`Referring`) and so do the bots that handlers have inserted (`Inserting`); a DELETE that
  would break either waits. That nothing older is shown after something newer, though the code
  compares no times, rests on the order of the connection: `Inv` keeps the waiting events in order
  and later than the one being handled, and `RowsInv` says that no row shows an event that is
  still being handled, so a commit always writes the newest. An event's number stands for its `observed_at`,
  so this assumes that the engine's times do not go backwards. `SubscriptionIsKept` adds
  `RestsWhenLost`: without a connection no event is in hand, which is why a new subscription never
  overlaps the handling of an event of the last.
* `SignInProofs`: `TypeCorrect`, `AccountsStayUnique`, `SignInsAgree`, `TokensHaveAccounts`,
  `OldCodesStayGone`, `EveryGuessCounts`, `SignInsNeverDeadlock`. A handler looks first and
  inserts later, so `Inv` describes each handler by itself (`Fine`), against the committed rows
  (`Stands`) and against each other handler (`Apart`: what two open transactions have inserted
  never collides, which is what the unique keys give). The properties of codes are
  bounds that hold however handlers overlap. They are not inductive, since a handler may still
  write what it has read. `CountsOK` bounds a code's record together with everything that may
  become its record: while handlers are at a code, overlaps and failures apart, the record and
  what each of them has read are at most one count short, and once the code has let through its
  one sign-in nobody is left who would write it back. `NewestOK` says that of being the newest: a
  code that a key holds, or may be given back, is no older than any mailed for it. `IdsOK` says
  that no two keys ever share a code. Sign-ins insert a user, link an identity and touch a row in
  this order, and wait only for handlers that are past the step they are at (`HoldersArePast`):
  among any that wait, one that has got furthest waits for none of the others.
* `LoginGateProofs`: `TypeCorrect`, `LimitIsKept`, `CountersExpire`, `StatesWorkOnce`. The
  first request of a window is let through only after its EXPIRE, so `CounterInv` keeps its
  place free until then, and says that the window cannot end before. `StateInv` says that a
  state is live, or goes with one callback, or has been redeemed, one of these at a time.
* `CabinetProofs`: `TypeCorrect`, `StoredSecretsAreProven`, `SetupsAreAdopted`, `ShownKeysOpen`.
  What a commit stores is what its handler carries, so `HandlersSound` says of each step that its
  secret has been proven, its key made or shown. The bounds on losses say that every step but a
  failure hands a secret or a key on: a flush waits for the row, hence nobody's is overwritten
  before it was stored.
* `MarketDataProofs`: `TypeCorrect`, `StalenessIsBounded`, `NothingIsSkippedEarly`. The age and
  the rest of its time to live move against each other, so their sum stays what it was when
  the value was stored (`FreshStores`: a delay at most). `Tried` says that the own exchange is
  always asked first, and that failures are kept until the request leaves the key.

The proofs assume the ASSUMEs of the modules (bounds are natural numbers, marks such as "nobody",
`NoBot` and `NoName` are no ids, `KeyOf` gives every address a key, an event about a balance
names a credential), and those of `LoginGate` and `MarketData` the operator `Configured` (a
limit of at least one; positive times to live; requests ask for something). TLC evaluates all of
them on every instance. `BoundedStaleness` also rests on the guard of `Tick`, that a value is
stored within `MaxDelay` after it was fetched: there is no such bound in the code but the
timeouts of the Redis client and of the request.

Five of the six findings (section 6) have a theorem next to the run that shows them. The property
that a run violates is proved under an assumption about the whole behaviour, which says exactly
which overlap the code does not guard against: `SerialStartsAreIdle` and `SerialTimeouts`, as long
as at most one transaction is open (`Serial`); `ApartRunningStays`, as long as the worker holds no
loaded job whose DELETE is under way (`DeletedApart`); `VerifiedWithoutOverlap`, as long as no two
changes of an account overlap (`NoOverlap`). They are in `BotControlProofs`, `BacktestJobsProofs`
and `CabinetProofs`. The unit tests run one operation after the other and so never leave these
assumptions, under which every operation can be carried out; a lock of the row from its check on
would enforce them. For `EveryVerifyCounts` nothing has to be assumed: `EveryGuessCounts` counts
the overlaps instead, and without one at a code it says that every verify counts. The sixth,
`RunningCompletes`, is a liveness property.

Model-checked only: the liveness properties (`StartingResolves`, `StatusConverges`, `JobsEnd`,
`BroadcastEnds`, `GoneClientsLeave`, `SubscriberKeepsUp`). They rest on weak fairness of actions,
hence on ENABLED, which is out of this prover's reach. No safety property is model-checked only.

## 5. What is not modelled

* Tokens: they are stateless but for the moment they are given out; signing, expiry and refresh
  of JWTs are left out, and so are captcha and dev mode, which keep no state.
* Trades, metrics and health endpoints only read; nothing in the program inserts a trade.
  Configuration and logging have no state beyond the start of the process.
* `main.lifespan`: start-up and shutdown as far as the queue, the subscriber and the sockets go.
  Middleware and routing are wiring.
* The pool of database connections; pings and payloads of the WebSocket; sums and rounding of
  balances.
* The limit of a request for candles, which the key of the cache does not contain: a request for
  many is answered with the few that an earlier one has cached until the minute is over.
* Four hazards stay without a property, for reasons given in PROJECT.json: a bot that the engine
  runs while the table has it stopped, in error or deleted (the code has no repair); the positions
  of a summary, which are the last hundred snapshots of any age; a socket whose greeting failed,
  which is modelled and stays registered until a send to it fails (`RegistryIsTidy` exempts it,
  `GoneClientsLeave` is about sockets that receive); a startup timeout that comes early because it
  compares an `updated_at` loaded before, which is modelled too, but which no property tells from
  one that is due.

## 6. Findings

* `bots_double_start`: `start` reads the status without a lock and publishes before it writes;
  two requests both pass the check, and the second command goes out although the bot is
  already `starting`. The unit test `test_bot_start_already_running_raises` promises
  `BotInvalidState`.
* `bots_timeout`: the startup timeout selects `starting` bots and then updates by id without a
  condition. A stop request that commits in between leaves the bot in `error` instead of
  `stopping`, against the comment at `event_projector.py:192`.
* `backtests_delete`: the worker can commit `running` between the check and the delete of
  `delete_backtest`, which promises "cannot delete a running job".
* `backtests_stuck`: a job that is running at a restart stays `running` and can never be
  deleted, since DELETE answers "wait until it completes".
* `codes_uncounted`: `EmailCodeStore.verify` reads the record, compares, and writes it back; two
  handlers that read the same record write the same number of attempts, and one wrong code goes
  uncounted, against the header of `email_codes.py` (line 6: each verify increments `attempts`).
  `GuessesAreCounted` bounds the damage.
* `two_fa_lost`: a verification that loaded the user with two-factor authentication on, while a
  disable commits before its UPDATE, flushes the secret but not the flag, which did not differ:
  the row ends with a secret and the flag off, after a 204. The docstring of `verify` promises
  both.

Noticed on the way, without a run: the header of `routers/backtest.py` announces 404 for a DELETE
of a running job where the code answers 409. A wrong code that is being checked while the
user asks for a new one puts the old record back, and the new code fails (`NoStaleCode` says that
it takes such an overlap). A sign-in may answer with tokens and then fail to commit: the user
they name does not exist, or its link to the provider is lost (`TokensNameAccounts` bounds this
by the number of faults). A DELETE of a credential that a bot uses is answered with 204, and
refused by the foreign key only at the commit that follows.
