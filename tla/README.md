# Notifyr: a TLA+ verification development

Notifyr is a notification platform: a FastAPI application (`src/app`) that sends emails, SMS, calls
and webhooks, an agentic gRPC server that shares its code, a Go load balancer in front of several
instances (`src/balancer`), databases set up by SQL scripts (`src/database`), Lua functions loaded
into Redis and shell scripts that bootstrap Vault and rotate its credentials (`src/scripts`), and
Twilio serverless functions. This directory models the parts that carry the program's own logic,
checks them with TLC on small instances, and proves the main safety properties with TLAPS for every
instance.

Paths below are relative to the repository's root, called `src/`.

## 1. Inventory

| component | state it keeps | operations | what is hard |
|---|---|---|---|
| Balancer: health service (`balancer/internal/services/healthService.go`, `server/server.go`) | one `PingPongClient` per application (state, Connected, mutex, connector), `activePpConnection`, the first-connection rendezvous | connect with retries, ping, pong, reconnect, disconnect, shutdown | four goroutines per client, a state written by three of them, mutexes held across a channel send, peers that leave in five ways |
| Balancer: request path (`middleware/balancerMiddleware.go`, `proxyAgentService.go`) | the snapshot of active servers | admit, choose, split, forward, merge | check-then-use on the set of servers, partial failures of a split request, answers visited in map order |
| Balancer: algorithms (`internal/algo`) | the round-robin counter | Next, reset | increments race with resets |
| Service graph (`app/definition/_service.py`, `app/container.py`) and remote commands (`app/callback/status_sub.py`) | each service's status and flags, its status lock, its link to the service it is built from | build, destroy, verify, cascade down the links, ping, lock | a cascade over a forest with readers and writers, driven by messages, while routes run |
| Credential rotation (`app/services/database/*`, `vault_service.py`, `app/interface/timers.py`) | Vault token and database credentials, leases | log in, obtain; renew and rotate are written and never run | its jobs are coroutines that nothing awaits (section 6) |
| Task scheduler (`app/services/worker/task_service.py`) | the leader lock in Redis | acquire, renew, lose, resume | leader election by an expiring lock |
| Task offloading (`app/manager/task_manager.py`) | the task configuration of a request | offload to worker, scheduler, route | its background path cannot run (section 6) |
| Redis streams (`app/services/database/redis_service.py`, `app/callback/event_stream.py`) | streams, consumer groups, pending entries; event and analytics tables | add, read, handle, acknowledge, delete | crashes between handling and acknowledging; two transactions per batch |
| Credits (`app/services/cost_service.py`, `scripts/ncs-lib.lua`, `app/definition/_cost.py`) | balances and bills in Redis | check, deduct, refund, squash bills | optimistic transactions, bills that must add up |
| Email tracking (`app/callback/event_stream.py`, `track_stream.py`, `database/emails.sql`) | a row and a status per email, its events, the day's analytics | request, stream the row and the first event after the response, send, open, consume in batches, settle each hour, expire each day | two writers of a row that lock in opposite orders, statuses written from what was read before |
| ORM cache (`app/depends/orm_cache.py` and the routes that use it) | a Redis entry per row and, for clients, per group | read through, store, invalidate | entries that never expire, written in a different order by each route |
| Client challenges (`database/security.sql`, `app/ressources/auth_ressource.py`) | two challenges with dates per client | issue, refresh, revoke, renew every five minutes | a guard on both dates and a job that renews one after the other |
| Job queues and ingestion (`app/services/worker/arq_service.py`, `celery_service.py`, `app/data_ingest_tasks.py`, `app/classes/step.py`) | jobs, their arguments, the step reached | enqueue, update, abort, resume | what would be hard cannot run (section 6) |
| Reactive subjects and keep-alive (`app/services/reactive_service.py`, `app/manager/keep_alive_manager.py`) | subjects, subscribers | publish, wait, time out | never reached with effect (section 6) |
| Other rows: links, contacts, Twilio (`app/services/*`, `app/models`, `database/*.sql`) | rows and their status columns | CRUD, webhooks | their cached rows and streams are in the models above; the rest are single statements |
| HTTP layer (`app/ressources`, `app/decorators`, `app/server`) | none of its own | guards, pipes, permissions, handlers | order of the decorators; mostly sequential |
| Agentic layer (`app/services/agent`, `app/grpc`, `app/ingestion`, `app/prompt`) | agents, LLM providers | prompt, stream, ingest | mostly calls to libraries |
| Dashboard, static pages, templates, Twilio JavaScript | none | none | outside the scope |

What makes each correct, and the line where it bites, is the list of hazards in `PROJECT.json`.

## 2. Plan

The order of the work, the most important behaviour first; all steps are done.

1. `PingPong`, `BalancerRequests` (which extends it), `ProxyDispatch`, `RoundRobin`: the balancer,
   concurrency by threads and locks.
2. `LeaderLock`: the scheduler's leader election. `StreamConsumer`: Redis streams and their
   handlers, with `AtMostOnce`, the abstract specification it implements. `Credits`: balances and
   bills, with `Account`.
3. `ServiceGraph`: statuses and the cascade over the links, driven by `status_sub.py`, against
   routes that ping and lock. The recursion is written as a path of services, so that the module can
   be proved about.
4. `EmailTracking`: the rows `StreamConsumer` knows only as "written", and the jobs of `emails.sql`.
5. `OrmCache`: rows and cached copies. `Challenges`: the rows that tokens are checked against.
6. Proofs for the components whose invariants are inductive with some help (section 5).

## 3. The modules

A definition `Op_Slip` beside `Op` is `Op` with a plausible slip: no action uses it. It shows that
the property it is paired with in `PROJECT.json` does depend on the code of `Op`. `MC*` modules give
the constants their larger values and the symmetry sets. Two of them, `MCDispatch` and
`MCClientRows`, put two components that share no state in one run and explore the one while the
other is at rest. `map` in `PROJECT.json` gives, for every definition, the lines it stands for.

### PingPong and Lifecycle

One `PingPongClient` per configured application (`healthService.go`, `securityService.go`) and the
two goroutines of `server.go`.

| state | code |
|---|---|
| `smPc`, `pongPc`, `pingPc` | where a client's `StateMachine`, `Pong` and `Ping` goroutines are |
| `state`, `connected`, `started`, `mu`, `link` | `PingPongClient.state`, `Connected`, `IsStarted`, `mu`, `connector` |
| `active`, `hmu` | `HealthService.activePpConnection`, `mu` |
| `wfStarted`, `wfMu` | `WaitForConnection` |
| `startPc`, `shutPc`, `shutTodo`, `shutCur` | `Start` and `Shutdown` |

A step ends where another goroutine can run: at a mutex, a channel, a socket or a write of a shared
field. `Disconnect` is two steps, the critical section (`DisconnectLocked`, whose early return keeps
`client.mu` locked, as the code does) and the close of the connector. The peer leaves in any way in
`Leaves`: a close frame with one of four codes, end of file (which gorilla reports as `CloseError`
1006 and the code only logs), or another read error.

Left out: `isTerminated`, which no caller sets; `RemoveActiveConnection`, which has none; gorilla's
panic after 1000 failed reads.

`Lifecycle` is what the health service promises of each client, without goroutines and mutexes: out,
dialled, listed, out again, in the end over; a second dial only after a restart close or a read
error was heard. `Phase` reads it off the machine's position and `Connected`. `LeadsOneLife` says
that a client leads such a life.

### BalancerRequests

Extends `PingPong` with the HTTP handlers: `ActiveMiddleware`'s test, the snapshot `ActiveServer`
takes client by client, `ChooseServer`, the forward. `rand.Intn(0)` in `ChooseServer` ends the
process (`crashed`). A request is sent to its server (`Send`), sent again when that answers 503
(`Unavailable`), as often as it does, and returns when the server answers or its transport fails
(`Forwarded`), if that ever happens. `steady` and `seen` are history: the clients connected during
all, and during some, of the snapshot. `Beneath(A)` is a step of `PingPong` seen from here.

### ProxyDispatch

`ProxyRequest` after its snapshot: `SplitRequest` deals the items, one goroutine per server forwards
(`CopyAnswered`, `CopyUnavailable` for a 503, `CopyFailed`), `MergeRequest` visits `syncResp` in any
order, as `sync.Map.Range` may, and stops at the first answer that is not good. A server may process
any part of its body and report the rest in `errors`; a failed call may have been processed. Headers
are left out, except the request ids.

### RoundRobin

`Next` and `reset`: the increment is atomic, the reset is a later step, so several callers may be
past the limit at once. `epoch` is history: the callers whose ticket was drawn since the last reset.
The other algorithms: `RandomAlgo` is the free choice of `BalancerRequests`; `WeightAlgo` is never
constructed.

### LeaderLock

`TaskService._leader_loop`. Each Redis command (`TryAcquire`, `ReadHolder`, `Extend`) is a step and
its answer is used in a later one, so keys expire and change hands in between. Either process may
end or see a command fail. Time is in ticks of 300 s. `Gone` is the id of a process that ended and
left the key; a process may also come back with the id it had. A failed command ends the loop, as
the `except` is outside the `while`: the scheduler stays as it was.

### StreamConsumer and AtMostOnce

`RedisService._consume_stream` with the handlers of `event_stream.py` and `track_stream.py`: `kind`
picks one, and the actions differ by it where the handlers do (one or two transactions;
`retry_logic`; what is returned after an exception; the call handler that returns no id list). An
entry moves "new", "pending", "acked", "deleted". `rows` and `counts` say how often a record was
committed for an entry and how often it was added to the analytics: not the same entries, since the
link handler counts an entry before `LinkEventORM(**val)` may reject it (`Miscounted`). Failures
come anywhere: the process stops, a query fails, a transaction is rolled back, or committed with its
answer lost. `lock_logic`'s reader lock keeps `SetStatus` away while a handler runs.

`AtMostOnce` says what the group promises: an entry is handed out at most once, takes effect at most
once and after that, and only what was handed out is removed. It does not promise *at least* once,
and neither does the code: it reads with `'>'` only and never claims pending entries.

### Credits and Account

One credit: its balance, the monthly bills and the receipts in Redis, the requests of four kinds
(which interceptor or job checks and pays, and in which order), and the Lua functions of
`ncs-lib.lua` an operator calls. `deduct_credits` is three steps, WATCH, GET and EXEC, and EXEC
fails if another client wrote the key meanwhile (Redis's WATCH is the external part). A bill's month
is chosen when it is queued. Costs before and after the handler are taken to be equal.
`refund_credits` converts the result of a command that was only queued to an int, which raises:
refunds never reach the balance, and the action says so.

A connection may be lost at any of the three (`Disconnect`, `Unreachable`). While a key is watched
redis-py (4.6.0, `requirements.txt:58`) reports that as a `WatchError`, which `deduct_credits` takes
for a rival and tries again. An EXEC whose reply was lost was run before the connection was gone, or
never will be: in the first case the retry charges the request once more (`unheard`).

`Account` says what a credit promises: a payment takes its price from the funds in one step, if they
are there or may be overdrawn, and nobody pays again who has heard that the payment was made; the
operator adds to the funds or sets them. Who has paid is read off the control state (`Paid`), so the
mapping shows that the three commands of `deduct_credits`, the retries and the operator's functions
between them amount to one step, at EXEC. That a request may be charged twice is in `Account` too:
only with a payment that was not heard of.

### ServiceGraph

The services of one process, each linked to the one it is built from, and `SetServiceStatus`: one
message at a time destroys and rebuilds a service under its writer lock and then recurses down the
links. `path` is the recursion, `done` its cache. `Destroy` clears the flags and leaves the status
alone, `Build` chooses an outcome and sets the flags only when nothing was raised: a build that ends
in `BuildOkError` or `BuildSkipError` leaves a service that is partly available and not built. The
verification before it may put an end to the rebuilding, too: one that refuses its parent
(`Checks`), or `CeleryService`'s, which ends it without destroying what is there (`Skips`). A root's
own verification takes readers of other services under the root's writer (`Needs`). Routes `Ping`
what they need and `Acquire` their locks one by one, some with a timeout (`Timed`). An aiorwlock
lets no reader pass a waiting writer; who owns a lock is not stored but follows from where the
handler and the routes are. `stale` is history: what the service was built from has changed since.
The run's services are `ProfileService`, what is built from it and `VaultService`, which it looks
at; the routes are `sms_relay_otp`, `delete_profile` and `modify_settings`.

### EmailTracking

An email's row, its events and the day's counters. Entries are streamed by the tasks that run after
the response (`Announce` the row, `Tell` the first event), by the sender, which the route awaits or
a worker runs, so that `Send` comes before, between or after these two, and by opened pixels
(`OPENED` and then `DELIVERED`, in that order, so that the status of an email that was opened ends
as `DELIVERED`). A delivery is counted once per email and batch, an opening each time. A consumer's
transaction is a sequence of steps (`Query` is outside of it, as in the code); at READ COMMITTED its
locks follow from where it is and its writes show at `Commit`. `set_email_delivered` selects in two
statements and then updates by id. Handler and job take the analytics and the rows in opposite
orders: `Deadlocked` is PostgreSQL's way out. No code that runs streams a reply or a bounce, so they
are not among the kinds.

### OrmCache

One row, one Redis entry, and ten routes as the sequence of what they do to both (`Program`): load,
save, commit or roll back, invalidate, store. An entry is a key; a client's holds its group, so a
client has an entry for each group it was read or stored under, and the one modelled is that of some
group. The value of a row is the set of the routes whose change it holds, so a lost update can be
seen. Four facts of the code are in these programs: `Invalid` comes before the commit in some routes
and after it in others, and the DELETE of a client is cancelled by its trigger, which returns `NEW`;
`GetClient` does not fetch the group, so `client.group.group_id` raises unless the route has set it:
`update_client` either changes the group (`UpdateClient`, to the entry's group; `MoveClient`, to
another or none) or is rolled back (`KeepClient`), `delete_client` is rolled back; and
`revoke_tokens` raises after its commit, before `Invalid`. `Unaware` are the routes that leave the
entry as it was. The entries have no expiry: `OrmCache` passes `expiry=0` to mean that, while the
docstring of `Cache` (`orm_cache.py:121`) says that 0 expires at once. `InvalidAll` is left out: it
raises before it deletes anything, the scan in `redis_service.py:296` not being awaited.

### Challenges

The two challenges of an ACCESS_TOKEN client, in minutes until they lapse (`left`) and the lifetime
a renewal gives them (`life`). `RawRevoke` is the pair of statements of `raw_revoke_*`: the second
computes the lifetime from the `created_at` that the first has overwritten, so the date stays and
the lifetime shrinks to what was left. `UpdateChallenge` is the job, one transaction for all rows,
and `Guarded` the trigger that may undo it. The instance is the administrator's row with the
lifetimes of `data.sql`, 5 minutes and 1 hour: the API cannot create another ACCESS_TOKEN client
(`admin_ressource.py:204` adds to a `created_at_auth` that is still None). The dates inside the
tokens, the blacklist (whose cache raises on a miss) and `last_authz_id` (`change_authz_id` sets a
misspelt attribute) are left out.

## 4. The runs

| run | bounds | what it shows |
|---|---|---|
| `pingpong` | 1 client, 3 connections, 2 retries, six ways to leave, closes that fail | no mutex stays locked while the balancer serves, no connector is replaced under a goroutine that uses it, the decision to quit stands; a client leads one life (`Lifecycle`); a restart, or a read error, leads to a new connection unless the close of the old one fails; a shutdown that finds the client settled completes |
| `requests` | 2 clients, 1 request at a time, 1 connection each, closes that fail | the snapshot holds every client that was connected throughout and none that never was; a request admitted is answered, unless the process dies or its server keeps it for ever; clients that become connected meet in `UnBlock`, and none of them is stuck there |
| `dispatch` | up to 3 servers and 4 items; 3 callers, limit 4 | dealing is a partition into even, non-empty bodies; a reply reports all that was processed when all answers were good; callers between two resets get distinct tickets |
| `leader` | 2 processes, key of 2 ticks, sleeps of 3 to 5, two ends of processes, either loses Redis | leadership is not dropped while nothing fails; a process that lost the key stops; jobs are run again and again unless failed commands have ended every process's loop |
| `streams` | 3 entries (one invalid, and counted by the link handler all the same; one that cannot be counted), 2 consumers, 2 at a time, 2 faults, each kind of handler | the consumers implement `AtMostOnce`; the analytics never run ahead, but for that invalid entry; nothing valid is deleted unrecorded; every entry is read, and deleted if nothing fails |
| `credits` | 2 requests of any kind that cost 2, balance 3, 4 or none, 2 tries, 2 lost connections, 1 operator call, 2 months | paying implements `Account`: one step, never overdrawn, and repeated only if its reply was lost; the bills are a gapless account that adds up; every charge has its bill; each try of a payment was lost to a rival or to the network |
| `services` | 6 services, 4 of them below one, 3 routes, 1 message waiting | nothing changes under a running handler; no dependent that does not give up its rebuilding answers on what its parent was before, none above a parent that failed; every message is handled to its end, but for one deadlock |
| `services_verify` | the same | **violated**: a dependent whose parent is usable is rebuilt |
| `tracking` | 1 email, 2 consumers, batches of 4, 2 attempts, 2 visits, 1 fault | the counters agree with the events whatever is undone; deliveries are counted within bounds; a status is one that was recorded; no email stays `SENT` or `RECEIVED` for ever |
| `tracking_opens` | the same | **violated**: a batch counts an email as opened once |
| `client_rows` | 3 routes, 2 readers, 1 failure; the administrator's challenges, a job up to a minute late | in which interleavings, and in no others, routes that see to an entry leave it stale or lose a change; what has lapsed is renewed at once while no row has two lapsed challenges |
| `challenges` | the administrator's challenges, a job that is never late | **violated**: a challenge that has lapsed is renewed |

Why the bounds are enough. Three connections are what a goroutine of the first needs to meet the
second while a third is prepared; several clients meet in `requests`: two are what it takes for one
to send to the rendezvous while the other asks for its mutex. The theorems of section 5 lift every
bound of the connection layer's safety. Two clients are what a snapshot that mixes two moments
needs. Three servers and four items give uneven bodies, and bodies of one item. Three callers let
two be past the limit while a third draws. Two processes are what one key can be contested by; the
theorem lifts the number. Sleeps are longer than the key lives, as in the code (`TTL` plus at least
a tick), in units coarse enough to keep both orders of expiry. Two consumers and batches of two
leave an entry for the second; two faults are one in a handler and one in its aftermath. Two
requests of cost 2 against 3 make one of them lose, and against 4 leave room for one of them to be
charged twice; two faults let a request lose both of its tries to the network. The forest of
`services` has a service with three dependents, one of them with a dependent of its own, and the
service its verification looks at; the routes are one that takes two writers, one of three readers
and one that takes `VaultService`'s writer: the deadlock takes the second and the third. One
email is what two consumers and the job can cross on, and two visits and a batch of four hold two
openings and two deliveries of it; the theorems lift the numbers. Three routes are one more than a
lost update takes, with a reader between any two steps. `left` is not counted beyond a run of the
job (`Floor`): a challenge that lapsed before that is as old as any.

Every bound is a constant: `MaxRetry`, `Attempts`, `Count`, `Period` and the TTLs are the code's;
`MaxConns`, `MaxEnds`, `MaxFaults`, `MaxOps`, `MaxMonth`, `MaxServers`, `MaxItems`, `MaxQueue`,
`MaxVisits` and `MaxLate` are the model's. Deadlock is not checked where the system really stops:
the balancer after its shutdown, a request after its answer, credits when all requests are served,
streams when all entries are consumed, routes that have run, an email whose row is deleted and whose
events are read; and in `services`, where the deadlock is real and named by `Knot`.

### Fairness

- `PingPong`, `BalancerRequests`: weak fairness of every goroutine and handler, as the Go scheduler
  gives. A peer that was asked answers, or its transport fails (`PeerAnswers`): without that the
  permission request of a silent peer would never end, its HTTP client having no timeout. The server
  a request was sent to need not answer, and a 503 may be repeated for ever: `RequestCompletes` says
  what is left of a promise then. `CountConnection` is strongly fair in `requests`: a waiting writer
  of a `sync.RWMutex` lets no later reader in, so the requests that keep reading the count do not
  keep a client out. There a signal comes once the listener is up (`SignalWhileListening`);
  `pingpong` explores the one that comes before. Nothing obliges a peer to leave or a signal to
  come.
- `LeaderLock`: time passes, and a live process's event loop runs its tasks. `Prompt`: from some
  time on Redis answers, and the loop handles the answer, within a tick of 300 s (without it a key
  could expire between the same two commands for ever). `MaxEnds` is the assumption that processes
  stop ending. `SchedulerComesBack` speaks of executions where some loop goes on: a failed command
  ends a loop for good.
- `StreamConsumer`: consumers run, and a process that stopped is started again (the restart policy
  of the deployment). `EntryIsDeleted` speaks only of executions without faults.
- `ServiceGraph`: the channel's loop goes on, a route that waits gets a lock that stays free and its
  handler ends. The handler's steps are strongly fair: an aiorwlock that becomes free goes to those
  who wait for it. A wait of a route with a timeout may end at any time and need not.
- `EmailTracking`: consumers go on (strongly: a lock that comes free again and again is got),
  PostgreSQL ends deadlocks, the job's transactions go on, and the job is started again and again,
  in the end with every row an hour old. The sender and the tasks after the response may never run.
- `Challenges`: time passes and the job that is due runs (used by `challenges` only).

Some properties are conditional, and their conditions are hazards that they do not cover:
`QuitIsFinal` exempts the moment in which `client.state = TO_RUN` overwrites the decision
(`healthService.go:305`); `ShutdownCompletesWhenSettled` speaks of clients that are not in the
middle of connecting or leaving; `RestartReconnects` of closes that did not fail, as an error of
`Close` quits (`:116`); `LoserStops` exempts loops that a failed command has ended; `LapseIsShort`
rows with both challenges lapsed. Each condition is a state the code does reach.

### Disagreements found

1. `services_verify`. `async_verify_dependency` is a "Callback to check if the state of the service
   dependency is suffisant to run" (`app/definition/_service.py:200`) and the cascade rebuilds a
   dependent when it answers true (`status_sub.py:53`). For the SMS and call services the answer is
   the opposite (`twilio_service.py:226`): a message that rebuilds a usable Twilio destroys them and
   leaves them so.
2. `challenges`. The job renews one challenge of a row after the other and the guard looks at both
   dates after each statement (`security.sql:353`): once both of a row have lapsed between two runs,
   every run raises and nobody's challenges are renewed again. With the lifetimes of `data.sql` that
   is about an hour after the installation. `LapseIsShort`, in `client_rows`, says what does hold
   until then.
3. `tracking_opens`. "Ensure only one open event is tracked per email_id" (`event_stream.py:195`):
   the counter is raised before and outside of the test that follows the comment, so a batch with
   two openings of an email counts two.

Also true of the code and of the models, without a run of its own:

- Balancer: a shutdown may hang, as a `Disconnect(true)` between the return of `Connect` and
  `client.state = TO_RUN` (`healthService.go:305`) is overwritten, and `Disconnect` of a client that
  is not connected returns with its mutex locked (`:87`). `activePpConnection` is never decremented
  (`:303`), so that requests are admitted without a server and `ChooseServer` panics (`crashed`). A
  peer gone with end of file stays listed. A 503 is retried for ever, `retry` being never
  incremented (`proxyAgentService.go:208`). The merge leaves out the request ids of what it did not
  visit.
- Scheduler: two processes run jobs at once when the key expires during a sleep; an outage of Redis
  that all processes meet ends all loops, and no job runs until one is started again.
- Credits: a request is charged and billed twice when the reply to its EXEC is lost; refunds never
  reach the balance; a "data" request may be served and then refused its payment; the bill of a
  "set" leaves out what the balance was.
- Credentials: nothing is ever renewed, as the refresh jobs are coroutines handed to a pool of
  threads (`timers.py:67`, `:107`); the midnight script writes `secret-id.txt`
  (`vault-secret-id-rotator.sh:26`) and the application reads `app-secret-id.txt`
  (`constant.py:229`).
- Streams: an entry whose handler failed stays pending for ever; a link event that is rejected has
  been counted.
- Services: a route checks services before it locks them, so they may be unusable by the time it
  runs; `CeleryService` stays usable with the profiles that were when the broker is away during the
  cascade; and the cascade can wait for ever for `VaultService`'s reader (`profile_service.py:115`)
  while `delete_profile` has it and waits for `ProfileService`'s, and `modify_settings` waits for
  its writer.
- Rows: an `OPENED` email becomes `DELIVERED`; a revoked client stays in the cache as authenticated
  (`admin_ressource.py:511` raises before `Invalid`); a client that changed its group stays in it
  under the old one; a client can neither be deleted (`:250` raises) nor updated without a change of
  group (`:227`); saving a whole row undoes what another route committed in between; a revocation
  shortens the lifetime of what it renews.

`SettingService.async_verify_dependency` (`setting_service.py:27`) returns nothing, which the
cascade would take for a refusal, having waited for a reader as `profile_service.py:115` does; no
link to it is verified. The cache of the blacklist is filled under a list and asked for by an id.
The agent routes send state messages with `name` where the handler reads `service`
(`agent_ressource.py:84`).

## 5. The proofs

TLAPS proves the following for every value of the constants that satisfies the named `ASSUME` of the
module (finite sets of clients, callers or entries, positive lengths and limits; TLC evaluates the
same assumptions on the runs' values). Each proof has the shape `Init => IInv`, `IInv /\ [Next]_vars
=> IInv'`, `IInv => Inv`.

- **`PingPong_proofs`**: `TypeOK`, `NoLeakWhileServing`, `SenderHasReceiver`,
  `ConnectorReplacedAlone`, `ReconnectJustified`, `CountCoversConnected`, `QuitNotListed` and
  `QuitIsFinal`. The properties are not inductive: that no client that is not connected is ever
  disconnected needs to know, for every position of the machine, which of `Pong` and `Ping` run,
  what `connected`, `state` and `link` are, and who holds which mutex. `IInv` states it client by
  client (`ClientInv`: `RunInv`, `LockInv`, `ListedInv`, `ClosingInv`, `SendInv`, `ReasonInv`). The
  count is a second invariant, by cardinalities. From `IInv`, and from a link having been dialled
  wherever the machine holds or runs one (`DialledInv`), follows that `Spec` implements `Lifecycle`:
  only the dial, `Connected = true`, `Disconnect` and the machine's return are steps of it. Of
  `BalancerRequests`: `SnapshotConsistent`, whose invariant follows a snapshot: who has been
  connected all along is in the slice once visited, since a connected client has always been granted
  permission (`StartedInv`). A request touches the connection layer by holding `HealthService.mu`
  only, so `IInv` holds of the composition too.
- **`Dispatch_proofs`**, of `RoundRobin`: the type, `IndexBounded`, `TicketsDistinct`, for every
  limit and number of callers. Of `ProxyDispatch`, for every number of servers and items: a split
  request's bodies are a partition, even and none empty (`SplitIsPartition`: an item of one body has
  its counterpart of the round before in any other, an injection), so no item is processed by two
  servers (`ProcessedOnce`); and `MergeComplete`, whose invariant (`AnswerInv`) says what a good
  answer leaves of its body.
- **`LeaderLock_proofs`**, of `LeaderLock`: the type and `LeadershipKept`, for every number of
  processes. The invariant, while nothing has failed: nobody has acquired yet, or some process is
  the last to have acquired: it runs or is about to, the key is free or its own, and an answer it
  has yet to handle names nobody else, so that it will not pause.
- **`StreamConsumer_proofs`**: the type, `RecordedOnce`, `CountedIsRecorded`, and that `Spec`
  implements `AtMostOnce`. The invariant: a batch in flight is pending in the group's list and
  belongs to one consumer (`HeldInv`, `Disjoint`), and until its transactions its entries have had
  no effect (`FreshInv`); an entry counted without a row is one of `Miscounted`. `DeletedIsRecorded`
  needs what a handler is about to return (`RecordInv`, `ReturnedInv`): until its transaction
  committed only entries it found invalid, afterwards entries that are recorded, and counted where
  the handler counts.
- **`Credits_proofs`**: the type, `LedgerChain`, `NoOverdraft`, `TriesHaveCauses`,
  `BilledAsCharged`, `AddsUp`, and that `Spec` implements `Account` (`PaysAtOnce`), of which
  `NoOverdraft` is a consequence a reader would look for. The invariant adds that months to come
  have no bill (`FutureIsEmpty`); that a payment whose WATCH still stands has seen the present
  balance, and its bill will be the newest wherever it is filed (`Standing`); and that each lost try
  had a rival or lost its connection (`RivalsInv`). For `BilledAsCharged` and the refinement a
  request's kind follows from where it is (`KindInv`): a refund never reaches `deduct_credits`. A
  charge that was not heard of is a step of `Account` like any other. `AddsUp` is about sums of
  lists of any length and any number of months: a sum is a recursive function (`SumTo`), and what it
  does when a bill is put first (`SumFirst`) or one month changes (`SumChange`) follows from its
  being the only list of partial sums (`SumUnique`). The inductions behind that go by the least
  number that fails, which the library's `WFMin` gives (`Least`, `Induct`): its own induction
  theorems take an operator and cannot be used.
- **`ServiceGraph_proofs`**: the type, `NoStaleService`, `StableUnderLock`, for every forest of
  services, set of messages and set of routes. The invariant follows the cascade: what has changed
  under a dependent's feet is in `path`, in hand or below something that is; the services that are
  done have no stale dependent; and a route has a lock only where the handler has no writer, and
  readers and writers exclude each other. A service that may give up its rebuilding (`Skips`) is
  exempt, what is built from it is not. For `NoneAboveAFailure` a second invariant (`AboveInv`): a
  usable service that verifies its parent, above one that is not usable, is below the path and the
  cascade has yet to visit it. The checks are of services (`Checks \subseteq Service`).
- **`EmailTracking_proofs`**: the type, `CountersMatchEvents`, `DeliveredWithin` and
  `StatusIsRecorded`, for every number of emails, consumers, failures and every batch. The invariant
  adds that the rows a handler has found belong to its batch (`FoundInBatch`); the rest is what a
  batch and a job add to counters and rows, by cardinalities.
- **`ClientRows_proofs`**, of `OrmCache`: `LostOnlyToRivals`, for any readers, writers and faults.
  The invariant: as long as the row has not changed under a route, each route under way holds every
  committed change, and its own. Of `Challenges`: `LapseIsShort` for any clients, lifetimes and
  period. The invariant: no date is further in the past than the job's last run, or a row has both
  dates in the past, and then the job fails and the row stays that way. Of `OrmCache` also
  `TransactionHeals` and `AfterCommitHeals`, of the routes that see to the entry: while nothing has
  crossed or landed (`HealInv`), a fill under way holds the row itself, an entry that differs from
  the row is one that a route under way has yet to remove or to save. Routes that invalidate after
  their commit never have an entry stored between the two, so the second follows from the first.

Every invariant and action property of the passing runs is a theorem, the refinements of
`Lifecycle`, `AtMostOnce` and `Account` among them. Only model-checked is what needs fairness, which
the provers cannot reason about: `ConnectSettles`, `RestartReconnects`,
`ShutdownCompletesWhenSettled`, `RequestCompletes`, `LoserStops`, `SchedulerComesBack`,
`EntryIsDeleted`, `CascadeSettles` and `NoLimbo`; and of course the three disagreements, which TLC
shows.

## 6. What is not modelled

The components marked `not_modelled` in `PROJECT.json`, with the reason there. Five of them have
code that looks as if it should be here, and cannot run:

- Credential rotation: `refresh_token` and `creds_rotation` are coroutine functions that
  `timers.py:107` gives to the executor `'thread'`, which calls them and drops what they return.
  Token and leases are those of `build` until they run out; no protocol is left to explore.
- Task offloading: the background path reads a variable before it is assigned and calls
  `add_messages` without its arguments; what is left queues one task and returns.
- Jobs and ingestion: `StepRunner.__aexit__` raises at the end of each step, and updating a job
  looks for a key that arq does not store.
- The keep-alive manager: its users call the functions before it with arguments missing.
- The WebSocket proxy of the balancer, and the interceptors that cache responses: nothing calls
  them.

Within the modelled components: `WeightAlgo` and `isTerminated` (never reached); the merging of
headers; the panic of `HasApps` without configured applications; Redis channels (`_consume_channel`)
but for the one that carries the services' messages; the two stream handlers that no configuration
registers; the figures inside the analytics; the statements of `build()`; `SetServiceVariables`,
which has no sender; messages to `SettingService`; the transit keys, and COST_FLAG off. SMS rows:
the handler removes a key its events do not have (`del val_copy['correction']`), so every SMS event
is refused. `DeletedIsRecorded` speaks of link, email and tracking streams only: an SMS event whose
counting raises is returned as invalid, and deleted, whatever becomes of its row; the subscription
handler finds every entry invalid; the call handler always raises.
