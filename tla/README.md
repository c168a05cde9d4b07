# Kyrux: specifications and proofs

Kyrux is a web framework in Go: an ORM and migrations, sessions and login, a task queue, a realtime
hub, cache, mail, an admin, a router with middleware and templates, adapters for outside services and
a command line. This directory holds TLA+ specifications of the parts of it in which several
goroutines, replicas, requests or commands meet, the TLC configurations that check them, and proofs
that TLAPS checks.

Paths below are relative to the repository; `queue.go` alone means `core/queue/queue.go`, and so on.
`PROJECT.json` maps every definition to the lines it stands for, and lists what in this code is hard
to test ("hazards") with the properties that watch it.

1. [Inventory](#1-inventory)
2. [Modules](#2-modules)
3. [What the runs check](#3-what-the-runs-check)
4. [Bounds](#4-bounds)
5. [Fairness](#5-fairness)
6. [What is proved](#6-what-is-proved)
7. [Where code and documents disagree](#7-where-code-and-documents-disagree)
8. [What is not modelled](#8-what-is-not-modelled)
9. [What is left](#9-what-is-left)

## 1. Inventory

### In the background of a process

**Task queue, memory mode** (`queue.go`: `New`, `Register`, `SetMaxRetries`, `SetMaxAge`, `Enqueue`,
`worker`, `process`, `requeue`, `Close`). *State*: a buffered channel, a registry of handlers, the
limits, a closed flag and a WaitGroup. *Interaction*: any request calls `Enqueue`; workers call
handlers; a failed task waits in a `time.AfterFunc` timer and is sent again; `bootstrap.Run` calls
`Close` while it shuts down. *Hard*: the closed flag is tested under a read lock that is released
before the send, both in `Enqueue` and in the timer; the limits can change between the attempts of a
task; `Close` drains a channel to which timers still want to send. *Correct when*: a task is in one
place, an accepted task gets exactly one outcome, a handler is started at most as often as the limit
allows, nothing enters after `Close` and nothing runs after it has returned.

**Task queue, Redis mode** (`queue.go`: `NewRedis`, `redisWorker`, `enqueueTask`, `Close`). *State*:
one list on the server, shared by all replicas; per replica a client, workers, a registry. *Hard*:
`LLEN` and `LPUSH` are two commands; a command may fail after it took effect; a replica may die with
tasks in hand and come back; workers start before handlers are registered. *Correct when*: a task is
popped by one worker of one replica, an accepted task is accounted for, the number of attempts holds
across replicas, and the end of one replica leaves the list to the others.

**Realtime hub** (`realtime/realtime.go`, `realtime/client.go`). *State*: the registered connections, a
channel and two goroutines for each, an RWMutex. *Interaction*: any goroutine of the application
publishes to everyone or to one session; both pumps of a connection unregister it. *Hard*: double
close and send after close; `Unregister` performs a closing handshake while it holds the write lock;
full buffers. *Correct when*: nothing panics, nobody receives another session's update, updates keep
their order, a dead connection ends and publishers are not blocked for good.

### Done once for many requests

**Migrations** (`database/migrate/migrate.go`, `cli/removemigration.go`). *State*: the schema, the
table `kyrux_migrations`, the directory of files. *Hard*: no transaction anywhere; a run may die
between any two statements; two replicas may migrate at once; a file whose tables all exist is
recorded without being executed. *Correct when*: files are recorded in order, a record is never ahead
of the tables, an undone file leaves nothing, a failed migration can be completed.

**Migration files** (`cli/makemigrations.go`). *State*: none but the directory: the schema known so far
is read from the text of the files, comments included. *Interaction*: a developer edits structs and
files; `migrate` applies them, `removemigration` takes them back; `migrate.execSQL` cuts their text at
every `;`. *Hard*: tables that refer to one another, columns in indexes, the order of statements in both
directions, files edited by hand. *Correct when*: what the files say and what the database has are the
same, and a generated file works in both directions, as far as the driver understands it.

**Core, lifecycle, registry, container and adapters** (`core.go`, `lifecycle/`, `registry/`, `container/`,
`adapters/*`). *State*: the list of active modules, the container, and what each adapter holds of the
outside world: listeners, connections, pools, providers. *Hard*: a phase that fails half way; a stop
in the middle of calls; goroutines of `Serve` that begin late. *Correct when*: what is not active holds
nothing, a call keeps what it uses, and a shutdown releases everything.

**Bootstrap and mail** (`bootstrap/bootstrap.go`, `mail/`). *State*: the parts that `Init` opens in
stages, each with a rule of its own for a failure; the signal's goroutine; mails, which are tasks of
the queue if there is one. *Hard*: the handlers get five seconds, then queue and cache close under
them. *Correct when*: production never serves from a made-up database or with an example's secret, an
accepted mail is tried before the end if it is this process' to try, and a signal ends the process.

### In front of the database

**Statement cache** (`database/database.go`: `stmtCache`, `PrepareCached`, `Close`; used by `execCached`,
`queryCached`, `queryRowCached` in `orm/exec.go`). *State*: a map and an LRU list of at most 512 prepared
statements. *Hard*: statements are prepared, handed out, evicted, closed and executed outside the
lock; `closeAll` waits for executions with the lock in hand. *Correct when*: map and list agree, a
hit is open, nothing is leaked, a statement closes under its caller only when displaced, every call
ends.

**Query builder** (`orm/query.go`). *State*: a `Query` collects conditions, their arguments, an order with
arguments of its own, limits, joins and the first error; the chain is built by calls in any order and
executed by a terminal method, again and again if the caller likes. *Interaction*: the statements go
through the statement cache; other requests insert and delete rows between them. *Hard*: SQL and
arguments are assembled from pieces collected apart from each other; an error is only remembered;
page numbers reach the limit of `int`; pages are read while rows come and go. *Correct when*:
arguments fit the placeholders, a refused condition never widens a statement, a page is the slice
asked for, and a walk by key gives each row once.

**Records written after a look** (`orm/query.go`: `GetOrCreate`, `UpdateOrCreate`; `orm/exec.go`:
`CreateAll`; `security/auth/ensure_superuser.go`, `cli/createuser.go`; `database.go`: `Transaction`).
*State*: rows of a table with a unique column. *Hard*: the look and the insert are two statements;
replicas start together; a transaction of PostgreSQL is aborted by the failed insert. *Correct when*:
lost races are recovered from, each row has one creator, and an error leaves what is stated.

### What a process remembers of its visitors

**Sessions, login and throttle** (`security/session/session.go`, `security/auth/login.go`,
`throttle.go`). *State*: the sessions by identifier and by user key, two limits, the throttle's
counters per login and address, the browsers' cookies. *Hard*: the throttle's test, the database, the
throttle's count and the store are separate critical sections; expired sessions leave map and index
at different moments; responses arrive late or never. *Correct when*: map and index agree, the limits
hold, the throttle overruns by a known amount and forgets nothing inside its window, and the session a
login replaces is dead before its successor is handed out.

**API tokens** (`security/auth/auth.go`). *State*: the map of revoked tokens. *Hard*: a validation tests
the expiry, in whole seconds, before it looks in the map, from which a ticker drops what has expired.
*Correct when*: a revoked token is never valid again.

**Captcha** (`security/captcha/store.go`). *State*: the code in the visitor's session. *Hard*: `Verify`
reads and deletes in two locked calls; images replace codes, sessions end. *Correct when*: a code that
an answer has met passes no later one.

**Cache** (`cache/cache.go`). *State*: entries with their expiry, a ceiling that may move, or Redis.
*Correct when*: the map stays below its ceiling and drops nothing live that it need not.

### What a browser meets

**Router, middleware, csrf, compression, render, error pages** (`router/`, `security/middleware/`,
`security/csrf/`, `compress/`, `render/`, `errors/`). *State*: pools of contexts, maps and gzip writers;
the renderer's current context by goroutine; the limiter's windows; the csrf cookie. *Hard*: pooled
objects outlive a request in goroutines of its handler; a panic passes through the layers, before or
after something was written; windows begin at each client's own time. *Correct when*: values, tokens,
limits and bodies stay with their request.

**Admin** (`core/admin`). *State*: the role cached in the session with its stamp, rows, history. *Hard*:
the role is read, stamped later and trusted for five seconds while tabs overlap; a row and its history
are two statements; a form sends back every field, which the table may hold otherwise than the form or
the history; filters by day have an edge, and pages have links. *Correct when*: access ends in time, the
history accounts for the rows, filters select days, and an untouched field stays.

## 2. Modules

| module | models | state and actions against the code |
|---|---|---|
| `Queue` | queue, memory mode | `tasks` is the channel, `closed` flag and channel close (one critical section), `call` a call of `Enqueue` between test and send, `retry` the timer and its goroutine between test and send, `wpc`, `job`, `limit` a worker inside `process`. `EnqueueCheck`/`EnqueueSend`, `Receive`, `Start`, `Finish`, `GiveUp`, `Retry`, `RequeueCheck`, `RequeueSend`, `RequeuePanic`, `CloseBegin`, `CloseReturn` are the code's critical sections and channel operations. |
| `TaskLedger` | what a queue promises | offered, refused, pending, running, ended; open, over. `Queue` implements it through the mapping `PhaseOf`; `Server` uses it for the queue its mails go through. |
| `SharedLedger` | what it promises to processes that share it | the ledger, of which the end of one process takes some tasks in one step (`Fall`). `RedisQueue` implements it through the mapping `SharedPhase`: a task is pending in the list, in the hands of a worker that has not started it and in a retry, whatever its sender was told. |
| `RedisQueue` | queue, Redis mode | `list` is the server's list; `send` a sender between `LLEN` and `LPUSH`; a replica has `up`, `registered`, `closed`, `closer` and workers. A command fails with or without effect. |
| `Hub` | realtime hub | `clients` is the map; `chan`, `chanClosed`, `pump`, `socket` a connection; `todo`, `publishing` a publisher inside its loop with the read lock, `holder` an `Unregister` with the write lock. |
| `Migrate` | `migrate.Run`, `removemigration` | `schema` and `recorded` are the database, `disk` the directory; every query and statement is a step. |
| `MakeMigrations` | `makemigrations` and its files | `declared` are the structs, `files` the statements up and down of each file with those it leaves commented out; `KnownSchema` reads them as `migSchemaInDir` does, `Alters`, `PendingModels` and `Generated` are the difference; `Executed` is the database of one `driver`, which refuses a file for what is there or for its text (`Understood`: what is left of it after the cut at every `;`). |
| `Lifecycle` | Core, its modules and adapters | `active` is the list of the lifecycle, `held` what an adapter holds, `serve` the goroutine of `Serve`, `calls` the calls of a server; a module is tried once and may fail in `Init` (`NotReady`), in `Configure` or when it starts. |
| `Server` | `bootstrap.Init`, `Run`, the end; mail | `stage` walks through `Init`; `main`, `quit` are the goroutines of `Run` and of the signal; `request` a request that sends a mail, `mail` the ledger of the queue behind it: in Redis mode of the list that the replicas share, so that a push after `Close` has begun (`Push`) and an end without a try (`fate`: taken by another replica, or by a BRPOP whose reply is lost) are steps of it. |
| `StmtCache` | statement cache and its users | `items`, `order`, `ahead` are map and list (`ahead[q]`: the queries nearer the front), `open` the statements not closed; `pc`, `stmt`, `drop` a caller; `closer` is `DB.Close`. `since` is history. |
| `OrmQuery` | query builder and paging | `q` is the `Query`, one action per builder method; `statement` is the one last executed, its placeholders and arguments side by side; `paging` is `Paginate` between COUNT and SELECT; `walk` a reader who follows `PaginateAfter`'s cursors. `asked`, `page` and parts of `walk` are history. A condition is the set of rows that meet it. |
| `Records` | look, then write | `call` is what each process calls, alone or in a transaction; `stored` the committed rows, `pending` those of open transactions, whose keys make others wait; `inserts`, `deletes` are history. |
| `SessionStore` | session store | one action per method, each being one critical section; also the abstract specification `StoreSpec` that `Login` implements. |
| `Login` | `Login`, `Logout`, throttle | EXTENDS `SessionStore`; `request[r].at` is the place of a request between two critical sections. |
| `Tokens` | `Authenticator` | `validation[v].at = "lookup"` is a call between the clock and the map; `Boot` is a restart with the same secret. |
| `Captcha` | `Store` | `image` and `submit` are requests between their locked calls; `sentSid` is the browser's cookie. |
| `Cache` | `Cache` | `entries` maps a key to its expiry; `Evicted` is the choice of `evictLocked`. |
| `Requests` | the path of a request | `conn` is a connection inside the chain of router, Recovery, RateLimit, csrf, Compress and handler; `ctxPool`, `dataPool`, `gzPool` are the pools, `current` the renderer's map by goroutine; a handler panics before it writes (`Panic`) or after (`PanicLate`), and `Recovery` writes its page to what is there; `answers`, `pages`, `passes` are history. |
| `Admin` | the panel | `at`, `pass`, `form`, `job` are a tab between the steps of its request; `stamp` is the role cached in a session; `rows`, `history` the tables; `FormatInput` and `Written` are the two conversions of a field, `Inserted` and `Updated` what the statements make of it (autonow, defaults), `Redacted` what the history keeps (stars, addresses); `Followed` is the list with its links to the next page; `lost` marks rows whose history failed. |
| `Web` | `Requests` and `Admin` side by side | one of them in each behaviour (`part`), and the values of the variables of both. |
| `MC*` | | values of the constants, symmetry, and the unions of section 3. |
| `RealtimeProofs`, `OperationsProofs`, `MakeProofs`, `LoginProofs`, `StmtProofs`, `OrmProofs`, `VisitorProofs`, `SequenceFacts` | | theorems, and facts they rest on, section 6. |

`Login` is composed with `SessionStore` by conjunction: an action of `Login` names the operation of the
store it performs, and the proof `LoginImplementsStore` says that it touches the store in no other way.
`Server` composes bootstrap with the ledger of the queue by INSTANCE: an action of a mail names the step
of the ledger it is, and `QueueImplementsLedger` says that the queue takes no others. In Redis mode
`ReplicasImplementLedger` says so of all the replicas together, but for what falls with a process; one
process sees of that ledger what `Server` allows beyond `Accept` and `End` after a run: a push that was
past the test of `closed`, and tasks that end without it. `Migrate` and `MakeMigrations` meet in the
files: the one takes them as sets of objects, the other generates them. The operators marked "variant"
next to a definition are forms a plausible bug would give it; no specification uses them.

## 3. What the runs check

Six runs explore the project, six more show a disagreement of section 7. A run that has several parts
takes one of them in each behaviour (`part`): the parts share no variable and those a behaviour is not
about stay in one fixed state, in which no action with a fairness condition is enabled. Such a run
checks each part as a run of its own would, and never an interleaving of two.

| run | question and answer |
|---|---|
| `Realtime` (`Queue`, `Hub`) | May calls, workers, retries and `Close` duplicate, lose or smuggle in a task, with limits that change at any moment and a clock? No: `QueueSound`, `CloseDrains`, and the queue implements the ledger, which bounds the runs of a task. Do pumps and publishers panic, leak, misdirect or reorder? No: `HubSound`, `DeliveredAsPublished`. `BackgroundSettles`: every accepted task settles and `Close` returns, unless a retry's send on the closed channel kills the process (run `QueueCrash`); dead connections end and publishers get through. |
| `Operations` (`Migrate`, `RedisQueue`, `Lifecycle`, `Server`, `MakeMigrations`) | With kills and failures, two migrators or removals one at a time: is the record ahead of the tables, does an undone file leave anything (`RecordSound`, `UndoLeavesNothing`)? Two replicas, a failed command, a crash: is a task ever in two places, unaccounted for or tried too often (`RedisQueueSound`), and do replicas, failed commands and crashes together do more than a ledger allows (`ReplicasShareLedger`)? May modules that fail at any phase leave things open, or a shutdown close what a call uses (`ModulesSound`)? May production serve from a made-up database (`ServerSound`)? Do edits, generated files and the database ever part (`SchemaIsKnown`)? No to all, but for columns that a file dropped and that taking it back does not restore (`lost`). May an accepted mail be untried when the process has ended (`AcceptedMailIsTried`)? Only if it is older than `maxAge`; with Redis also if it is still in the list, another replica has it, or the reply that brought it was lost. Does every generated file work in both directions (`GeneratedFilesWork`)? On PostgreSQL, but for files edited by hand, rows that do not suit and a table that refers to a later one; on SQLite only without searched columns; on MySQL no file is executed. `OperationsSettle`: running migrate again completes it, Redis' list empties, a shutdown and a signal come to their end. The exceptions are named in the properties: a column that exists stops a migration for good, a gRPC stream holds `GracefulStop`, Kafka topics opened after `Close` stay open. |
| `StmtCache` | Is the cache sound, are statements leaked, may one be closed under its caller? Only if as many other queries as the cache holds were used in between, or the database is being closed. Every call ends, although `closeAll` waits with the lock in hand: an execution needs no lock to end. |
| `Database` (`OrmQuery`, `Records`) | Every chain of up to three calls, any statement, page or walk: do the arguments fit, does each statement select what was asked, are pages the slices asked for and walks complete? Yes, but for the walks named below and in section 7. Three processes that look and then write: `CallsRecover`, outside of a transaction; `CreateAllKeepsChunks`. |
| `Sessions` (`Login`, `Tokens`, `Captcha`, `Cache`) | Index, limits, window and replaced sessions, under two concurrent requests of one browser; the overrun of the throttle is at most the number of concurrent requests minus one. Revoked tokens stay out, but for one that expires between the two tests of a validation. Codes are used once, but for answers that run at once. The cache makes room. |
| `Web` (`Requests`, `Admin`) | Do pools, goroutines and panics ever mix the tokens, values or bodies of two requests? Not unless a handler behind Compress panics; and a handler that panics after it has begun to write answers with a status that is not 500 and, if the length was not declared, with the error page behind its text. How much passes the limiter in a window's length? At most twice its limit. Does access end in time? Yes. Does the history account for the rows? But for columns the database fills; of an optional column it has an address. Do filters match days, from the first page to the last? Unless another size of page is asked for than the default: then `FiltersMatchDays` says what the links show. Do untouched fields stay? With a zone of UTC, but for the seconds of a datetime, autonow columns and an empty foreign key, which becomes the first option. |
| `QueueLost`, `QueueCrash`, `RedisQueueRestart`, `MigratePartial`, `OrmZeroCursor`, `AdminZone` | The disagreements of section 7. |

Behaviours met while modelling that no run is made for. The properties except them by name, and where
a document says otherwise it is quoted here or in section 7:

- *Queue*: `Enqueue` panics in its caller when `Close` comes between its test and its send (in the model
  it becomes the outcome of the call); `LLEN` and `LPUSH` of several replicas overrun `maxLen` by the
  number of concurrent senders.
- *Migrations*: two replicas migrating at once may both execute a file, and one of them then fails on
  the record's UNIQUE name. `makemigrations` lower-cases the column names it reads but not those it
  writes (`makemigrations.go:590`): a field whose column tag has a capital is new every time. Removing a
  file in the middle makes its number free for another. The section down of a file knows nothing of a
  DROP that its developer uncommented in its up, as the file invites to (`makemigrations.go:323-330`): when
  it is taken back the column stays lost, while the text of the older files still has it. The next
  `makemigrations` takes it for present, and the database refuses the down of the file that added it.
- *Migration files*: `execSQL` cuts the text of a file at every `;` (`migrate.go:205`), those between BEGIN
  and END of the triggers that `migFTSUpSQL` writes for SQLite included (`makemigrations.go:396-401`): a
  file with a searched column fails there at its first trigger. MySQL knows neither AUTOINCREMENT, with
  which `migrate` creates its own table, nor IF [NOT] EXISTS for indexes (`makemigrations.go:290`, `295`,
  `312`, `315`, `342`, `354`). `USE.md:1047-1049` promises all three drivers; `GeneratedFilesWork` excepts
  the cases (`NotUnderstood`).
- *Mail in Redis*: a BRPOP that takes a mail and whose reply is lost takes it for good (`queue.go:309-319`),
  against the words of `bootstrap.go:425`; another replica, or the next process before it has registered
  its handlers, may discard it (`queue.go:354`). `AcceptedMailIsTried` excepts both (`fate`). An `Enqueue`
  past the test of `closed` still pushes while `Close` waits for the workers (`queue.go:223-246`): such a
  mail is in the list for whoever comes.
- *Core and adapters*: `database.Open` does not close the pool when Ping fails (`database.go:256`), nor
  OpenTelemetry its exporter when the resource fails; `OnlyActiveHold` excepts both. NATS' `Drain` is
  asynchronous. When `ListenAndServe` fails, `Run` exits with nothing closed (`bootstrap.go:437`).
- *Statement cache*: a `put` after `closeAll` caches a statement of a connection about to close.
- *Query builder*: `Paginate` counts without DISTINCT. Three walks are left out of `KeysetOnce` and
  `ArgsFitHoles` because the code gets them wrong or leaves them to the caller: after `OrWhere`, the
  condition on the key is appended without brackets and, AND binding tighter, applies to the last
  condition only, so pages repeat rows and need not end (`query.go:878`); after `Offset`, each page skips
  rows again (`query.go:990`); after `Search` on PostgreSQL or MySQL, the order is replaced but its
  argument is kept, and the statement fails (`query.go:881`, `rankArgs`).
- *Records*: in a transaction of PostgreSQL the look after a failed insert fails as well, so that
  `GetOrCreate` returns an error; `USE.md:1258` describes the recovery without speaking of transactions,
  and `CallsRecover` excepts them.
- *Visitors*: a login whose `store.New` meets a full store leaves the user without the old session and
  without a new one (`login.go:171`). Two answers to one image at once may both pass. A revoked token
  that expires between the two tests of a validation may give its claims once more.
- *Requests*: a panic behind Compress is answered by a page whose body nobody ends, through a writer that
  is back in its pool; `AnsweredInFull` excepts it. A panic after a write leaves the status that was
  written, and `RenderPanic` appends its page unless the length was declared (`middleware.go:342-347`,
  `errors.go:165-177`): excepted as well. A client's first two requests, at once, get two csrf cookies,
  and the form of the one that lost is stale.
- *Admin*: an optional foreign key that is NULL becomes the first option when its form is saved
  (`handlers.go:696`, `form.html:32-36`); a form older than another tab's save overwrites it. The history
  writes the address of the pointer for an optional column (`history.go:91`), though `USE.md:2424` speaks
  of "campo: valor", and nothing of what the database puts into autonow, autonow_add and default
  columns (`query.go:599-607`, `exec.go:70`). The links between pages drop `page_size`
  (`handlers.go:521-540`, `580-581`): with `page_size=5` the rows 6 to 20 are on no page, with 100 the
  rows 21 to 100 are on two.

## 4. Bounds

| run | bounds | why they are enough to be interesting |
|---|---|---|
| `Realtime` | queue: 2 tasks, 2 workers, 1 closer, buffer 1, attempts 0 or 2, ages off or 1, clock to 2. Hub: 2 connections (with and without session), 2 publishers with 3 and 1 updates, buffers of 2 | the buffer fills and refuses, a retry meets it full; the limit falls and rises between attempts; a task outlives `maxAge`; both pumps and a publisher meet on one connection while the other waits |
| `QueueLost`, `QueueCrash` | 2 tasks, 2 workers, 2 closers, buffer 2, 2 attempts | the second closer returns early |
| `Operations` | migrations: 2 processes, 3 files (tables and index, column, tables), 2 faults. Redis: 2 replicas of 1 worker, 2 tasks, list of 1, 2 attempts, 1 failed command, 1 stop. Core: up to 3 of 7 modules, two servers with one address and one key. Server: 2 mails, 2 tries, every kind of setting. Files: 3 drivers, 2 structs that refer to one another, 3 columns (unique and searched, reference, plain), 3 edits, 3 files, 2 rows | a half-applied file, twice in a row; both processes on one file; overrun of the list, a doubtful command, a crash with a task in hand; a module that fails between two that work; a mail on its way when the signal comes; a column that goes and comes back, a file edited by hand, taken back without what it dropped, and generated anew |
| `StmtCache` | 2 callers, 3 queries, 2 places, 4 handles | eviction, a duplicate put, a caller overtaken by two evictions, both handles uncached |
| `Database` | chains of 3 calls on 3 drivers, 3 rows, conditions with 0, 1 and 2 arguments, pages 0, 2 and 7, sizes 0 and 4 where 1 is the default and 2 the most, `MaxInt` 7, 1 row that comes or goes. Records: 3 processes, 2 keys, chunks of 1, 1 deletion | AND after OR; a page number whose offset would wrap around; full, short and empty pages; a row leaves between two pages; a third process after a lost race; transactions that wait for one another |
| `Sessions` | login: 2 requests, 1 browser, 3 identifiers, 1 user key, TTL 1, window 1, 2 attempts, clock to 2. Cache: 4 keys, ceilings 0 to 3, clock to 4. Tokens: 2 tokens, 2 validations, seconds of 2 ticks, clock to 7, 1 restart. Captcha: 3 images, 2 answers, 3 sessions | an old and a new session and one of the application; a limit lowered below what is stored; expiry before gc; a token revoked while another validation of it is between its tests; an image between an answer's two calls |
| `Web` | requests: 3 requests on 2 connections of 2 clients, 2 contexts, 2 maps, 1 gzip writer, 1 copy and 1 panic (of the first request), 1 per window, clock to 2. Admin: 2 tabs, 3 rows of a struct with a field of each kind, a NULL foreign key among them, sizes 1 and 3 where 2 is the default and the most, 3 steps, 2 sessions, cache of 2 and a guard of 1 | a pooled object in its third hand; a copy that outlives its context; a window that ends between two requests; a right lost while another tab has read it; a form older than the row; a row between the first page and the second (a size beyond the default that the ceiling does not cut is left to the theorem) |
| `AdminZone` | as the admin part, with a zone of 2 | an offset that is no whole number of days |

The clocks and `MaxFaults`, `MaxRedisFaults`, `MaxStops`, `MaxCalls`, `MaxChanges`, `MaxDeletes`,
`MaxEdits`, `MaxFiles`, `MaxRows`, `MaxTried`, `MaxBoots`, `MaxServed`, `MaxCopies`, `MaxPanics`, `MaxSessions`,
`MaxSteps` and `MaxRead` (a walk that repeats rows is given up) are the only counters capped in guards.
Symmetry is declared in runs without liveness only (`Sessions`, `Web`). Every system here may come to
rest when its bounds are used up, so the runs do not check for deadlock; that nobody waits for ever is
what the settling properties say.

## 5. Fairness

Liveness is checked as one formula per run, `[]<>` of the states in which each part is settled: under
fairness of what the program does by itself, and whatever else is done, it comes to rest time and again.

- `Queue`: weak fairness of each worker, timer and started send, and of `Close` once the workers have
  ended: the Go scheduler runs what can run, and handlers are assumed to return (nothing in the code
  bounds one that does not). Nobody is obliged to call `Enqueue`, `SetMaxRetries` or `Close`. After a
  crash nothing is fair.
- `Hub`: weak fairness of the pumps and publishers, whose waits all have timeouts. `UnregisterBegin`
  is strongly fair because Go's RWMutex lets a waiting writer pass before later readers. Nobody is
  obliged to connect or to drop.
- `RedisQueue`: weak fairness of senders, workers and replicas; Redis answers, possibly with an error; a
  stopped replica is started again; a closed one exits, as `bootstrap.Run` does. Faults are not fair.
- `Migrate`: a process goes on, and a migrate that failed is run again by the next deployment.
- `Lifecycle`: a program that runs or shuts down its modules goes on; goroutines of `Serve` begin and
  drains finish; a call that is no stream ends. Nobody is obliged to call or to shut down.
- `Server`: the goroutines of `Run` and of the signal go on, and the handler of a mail returns. Nobody
  is obliged to send a signal, and a request may never end: five seconds are enough for it.
- `StmtCache`: a call that has begun goes on (the mutex is passed on; the database answers), and a
  `Close` that has begun.
- `Admin`, in `AdminZone` only: what has been executed is recorded, or its error is logged.
- `Login`, `Tokens`, `Captcha`, `Cache`, `OrmQuery`, `Records`, `MakeMigrations` and `Requests` have no
  liveness property: their steps run straight through or wait for nobody.

## 6. What is proved

Every theorem holds for all values of the constants under the named ASSUMEs of the module, which TLC
evaluates in the runs. They say that names and handles are distinct from the "none" values, that
capacities are positive and times are numbers, that sets that are counted are finite, and what the inputs
look like: `MigrateAssumption` and `UndoableAssumption` (a file that can be undone shares no object with
another), `RecordsAssumption` (the keys of a call are distinct), `AdminAssumption` (rows and inputs are
of the fields' kinds, and the default size of a page is not above the most), `QueryAssumption`,
`ServerAssumption`, `AdapterAssumption`, `MakeAssumption` (tables and columns come in an order, each
once, since `declared` has one struct for each table, and "no struct" is no item of a database). All
proofs are checked by tlapm with Z3, Zenon and LS4. The theorems are about the specification of each
module by itself (`Spec` of `Queue`, `Migrate`, `StmtCache` and `Login`, and `StoreSpec`, `HubSpec`,
`RedisSpec`, `ServerSpec`, `LifecycleSpec`, `MakeSpec`, `QuerySpec`, `RecordsSpec`, `TokensSpec`,
`CaptchaSpec`, `CacheSpec`, `RequestsSpec`, `AdminSpec`), which a union of section 3 contains as a part,
or of a whole union (`WebSpec`). The counters of section 4 are bounded by constants of any size, and the
proofs do not use that there is a bound, but for types and finite counts.

**`SequenceFacts`.** What proofs in several modules need and the library cannot give, because its
theorems take operators as parameters: induction over the natural numbers for a set (`Induction`),
recursion for a function (`Recursion`: whatever the step, a function follows it), what `FlattenSeq` makes
of a sequence of sequences, the ranges of sequences put together or reversed, a sequence as two parts
of it, and that a finite set can be written in the order of keys its members have (`Sortable`).

**`RealtimeProofs`.** For the queue, `QueueIsSound` is `[]QueueSound`, in three parts: `TypeCorrect`, and
`TaskInOnePlace` and `AcceptedConserved` from `PlaceInv`. `OnePlace` and `Conserved` are not inductive as
they stand, because a worker's place (`wpc`) must tell whether it holds a task (`JobIffBusy`) for a step
of `process` to take the task from where it is. `CloseHasDrained` from `CloseInv`, which adds that an
exited worker holds nothing and that workers exit only from a closed, empty channel. `ClosedTakesNothing`
is the action property, from `PlaceInv`. `AttemptsAreBounded` from `RunInv`: the number of runs is the
attempt counter, or one more while the handler runs, and the `limit` the worker has read is at most
`MaxRuns`. `HandlersAreKnown` from `KnownInv`: a name accepted by `Enqueue` stays registered.
`QueueImplementsLedger`: `Spec => Ledger!LedgerSpec`; each step of the queue maps to one step of the
ledger or to a stutter, by the invariants above.

For the hub, `HubIsSound` is `[]HubSound`: nobody sends on a closed channel, and the locks and pumps
fit together. `LockInv` says why: a registered connection has a closed channel only while its own
`Unregister` holds the write lock, and then no publisher is in its loop. `UpdatesInOrder` is
`[]DeliveredAsPublished`; what the peer received is the end of a line that leads from the publisher
through the channel and the writer, and `LineInv` orders the whole line, each part before the next.

**`OperationsProofs`.** One invariant for each part of the run `Operations`.

- `ReplicasShareSoundly` and `ListOutlivesReplicas` (`RedisQueue`), from `RedisInv`. That a task is in one
  place needs that the list has no repetitions and that jobs of different workers differ; that it is
  tried at most `MaxRetries` times needs the number of its starts bounded by its attempt counter at each
  place it may be, a push in doubt included.
- `ReplicasImplementLedger` is `RedisSpec => ReplicasShareLedger`, the refinement `Shared!SharedSpec` with
  what `ListOutlivesReplicas` says. `SharedInv` adds to `RedisInv` that a call that has not returned has no
  outcome yet (`NoOutcomeYet`), so that a refused task cannot pass for one that has ended. One lemma per
  actor: a sender accepts or refuses (`SenderShares`), a worker runs, retries or ends (`WorkerShares`), a
  replica moves nothing while its process runs and takes what is its own when it stops
  (`ReplicaShares`). The ledger stays open and is never over, for a `Close` is one replica's and the list is
  left to the others. An `LPUSH` that took effect and reports an error is an acceptance in the ledger,
  though its caller was told otherwise: the ledger shows that such a task is still run in one place and
  `MaxRetries` times at most.
- `RecordIsSound` and `UndoneLeavesNothing` (`Migrate`), from `MigrateInv`: what the loop over the
  statements of a file has passed exists, each file of the directory is still to be visited or recorded,
  and what a removal has passed is gone. The first of these is what a concurrent migrator cannot undo.
- `ServesSoundly` and `NoMailForgotten` (`Server`), from `ServerInv`: what `Init` has made at each stage,
  that the cleanup reaches the cache only when the queue is over and nothing waits in it untaken, and for
  each mail that it leaves at most once in a run of its task; that one which has ended has been run, was
  too old, or has one of the two fates that only Redis knows, and that what a request was told is
  accepted has come to the queue or has left.
- `CoreIsSound` (`Lifecycle`), from `CoreInv`: the shutdown has a place in the list; before it each module
  holds what its adapter keeps, behind it no call is left but those a shutdown has given up on.

**`MakeProofs`.** `TextIsTheSchema` is `[]SchemaIsKnown`, from `MakeInv`. The property compares text
and database when all the files are applied, and is far from inductive. `FilesInv` says of every
file, applied or not, that it is good for the schema read from the files before it (`GoodFile`): its
up creates no table that is known, nor one table twice, its down takes nothing that was known before
and everything the up adds, and its comments drop columns of known tables. `StoredInv` says that what
is applied has left the database what its text says. Generating keeps it because a difference adds
only what is missing; uncommenting, because a commented DROP is about tables of earlier files;
applying, because a statement the database accepts does to its tables what the reader makes of its
text (`StepFollows`); taking back, because the down takes just what the up added. But for columns
that the up has dropped by hand: attempting the proof showed that the property without `lost` is
false, and section 3 says what follows from it.

`GeneratedFilesStand` is `[]GeneratedFilesWork`, from `StandInv`, which adds three parts to `MakeInv`.
`DraftsInv`, about text: every file is `Drafted`, that is, each statement of its sections meets a
condition on the statements before it. In the up, an index follows its column, a column comes once and
for a known table, a table after those that come earlier in the order of the models (`UpOK`), and what
needs an index gets it (`Provided`); in the down, a column goes after its indexes, and a table after the
columns that were added and after the tables that follow it (`DownOK`). `HistoryInv`, about databases:
the one there is, and the one there was before each applied file, is what the text of the files before
it says (`AsRead`), has the indexes of its columns and no others (`Indexed`), and every table that one of
its columns refers to (`Referred`). `RowsInv`: there are no rows of a table that is not there.

Why all of that: the database refuses a statement for what is *there*, indexes and references
included, of which the text the command reads has no word, so `MakeInv` says nothing of them; and the
down is compared with a database that is gone, `before[k]`, which has to be carried through all later
steps. That a down succeeds needs one more thing, `Settled`: a table is dropped before those it refers
to only if references go backwards in the order of the models, and nothing in the generator sees to
that. It is the database that did, when it accepted the up (`UpMeets`). A column an up drops by hand is
one without an index (`Plain`), because its comment has no DROP INDEX and the strictest database refuses
it otherwise; so what is lost has no index whose return could be missed (`SameButLost`). The argument is
in four parts: what `migGenerateSQL` writes is `Drafted` (`GeneratedDrafted`: tables in the order of the
structs, fields in theirs, the down of each reversed, put together by the facts about `InPlace`) and stays
so when its comments are taken in (`UncommentedDrafted`); a drafted file keeps `AsRead` when it is applied
(`UpSettles`) and when it is taken back (`DownSettles`); a drafted up is accepted but for the cases the
property names (`UpAccepted`); and a drafted down is accepted and restores (`DownRestores`).

**`LoginProofs`.** `StoreIsSound`: every sequence of the store's operations keeps the index consistent
and the limits, from `StoreInv`. `LoginImplementsStore`: `Login` is a refinement of `StoreSpec`, so
`StoreStaysSound` follows for it. `TypeCorrect`, and `SentSessionEndsAlways`: an identifier once
issued and no longer usable is never usable again, because identifiers are not drawn twice and
`Expires` is never extended. `ThrottleHolds` is `[]ThrottleBound`: the count of a key grows after the
test that lets a request pass, so `ThrottleInv` bounds the count together with the requests that have
passed the test and may still fail. `NoFailureForgotten` is the action property `FailuresRemembered`.
`CacheMakesRoom` is `RoomIsMade` of `Cache`: it counts the keys that remain and those that have expired,
and needs only that the map is finite (`CacheInv`).

**`StmtProofs`.** `StmtInv` adds to types and `CacheSound` the fact `Hands`: the statement a caller has
prepared and not yet put is known to nobody else, and the one it is about to close is out of the cache
for good. From it `TypeCorrect` (the cache never exceeds its limit, by cardinality of the list),
`CacheStaysSound` and `NothingOrphaned`. `ClosedOnlyWhenDisplaced` needs the further invariant
`Displaced`: as long as fewer than `MaxCached` other queries have been used since a caller got its
statement, the statement is in place and everything in front of it was used since; when it is evicted
from the back of a full list, the others in the list and the new query make up `MaxCached`.

**`OrmProofs`.** `NothingIsWidened`: a statement selects the rows the chain asked for, a page by key
some of them, for chains of any length. `SelectsWhatWasAsked` looks at the last statement only;
`QueryInv` says why it holds: a query without an error has exactly the conditions it was asked for, an
error is never taken back, and neither `Paginate` nor a walk is under way with one. `PaginateAfter`
adds a condition on the key; `AfterNarrows` shows that, joined by AND at the end, it only narrows the
rows, and `BeyondUnused` that it leaves a query alone in which it does not occur. `PagesHold` is
`[]PagesAreComplete`, from `PagesInv`: the total `Paginate` has counted is that of the result unless
rows have changed, and a walk has passed in order of the key, and has before it what it wants and has
not got (`WalkInv`). `ArgumentsFit` is `[]StatementsFit`, from `FitInv`: the arguments are those of the
clauses of the WHERE and, apart, those of the ranking, so that any statement put together from them
fits. `CallersRecover` and `ChunksStand` (`Records`), from `RecordsInv`: which keys an open transaction
holds at each place of a call, what the look after a failed insert will find, how many chunks are in,
and that a key has been inserted once more than deleted while it is stored.

**`VisitorProofs`.** `RevocationIsFinal` is `[]RevokedStaysOut`. It says something of calls that have
ended; `TokenInv` adds what a call between its two tests relies on: a revoked token is in the map or its
time is over, for gc drops it only then, and a token keeps its time. `CodesUsedOnce` is
`[]CodesAreUsedUp`. `CaptchaInv` says why an answer cannot meet a code twice: a code lies only where its
image has put it and an image puts its code once (`CodesPlaced`), so that once an answer that has read it
has deleted it, it is nowhere (`Spent`), and no later answer reads it (`AnswersApart`). `CopiesAreOwn`,
`FormsAreOwn` and `EveryAnswerIsWhole` (`Requests`), from `WebInv`: contexts and maps that are out belong
to one request each (`OwnersInv`), every cookie and every form of a client was given to it (`TokensInv`),
and, as long as nothing behind Compress has panicked, a gzip writer that is out points at the connection
it was taken for (`GzInv`, `EndsInv`). A panic is early, late or behind Compress by what the handler has
written and what lies between it and `Recovery` (`PanicIs`); an answer that is not whole is then a late
one's. `RateHolds` is `[]RateLimited`, from `RateInv`, which bounds what passed before and in the current
window apart: twice the limit is what two of them make. `LostRightsExpire` (`Admin`), from `GuardInv`,
which dates what a session's stamp and each guard under way know; `HistoryIsComplete`, from `PanelInv`,
which counts the entries still to be written with those that are; `SavedFormsKeepTheRest` is the action
property `UntouchedFieldsStay`, because a form shows the row it was opened on (`FormInv`). `FiltersHold`
is the action property `FiltersMatchDays`: a row lies between the bounds of the filter just when its day
is one of those asked for (`DayBounds`), and the pages put together are the list, or the first page and
what a first page of the default size leaves over (`FollowedIs`, an induction from the last page back to
the second, with `PartsOf` for each page). `WebIsTyped` is `[]WebTypeOK`, of both parts, from all of
these invariants and three more. `NumbersInv`: requests that are open at once have different numbers, and
the maps in the pool are empty. `CountsInv`: an address's count in the limiter is at most the number of
requests that have been past it or turned away (`Past`), so that no path through the middleware counts a
request twice. `StepsInv`: a tab past the guard has been given a role, and one that is about to write its
history has rows to write it for.

*Only model-checked.* What needs fairness or ENABLED, which this prover does not reason about:
`BackgroundSettles`, `OperationsSettle`, `EveryCallEnds`. And every property that a run refutes.
Out of reach as well is induction over data as the library states it; there is no RECURSIVE operator,
since tlapm gives up on a module that has one: the modules recur with functions and folds, about which
`SequenceFacts` says what is needed.

## 7. Where code and documents disagree

- `QueueLost`: `Close` knows nothing of tasks in a retry timer; `requeue` finds the queue closed and
  drops the task (`queue.go:383`). `bootstrap.go:425` and `USE.md:1928` say enqueued work is not lost
  in a deploy.
- `QueueCrash`: `requeue` tests `closed`, releases the lock and sends (`queue.go:387`); a `Close` in
  between makes the send panic in a goroutine nothing recovers. `queue.go:2` says "shutdown gracioso".
- `RedisQueueRestart`: `NewRedis` starts workers before the application has registered its handlers
  (`bootstrap.go` creates the queue first); a task found in the list is discarded (`queue.go:354`).
  `USE.md:1907` says it survives a restart.
- `MigratePartial`: a file that died between its tables and its index is recorded by the next run
  without the index (`migrate.go:58`). `USE.md:256` calls the command idempotent and the record one of
  executed files.
- `OrmZeroCursor`: `isZeroValue` (`exec.go:352`) takes an `int64` 0 for a value, because the variable of a
  `case` of several types keeps the interface type and is compared with an `int`. A descending
  `PaginateAfter` from it asks for `col < 0` and gives nothing. `query.go:842`: "nil ou zero value na
  primeira".
- `AdminZone`: a form shows a datetime in APP_TIMEZONE (`crud.go:324`) and what it sends back is parsed
  as UTC (`crud.go:383`): every save moves the datetimes of the row by the zone's offset.
  `bootstrap.go:64-65` says of the zone "Nunca afeta o que e gravado no banco".

Cases in which a property holds only because it names them, and a document speaks otherwise (section 3
has the lines of the code): files for MySQL, and files with searched columns for SQLite, against
`USE.md:1047-1049` (`GeneratedFilesWork`); a mail lost with the reply of a BRPOP, against
`bootstrap.go:425` (`AcceptedMailIsTried`); the address of an optional column and the missing autonow
columns in the history, against `USE.md:2409` and `USE.md:2424` (`HistoryAccounts`); the recovery of
`GetOrCreate` in a transaction, against `USE.md:1258` (`CallsRecover`).

## 8. What is not modelled

Of the modelled parts: `Queue.Len` and other reads; in Redis mode `SetMaxRetries`, `SetMaxAge` and list
items that are no task; the hub's Origin test and the event it publishes to the bus; SQL text, the
parsing of Go structs and SQL types, DISTINCT and column lists, reflection and scanning; session values,
cookie attributes, password hashing (a credential is right or wrong) and signatures; `Manager` and the
opening of drivers; the writer pool, headers, CORS origins, body limits and bindings of the router;
template text and caches of compiled templates; of the admin the files of uploads (an optional image
makes the upload panic, `crud.go:120`, `163`), search, sorting by a column, registration, the line ends
that a textarea changes, and the difference between NULL and an empty text, which `Blank` both stands for
(a form turns the one into the other); a model visible to administrators only is in the module and the
theorems, but `Restricted` is empty in the runs; what adapters do between `Start` and `Shutdown`.
Back-off delays are abstracted to "some time later", and the panic of a handler of the queue to its
failure, which is what `process` makes of it.

Parts without a model, and why:

| part | why |
|---|---|
| event bus (`core/events`) | `Publish` starts a goroutine per handler and promises no order: every interleaving is allowed, and no later step reads what it changes, so a model could refute nothing |
| routes and parameters (`router/params.go`, `urls.go`) | the table is fixed before the first request; parameters are text |
| crypton | primitives of external libraries, taken to do what they say |
| hot reload | a tool of development that tells browsers to load a page again |
| command line (`cli/main.go`, `benchmark.go`) | generators of files, and measurements |
| pages of the bootstrap, error pages' text, welcome, debug | embedded files and rendering |
| NoSQL clients, SOAP | wrappers of third-party clients and an encoding; no state of their own |
| sample app, generated test service | an example and generated code |

## 9. What is left

The parts whose steps can go wrong together have a model, all that the passing runs say of their safety
is proved, and so is that both modes of the queue implement their ledgers. What is left are the
liveness properties, for a prover that knows fairness.
