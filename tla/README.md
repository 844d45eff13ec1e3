# DBHub in TLA+

This directory models DBHub: what the servers of its backend (`backend/`) do to
the platform database and to each other while they start, serve and stop, and
what becomes of a request between the browser (`frontend/`) and a handler. The
modules are translated from the Go code, TLC checks them on small instances and
TLAPS proves the main results for every instance. Paths below are relative to
the repository's `src/`; `infra/` stands for `backend/internal/infra/`, `oas/` for
`backend/internal/oas/`.

- [The system](#the-system)
- [What is hard in it](#what-is-hard-in-it)
- [Modules](#modules)
- [Runs](#runs)
- [Bounds, fairness, deadlock](#bounds-fairness-deadlock)
- [Proofs](#proofs)
- [Where the code and its documents part](#where-the-code-and-its-documents-part)
- [What is not modelled](#what-is-not-modelled)
- [Plan](#plan)

To run one by hand: `tlc -config Migrate.cfg MCMigrate.tla`,
`tlapm MigrateProofs.tla`.

## The system

DBHub is a database access platform at its beginnings. The backend is a Go
program that may run as several instances against one platform PostgreSQL; the
instances share nothing else. `main.go` brings an instance up in four phases
and then serves HTTP: a layer generated by ogen from the OpenAPI contract knows
82 operations, of which the program implements three. A React frontend calls it.

| Component | State it keeps | Operations | Correct when |
|---|---|---|---|
| Migration, `infra/migrate/migrate.go`, also called by `backend/cmd/migrate/main.go` | `schema_migrations` (version, dirty), the schema, a session's advisory lock | `Up` (golang-migrate underneath) | each body commits at most once, in order; a clean version tells the truth; nil means migrated |
| Seed, `infra/seed/seed.go` | `environments`, `environment_policies`, `roles`, `role_permissions` | `SeedBuiltin` at every start | builtin rows complete, policies with the right environment, grants of one registry, edits of administrators kept |
| Permission registry, `infra/permissions/permissions.go` | none (compiled in) | `BuiltinRolePermissions` | every binary has one answer; two releases may differ |
| Bootstrap, `infra/bootstrap/bootstrap.go` | `users` | `EnsureFirstAdmin` at every start | one admin per address; nobody touched who is there; environment ignored later |
| Project list, `internal/api/handler.go`, `internal/service/project.go`, `project_postgres.go` | none between requests: the token is the state; `projects` | `ListProjects` | a client that follows the tokens misses and repeats nothing |
| Running server, `backend/main.go`, `internal/api/handler.go` | connection pool, listener, requests under way | requests, probes, signal, `Shutdown`, `Close`, exit | connections come back; a shutdown drains first; a signalled server ends |
| Startup, `backend/main.go` | the phase it is in | open, migrate, seed, bootstrap, serve | each phase complete before the next, first error fatal |
| Database connection, `infra/db/db.go` | pool limits | `Open`, `Ping` | see the running server |
| Generated HTTP layer, `oas/` | none beyond the request being served | `ServeHTTP`, `handle...Request` of 82 operations | a handler sees only what conforms to the contract; what conforms is not turned away; an error means what it says |
| Middleware, `backend/main.go` | the deadline of a request | `Recoverer`, `Timeout` | one answer per request, by the deadline |
| Frontend client, `frontend/src/api/client.ts`, with `vite.config.ts` and `nginx.conf` | the call under way | `request()` | the caller is told what happened; every call settles |

How they interact:

- **Calls.** `run` calls `db.Open`, `migrate.Up`, `seed.SeedBuiltin` and
  `bootstrap.EnsureFirstAdmin` one after the other. A request passes Vite's proxy
  or nginx, chi's middleware, the generated router, security, decoders, the
  handler, the service and the repository, and its response the way back.
- **Shared tables.** Everything instances know of each other is in PostgreSQL.
  Only migration takes a lock (a session-level advisory lock); seed relies on
  `ON CONFLICT DO NOTHING` and primary keys, bootstrap on the partial unique
  index `users_email_uidx`.
- **Shared pool.** List requests and the readiness probe of an instance compete
  for its 20 connections. Migration opens a connection of its own.
- **Goroutines.** The listener runs beside `run`, which waits for a signal; each
  request is a goroutine. Both `run` and the listener may end the process.

## What is hard in it

PROJECT.json lists each hazard with its line and the properties aimed at it.
In short: instances of one or two releases start at the same moment and
interleave statement by statement; an instance dies between two statements that
belong together; a schema is left dirty half-way through a migration; a check is
stale when it is used (the bootstrap's look for a user, the token of a page);
a page is asked for twice; a row appears or goes between two pages, the row of
the token included; exactly `limit` rows remain; a database outage meets a full
pool, a deadline and a shutdown. In the HTTP layer 82 functions, a trie and
several tables are generated apart from each other and have to agree: a literal
of a route competes with a parameter, a check of one operation is missing, a
deadline passes between any two steps; and the client parses a response before
it looks at its status.

## Modules

One module per component. A process (instance, client, request) is a member of
a constant set, its program counter a function over that set; every statement
that commits on its own is an action of its own. Nothing is assumed atomic
that the code does not make atomic. A fault is an action of its own, counted
by `faults`.

**Migrate** (`migrate.go:49-98`, `cmd/migrate/main.go`). `version` and `dirty` are the
row of `schema_migrations`, `lock` the holder of the advisory lock, `mpc[p]` where
process `p` stands in `Up`. The code of the repository is short: open the
driver, look at the context once, call `m.Up()`, map `ErrNoChange` to nil, close.
What `m.Up()` does is golang-migrate's (external) and follows its documented
steps: lock or `ErrLockTimeout`; refuse a dirty schema or an unknown version; for
each pending migration set (v, dirty), run the body, set (v, clean); unlock.
`applied[v]` is a history variable: how often a body has committed. A process
whose connection ends, or that dies, loses the lock. `closeFailed` records what
the deferred function learns and the caller does not. A backend of PostgreSQL
that finishes a body after its client died is the case in which the client dies
after `Run`; that this client might be started again while the backend still
works is covered by the other processes, which see the lock held.
**Upgrade** is the abstract specification: as if each process had the database to
itself, the schema climbs one migration at a time on behalf of a caller that has
it, a call succeeds only once the caller's migrations are in, and a torn schema
stays as it is and lets no call succeed. It knows no lock, version or flag.
`Migrate` implements it: `level` is the highest migration whose body has committed,
a schema is `torn` when it is dirty and nobody is in the loop, and `call` groups the
program counters (a caller whose nil is still on its way is `"migrated"`).

**Seed** (`seed.go`). The tables are functions of natural keys. One action per
statement: the `INSERT ... ON CONFLICT DO NOTHING` of environments, policies and
roles, the SELECTs by key, the `DELETE` and the multi-row `INSERT` of a role's
permissions. `"edited"` rows are those an administrator has changed. Each binary
has its own `Registry`. **Catalogue** is the abstract specification: servers tend a
catalogue together, a missing row is filled in and one that is there is left
alone; each owes every role its own offer and pays by emptying the role and
laying its whole list beside what is there, if the two are disjoint; it is through
when it owes nothing and no row is missing. Loops, positions and look-ups are
what the mapping forgets: `owed` are the roles the loop has not passed.

**Bootstrap** (`bootstrap.go`). `users` is the sequence of rows ever inserted. Check,
hash, insert and look-up are separate actions; `Taken` is the unique index on
`LOWER(email)` over live rows. Other sessions create, disable and soft-delete users.
`created` remembers the row the server inserted, `logged` the id it logs. **Election** is
the abstract specification: the users are a register with one place per address,
a server stands only if it saw the register empty and was given an address, and
enters itself only where the place is free. `Bootstrap` implements it with `holder` the
live rows by lower-case address and `given` the number of rows ever inserted.

**ProjectList** (`handler.go:54-91`, `project.go`, `project_postgres.go`, the decoder of
`page_size` in `oas_parameters_gen.go`). A client's walk: request, query, answer,
next request. The query takes `limit + 1` of the live rows beyond the token in
key order, drops the probe row and hands out the key of the last row kept.
`steady` and `ever` are histories: the keys live all through the walk, and at
some time of it. **Walk** is the abstract specification: a client moves through
the keys in one direction, is given everything that stayed and nothing that
never was; it knows no pages, limits, requests or failures. `ProjectList`
implements it under the mapping `walk` = idle/walking/ended and `cursor` = token.

**Server** (`main.go:102-127`, `handler.go`, `db.go`). `main` is `run`, `listener` its
goroutine, `at[r]` a request, `pool` the connections in use. `ListenAndServe`
looks for a shutdown before and after it binds; its failure is `os.Exit(1)`,
which may hit a shutdown under way. `Shutdown` returns when nothing is under way
or after 10 seconds; the deferred `Close` follows, then the process exits and cuts
off what is left. Time is not counted: a deadline is an action that may happen
whenever what it bounds is still going on. A connection wanted while all are
taken can always run into its deadline (3 s for a probe, 60 s otherwise) because
the holders may take as long; a statement that overruns, or whose client goes
away, is a counted fault. **GracefulStop** is the abstract specification, what `run`
promises those who send requests: they are let in while the service is open and
then answered; after the signal nobody is let in, and the service goes when nobody
is inside or its patience has run out; only a service that dies loses requests
without that. Connections, probes and goroutines do not appear in it. (Whether
everybody inside is answered in time is `RequestsEnd`, liveness of `Server` itself.)

**Startup** (`main.go:30-73`) composes the first three. It adds `phase`, INSTANCEs
`Migrate`, `Seed` and `Bootstrap` over shared variables (`faults` is one counter for
all), and lets a server take a step of the module whose phase it is in. Entering
a phase is that module's `Start`. Errors are fatal, and a server that ends or
dies loses its session. `cmd/migrate` is left to `Migrate` (`Cli <- {}`). `KeepsPromises`: the
composition implements `Upgrade`, `Catalogue` and `Election` all the same.

**Api** (`main.go` middleware, `oas/oas_handlers_gen.go`, `oas_security_gen.go`,
`oas_cfg_gen.go`, `internal/api/security.go`) is one request inside the server. All
`handle...Request` functions of `oas_handlers_gen.go` take the same steps in the same
order, so the steps are actions over `pc` and what differs between the 82
functions is data: **Operations** has one definition for each of them (method,
route, credentials, decoders, encoder), **Params** one for each `decode...Params`
(where a parameter is and how it is validated), **Bodies** one for each
`decode...Request` (which kinds of body it takes), **Responses** one for each
`encode...Response` (which statuses with which kind of body it can write).
**Router** is the trie of `oas_router_gen.go`, one operator per subtree; `RouteOf` of
Operations is the route as the contract writes it, cut into pieces. `written` is the
response once its header is out: a second `WriteHeader` is superfluous, which is
what decides between the 504 of `Timeout`, the 500 of `Recoverer` and the handler.
`implemented` says which operations the handler has: those of the program, or all.
A path is a sequence of tokens; a parameter's value is what the trie cut out,
and of a query only the parameters with a wrong value are named. The router is
also stated without the trie, which the properties compare it with: `Filled` puts
values into a route (what may be served, and how the arguments must read), and a
request `Means` an operation (what must be served) when its path is the route filled
with the values that stand in the `Pieces` of the path, each of them one segment
(`IsValue`). `Decodes` is what the decoder of the
parameters does with the arguments it is given, `Valid` what the contract wants
of them.

**Web** (`frontend/src/api/client.ts`, `vite.config.ts`, `nginx.conf`) adds the browser: a
call is fetched, forwarded by a gateway or answered with a file, relayed, and
settled by what `request()` makes of it (`Take`); it may be aborted, lose its
connection, or meet a gateway that does not reach the server. Others send
requests directly (`Other`).

The MC modules give the constants their values. In each specification an
operator whose comment begins with "Mutant" is not part of the model: it is a
plausible bug of the definition that follows it, and the property PROJECT.json
pairs it with fails when it is put in that definition's place.

## Runs

| Run | Instance | Question | Answer |
|---|---|---|---|
| `migrate` | two servers of successive releases and the CLI, one fault | do bodies commit once, does a clean version and a nil tell the truth, is a half-way schema frozen, does every call end; does it implement `Upgrade` | yes, 56,730 states |
| `seed` | a server of each of two releases whose registries overlap, two environments, two roles, one fault, edits | are grants never a blend, never lost once all are up, gone only while somebody is putting them back, rows complete and edits kept; does it implement `Catalogue` | yes, 85,928 states |
| `seed_conflict` | two servers of one release, no fault | does `SeedBuiltin` succeed when rows are there (`seed.go:84`) | no: the second `INSERT` of grants may be rejected |
| `seed_rerun` | one server, no fault | does a re-run leave data alone (`spec.md:38`) | no: grants are deleted first |
| `bootstrap` | four servers: two spellings of one address, one unset, one password too long; one fault, one change by others | one live user per address, a user left behind, nobody else touched, the right row logged, admin eventually; does it implement `Election` | yes, 43,309 states |
| `bootstrap_two` | two servers, two addresses | is the environment ignored once an admin exists (`spec.md:49`) | no |
| `project_list` | one client, four keys, pages of 1 and 2, one fault | is a walk complete, without repeats and strangers, do tokens lead on; does it implement `Walk` | yes, 147,791 states |
| `server` | two lists, a readiness and a liveness probe, two connections, two faults | do connections come back, is the shutdown graceful, do requests and a signalled server end, is liveness independent of the database; does it implement `GracefulStop` | yes, 11,429 states |
| `startup` | servers of two releases, one fault in any phase | does seed meet only a migrated schema, is a serving server complete, does every start end; does the composition keep the three promises | yes, 107,953 states |
| `startup_ready` | the same, no fault | does readiness mean all migrations applied (`spec.md:64`) | no |
| `web` | the requests and calls below, sent to the program and to one that implements all 82 operations | does a handler see only what conforms, is what conforms not turned away, has every failure its cause, is the caller told the truth, is no error of an operation hidden, does every call settle | yes, 210,420 states |
| `web_nginx` | the same | does a call through nginx reach the server (`client.ts:2`) | no |

Some statements are proved for every instance and not run as well. Five of them are part
of what the abstract specifications say: `SuccessIsMigrated` of `Upgrade`, `DoneIsSeeded` and
`EditsSurvive` of `Catalogue`, `OneUserPerEmail` of `Election`, `OnlyExisting` of `Walk`. The others are
`InOrder`, `LogsOwnAddress` and the types of `Startup`, whose parts have runs of their own.

`spec.md` is `openspec/specs/platform-meta-db-foundation/spec.md`. Some answers need a
word:

- `GrantsOfOneRelease` and `AllUpAllGranted` are stated for registries that overlap
  (`Overlapping`, true of the instance): the rejected `INSERT`, the same one that makes
  `seed_conflict` fail, is what keeps a role from holding a blend. Two releases
  whose lists for one role had no permission in common could leave the union; the
  real registry grows by additions (`permissions.go:4`).
- `EmptyOnlyMeanwhile` is about histories without a fault, in which an `INSERT` may
  still be rejected: a server that dies between `DELETE` and `INSERT` does leave the
  role empty, for whoever serves meanwhile, until some server seeds again
  (`AllUpAllGranted`).
- `LogNamesItsAdmin`: the id a server logs is that of a row with its own address
  (`LogsOwnAddress`, proved) and of the row it inserted, with two exceptions. The
  look-up is by address and includes soft-deleted rows, so a former user of that
  address may be logged; and if the server's own row is deleted at once, a later
  user of the address may be.
- `LeavesUser` allows for somebody who deletes users meanwhile.
- `DrainsBeforeClosing` excepts shutdowns that ran out of their 10 seconds: then
  requests are cut off, and the exit status is still 0. Nothing is said of a
  container runtime that kills after 10 seconds itself: there is no clock, and
  either may come first.
- `StartsEnd` is about servers that wait for each other, fail or die. A statement that
  never returns is assumed away by fairness, and no phase has a deadline
  (`main.go:54`): such a start neither serves nor exits.
- `NoRepeats` is about the answers a client gets, not about those that are lost.
- `RefusalsHaveCause` excepts one request, `Shadowed`: GET, PATCH and DELETE of
  `/v1/users/me` reach the operation of `/v1/users/{user}` with an empty value and
  get 400, though its schema, `^[^:/]+$`, would take `me`.
- `FailuresHaveCause` is about the answers no handler chose. A handler may answer 5xx
  by a response of its type, as `Readyz` does.
- `ErrorsAreNotHidden` allows a SyntaxError where the path belongs to no operation (the
  router's 404 is text) and for an export, which is not JSON.

## Bounds, fairness, deadlock

Every bound is a constant of the configuration and its reason is one of these.

- `MaxFaults` (1; 2 in `server`) bounds crashes, lost connections, failing statements
  and outages together. One suffices to leave any half-way state for another
  process to meet; `server` needs an outage and another fault. Processes start
  again without bound, so long sequences of starts are covered.
- `MaxVersion` = 2: a release behind, a release ahead, and a loop of two migrations.
- Three processes in `migrate`: a holder, a waiter and one to come later.
- Two environments and two roles in `seed`: a position that can be confused, and
  the role whose registry entry is empty.
- `MaxKey` = 4, sizes 1 and 2 (default 1, maximum 2) in `project_list`: fewer rows than
  a page, exactly a page, one more, and walks of up to four pages; asked sizes
  -1, 0 and 3 lie beyond both ends. One client is enough: clients only read, so a
  second one is part of nobody's environment; the proofs cover any number.
- `MaxConns` = 2 with three requests that want a connection: the pool can be full.
- `MaxChanges` = 1 operator's change in `bootstrap`, so that users never exceed a
  handful.
- Requests of `web`, for every operation: the plain one, and the plain one with one
  thing changed: each path parameter by each of eight odd values (no key, a
  literal of the trie, one that begins with a literal, separators plain and
  escaped, empty), the path longer or shorter, no credentials or a cookie, one
  query parameter wrong, each kind of body, another method. The layer has no
  state between requests, so one request at a time is enough, and its checks
  look at one thing each. Calls: every operation but the probes through Vite
  and nginx, with and without a session, the path right or wrong, a query
  parameter wrong, three bodies.

Fairness. `Migrate`, `Bootstrap` and `Startup`: weak fairness of a running process's next
statement, since the code sleeps nowhere and a statement that fails is a fault
step. In `Migrate` (and in `Startup` through it) the driver's first wait for the
advisory lock has no timeout, so it gets strong fairness: PostgreSQL queues
waiters and serves them in turn. Nothing is assumed of starts, crashes or
operators. `Server`: weak fairness of each request's handling (a waiting or a
running statement ends or meets its deadline) and of `run` after the
signal (it is bounded by 10 seconds); no fairness of arrivals, signals or of the database's
return. `Web`: the layer computes without waiting; the deadline of a request comes
(`middleware.Timeout` sets a timer), and a handler whose context has ended returns,
since each statement runs under that context; the gateway forwards and relays,
and the browser receives. Reading the body of a request is one of the layer's
steps, and here the fairness is an assumption about browser and gateway: the
`http.Server` sets no `ReadTimeout` (`main.go:103`), so nothing in the code ends the
reading of a body that never comes whole. No fairness of a handler before the deadline, of
aborts or of failures. `Seed` and `ProjectList` are checked for safety only: their
loops are bounded by constants, and a walk need not end while others create projects without end.

Deadlock is checked except in `server`, because a server that has exited really
stops. Everywhere else a process can always start again.

## Proofs

Theorems are in modules of their own, `<Component>Proofs`; they hold for every value
of the constants that meets the module's named assumption (`MigrateAssumption`,
`SeedAssumption`, `BootstrapAssumption`, `ProjectListAssumption`, `ServerAssumption`,
`StartupAssumption`, `HandlersAssumption` and `WebAssumption`), that is for any number of
processes and faults. The assumptions say only what kind of value a constant is; `Seed` needs a server,
builtin keys that differ and a policy for each environment; `Web` a method, a path, a
body and credentials of the right kind for each request, and calls whose paths begin
with `/v1`, as `BASE_URL` has it.
TLC evaluates each of them in the run of its module. Each proof has
the same shape: `Init => IInv`, `IInv /\ [Next]_vars => IInv'`, one step per action,
then each property from `IInv`. `Implements` maps the initial states and then every
action to an action of the abstract module or to a stutter, in that order; the
one step that takes away what several variables say at once, a process that dies,
has a lemma of its own in each (`VanishLeaves`).

- **MigrateProofs**: `TypeCorrect`, `BodiesApplyOnce`, `CleanTellsTheTruth`,
  `SuccessMeansMigrated`, `VersionsInOrder`, `HalfWayIsFrozen`, `Implements` (`Upgrade`). None of the properties is
  inductive: that a body commits once depends on where the holder of the lock
  stands. The strengthening is the lock (`LockInv`: the processes in the critical
  section are the lock's holder), the meaning of the two columns (`DbInv`: clean at
  v, the bodies 1..v are in; dirty at v, those up to v-1 or v), what the holder
  knows at each step of its loop (`LoopInv`) and that a nil result on its way out
  is deserved (`NilInv`). For the refinement `LoopInv` also says that the migration in
  the loop is one of the holder's own, so that a schema is torn on behalf of a
  caller that has the migration.
- **BootstrapProofs**: `TypeCorrect`, `OneAdminPerAddress`, `LogNamesOwnAddress`,
  `LogNamesOwnRow`, `BootstrapLeavesUser`, `StartsTouchNobody`, `Implements` (`Election`). The
  strengthening adds that a
  server past the check without inserting has seen a user (`SeenUser`), that
  only a configured server inserts (`HasEnv`) and that between insert and log a
  server knows a row with its own address (`OwnRow`), which makes the look-up
  right, since no two live rows share an address; lemmas about appending and revising
  a row carry the index through every step.
- **ProjectListProofs**: lemmas on finite sets of keys (`GreatestKey`) and on a query
  (`PageIsPage`: what `IsFirst`, `Kept` and `NextToken` give is a page), then an invariant per
  client (`History`, `Token`, `Answer`, `Complete`), which says what an answer under way
  still guarantees however much the table has changed since. From it
  `WalksAreComplete`, `PagesDoNotRepeat`, `NothingStale`, `TokensLead`, `WalksGoUp`, and `Implements`: every
  step of `ProjectList` is a step of `Walk` or leaves its variables as they are.
- **ServerProofs**: `TypeCorrect`, `NoConnectionLeaks`, `ShutdownIsGraceful`, `Implements`
  (`GracefulStop`). The strengthening
  says what has happened by each phase of `run` (`Phases`) and that nothing is under
  way after a drain that did not run out of time (`Drain`).
- **SeedProofs**: `TypeCorrect`, `SeededWhenDone`, `NoBlend`,
  `GrantedWhenAllUp`, `NotLeftEmpty`, `EditsAreKept`, `Implements` (`Catalogue`). The strengthening says which rows the loops a server
  has behind it have put in place (`EnvironmentsIn`, `PoliciesIn`, `RolesIn`: rows are never
  deleted, so it does not matter who inserted them), and, of a role that *all*
  servers have passed, that it holds one of their lists (`PassedGranted`): the last
  to pass leaves it so, and whoever would take it away has not passed. All steps
  on grants are reduced to one shape, `Granting`. `NotLeftEmpty` rests on one more fact,
  `Wanting`: who is at the `INSERT` has something to insert, so a role is left with
  something whether the `INSERT` is rejected or not.
- **StartupProofs**: `TypeCorrect`, `MigratedBeforeSeeded`, `CompleteWhenServing`,
  `Composes`. The
  invariants of the three phases are those of their own proofs, cited through
  instances of the proof modules: a step of the composition is a step of one phase
  (`MigrateMoves`, `SeedMoves`, `BootstrapMoves`) and leaves the other two where they are but
  for the shared count of faults and a server that is gone (`...Rests`). `Links` says
  that the phase of a server and its places in the three modules agree. `Composes` cites
  the step lemmas of the three refinements (a step of one phase is a step of its
  promise, and what it does to the others is a stutter or a death of theirs).
- **RouterProofs**: `RouterIsSound`, for any method and any path of any length: the
  operation the trie dispatches to has that method, and the path is the
  operation's route with its arguments in the placeholders. What is carried down the
  trie is `At(n, route, values, path, elem)`: the n pieces of route read so far, filled with
  the values cut out so far (`Spells`), and then what is left, `elem`, are the path.
  Each `Cut` and each `StartsWith` of the trie extends it by a piece; where the trie
  dispatches nothing is left, and the methods listed there are those of operations
  with just that route (`Offers`, `Serves`, one lemma per leaf). The same lemmas
  record that the decoders take as many path parameters as the trie cuts, which
  statuses each encoder may write (`Sendable`) and that operations with roles demand credentials.
  It is a theorem without induction, since no route has more than eight pieces and
  the trie no loop: its length is that of the 82 operations. Its one exception,
  `/v1/users/me`, is said in `Served`: the value is empty there. `RouterIsComplete` is the
  converse: the path that an operation's route makes with any values, each one segment,
  is dispatched on that operation with those values, for all 82 of them and whatever
  the others are. Here the trie is walked with a path that is known: each literal it
  looks for is there, and each `Cut` stops where the value ends (`Leads`, `Completes`); what has
  to be shown is that no sibling arm takes the path first. The exception is again
  `/v1/users/me` (`Nobody`), which is the filled route of `/v1/users/{user}` too.
- **WebProofs**: `HandlersSeeConforming`, `RefusalsCaused`, `FailuresCaused`, `CallersBelieve`,
  `ErrorsAreSeen`, `TypeCorrect`, for any requests, calls and set of implemented operations, in five layers. `IInv` says
  what each check has established by the step it is in (`CheckedSoFar`) and where a
  response comes from (`WrittenSoFar`); router and tables stay closed in its proof. `Given`
  and `LInv` add what the router has found (`Found`) and that a handler answers only
  what passed every check, with the statuses the others may write (`Answered`); this is
  where `RouterIsSound` comes in. An empty argument, which only `/v1/users/me` has,
  does not decode (`NothingEmpty`). `Turned` says what is turned away and by whom: by the
  router what it found nothing for, by the layer what has reached its operation and
  fails one of its checks (`RequestsAreTurned`). With `RouterIsComplete`, which makes that
  operation the one that is meant (`MeansTaken`), nothing that conforms is left to refuse.
  `BInv` adds the browser: an answer is the relayed response, the gateway's empty 500 or
  a file, and what is told as data is a relayed success. `Unparsed` adds where a
  SyntaxError comes from: a relayed text or file, or `index.html`. A text is a probe's,
  whose path is not under `/v1`, or the router's 404, which by `RouterIsComplete` is not given to
  a path that means something; a file is an export that succeeded (`ResponsesAre`, which goes
  through the 82 encoders).

Every safety invariant and every action property that a run checks on the program is
stated by one of these theorems. Only model-checked: all liveness (`UpEnds`, `AdminEventually`,
`RequestsEnd`, `SignalEnds`, `HealthWithoutDatabase`, `StartsEnd`, `CallsSettle`), which is beyond
the prover. Nothing is proved about the fold that cuts a path into `Pieces`: facts about it
need an induction that the provers do not offer. They are not needed, since what a
request means is said by `Filled`, and the pieces only name the values. TLC evaluates
`Pieces` on every path of the run `web`, so that what the theorems speak of is not empty:
all 82 operations are meant, and conformed to, by some request there. No module declares
a RECURSIVE operator.

## Where the code and its documents part

The violation runs each refute one sentence of the repository:

1. `seed.go:84` says `SeedBuiltin` succeeds if every row is present; two servers that
   start together can make one fail on `role_permissions` and exit (`seed_conflict`).
2. `spec.md:38` forbids a re-run of the seed to alter data; every re-run takes a
   role's permissions away for a moment, for longer if it dies (`seed_rerun`).
3. `spec.md:49` wants the environment ignored after the first admin; two servers
   with different addresses that race create two (`bootstrap_two`).
4. `spec.md:64` wants readiness to imply that all migrations are applied; `Readyz`
   only pings (`startup_ready`).
5. `client.ts:2` says that paths under `/v1` reach the backend through nginx in
   production; `nginx.conf:11` passes on `/api` only, and the frontend's own
   `index.html`, or 405, comes back (`web_nginx`).

Met on the way and not made into runs: `migrate.go:75` wants the deferred function to
surface an error of `Close`, which is assigned to a variable that is no result of
`Up`; `spec.md:49`, `bootstrap.go:8` and `:31` speak of an
active user, but a disabled one counts (`bootstrap.go:99`), so a database whose only
user is disabled gets no admin; the
comment at `project_postgres.go:36` describes
the token as the key of the dropped row, while the code (`:60`) returns that of the
last row kept, which is what makes the walk complete; a readiness probe fails
when all connections are taken though the database is reachable; a request that
meets `middleware.Timeout` inside the handler is answered 500 and not 504; `migrate.go:43`
lets `Up` end when its context is cancelled, but the context is looked at once;
`/v1/users/me` reaches the operations of `/v1/users/{user}` with an empty name.

## What is not modelled

- PostgreSQL, golang-migrate, database/sql, net/http and chi are modelled as far
  as the code uses them; their definitions are marked external in PROJECT.json.
- The SQL of a migration body is one step. Tables the program does not touch yet
  (grants, databases, audit partitions) do not appear.
- Of the generated HTTP layer: the JSON codecs, the schemas and the validators of
  bodies (`oas_json_gen.go`, `oas_schemas_gen.go`, most of `oas_validators_gen.go`): types
  and conversions of which the model keeps two facts, whether a body decodes and
  whether it validates. `FindPath` repeats the router and the program
  does not call it. Tracing, metrics and labels.
- `project_memory.go` returns a fixed slice and is not used by `main`; `dbtest` serves
  tests.
- Passwords, descriptions, colours, log lines and e-mail syntax are data no property
  is about. `LOWER(email)` is a function of the address.
- TanStack Query around `useProjects`: the code gives it a key and a function and
  leaves its retries and its cache as they come. The CSRF header: the server
  takes any and none.

## Plan

1. Done: `Migrate`, `Seed`, `Bootstrap`, `ProjectList` with `Walk`, `Server`, `Startup`, the HTTP layer
   and the browser (`Api`, `Web`); the runs above; proofs about all of them.
2. Done: the abstract specifications `Upgrade`, `Catalogue`, `Election` and `GracefulStop`, with
   proofs that the components implement them, and that the startup sequence, which
   composes three of them, still does; the soundness of the router for every path and
   the safety of the HTTP layer and the browser that rests on it.
3. Left to model: a serving `Server` and its walks inside the startup of its
   successor; the handlers of the 79 operations once the program has them.
4. Done: the converse, that the router finds whatever a filled route is, and the two
   properties of the HTTP layer and the browser that rest on it.
5. Left to prove: liveness, once a prover takes fairness.
