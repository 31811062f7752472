# A formal model of claude-demo-back

The repository is a NestJS service: users and their roles, JWT sessions with
refresh-token rotation, and a cached read API over a Strapi CMS. Handlers are
async functions over PostgreSQL (TypeORM), Redis (ioredis) and HTTP (axios). Node
runs one of them at a time, but every `await` lets another go on, several
processes may share the database, and no handler opens a transaction or takes a
lock. Almost everything that can go wrong happens between two awaits, and this is
what the model is about: one step per awaited statement, with the code that runs
until the next one. Around the handlers it has what every request depends on: the
rate limiter in front, the process that starts, loses Redis and dies, and the mail
that a registration leaves behind.

Paths below are relative to `src/src/` unless they start with `src/`.

## 1. Inventory

| Component | State | Operations | Hard behaviour |
|---|---|---|---|
| `modules/users` | table `users` (UNIQUE email) | `createUser`, `updateUser`, `updateUserRole`, look-ups | check-then-act over several statements; a whole entity is written back from an old read |
| `modules/auth` | table `refresh_tokens` (UNIQUE token); the role claims in access tokens still valid | `register`, `login`, `refreshTokens`, `logout`, `logoutAll`; `JwtStrategy.validate`, `RolesGuard` | rotation in three statements, racing revocation; tokens without a random part; stale claims |
| `modules/strapi` | none of its own: content lives in Strapi | content reads, the invalidation webhook, the timestamp | the content changes without notice; failures become "not found" |
| `shared/cache` | Redis keys `strapi:*` with TTLs | `get`, `set`, `deleteByPattern`; `CacheInterceptor` | two nested interceptors under one key; failures swallowed; late stores |
| `shared/http-client` | the retry loop of a call | `request` | retries, delays, timeouts |
| `shared/infrastructure` | none | exception filter, response interceptor | which status, and which envelope, reaches the client |
| `shared/email` | the mails under way, in memory | the welcome mail | fire and forget, the process may die |
| rate limiting (`app.module.ts`, `config/throttle.config.ts`, the exception filter) | counters and closings in memory | a request passes or is refused; time; a restart | five named throttlers, all on every route; Retry-After by URL |
| `config`, `main.ts` | `process.env`; the await `bootstrap()` is at; the Redis client | the secrets check, the connection to PostgreSQL, migrations, module hooks, listen; reconnections | what is checked against what is used; services that are not there yet, or go |
| `shared/logging` | log output | | none |

How they interact. A request passes the throttler guard, the JWT guard (which
awaits the caller's row) and, on some routes, `RolesGuard` (which looks at the
token's claim only). On registration, the mail adapter is called last and not
awaited. `auth` calls `users` to look up and create accounts and
then writes its own table; nothing ties the two writes together. A content read
passes `CacheInterceptor` (as APP_INTERCEPTOR), `ResponseInterceptor` (main.ts)
and `CacheInterceptor` again (`@UseInterceptors` on the controllers), then
service, repository, HTTP client and Strapi. Strapi calls the webhook, which
deletes every `strapi:*` key and records the time. The components share the
database tables and Redis; there are no queues and no callbacks between them.

What makes each correct:

- **users**: one account per mailbox; an administrator always remains; a role is
  changed only by somebody else under an ADMIN token; an update writes what was
  asked for and nothing else; 201 and 409 are truthful.
- **auth**: revocation is permanent and effective; what cannot be exchanged is not
  exchanged; a token handed out is stored; one live token per session; logout-all
  ends sessions; a refresh rotates or refuses.
- **strapi and cache**: only content is cached; after an answered invalidation
  nothing older is served; Redis failing costs no answer; one envelope per
  response; staleness ends.
- **http-client**: bounded time; no repetition of an answered request; it settles.
- **e-mail**: one welcome per mailbox, to somebody whose account is there.
- **rate limiting**: no window over its limit; no patient client refused, none shut
  out for good; a Retry-After that is true.
- **start-up**: a production process serves with sound secrets only; it serves or
  ends; Redis is no condition of service; no request waits for it for ever.

The hazards behind these, each at its line, are listed under `hazards` in
PROJECT.json.

## 2. Modules

| Module | Models | Role |
|---|---|---|
| `UserRecords` | rows, tables, e-mail canonicalisation, look-ups | vocabulary, assumptions on constants |
| `UserDirectory` | the promise of the doc comments of `UserService` | abstract specification: every operation at once |
| `Users` | `UserService`, `UserController`, the parts of `AuthService` that touch accounts, JWT strategy, `RolesGuard` | detailed specification |
| `Sessions` | `AuthService`, `AuthController`, `RefreshToken`, `TokenRepositoryAdapter` | detailed specification |
| `Content` | the content routes, `CacheInterceptor` twice, `ResponseInterceptor`, `RedisCacheAdapter`, `StrapiWebhookService` | detailed specification |
| `SessionLedger` | the promise of the doc comments of `AuthService` about sessions | abstract specification: a rotation at once |
| `Registration` | the end of `AuthService.register`, `ResendEmailAdapter`, the process that dies | composition over `Users` |
| `HttpClient` | `AxiosHttpClientAdapter.request` | one call, its retries and its time |
| `Throttle` | `ThrottlerModule` and `ThrottlerGuard` as configured, Retry-After in `HttpExceptionFilter` | rate limiting |
| `Startup` | `bootstrap()`, `secrets.validator.ts`, the config factories, the connection of `RedisCacheAdapter` | the life of one process |
| `UsersProofs`, `AnswersProofs`, `SessionsProofs`, `OverlapProofs`, `HttpClientProofs`, `ContentProofs`, `ThrottleProofs`, `StartupProofs` | | theorems |
| `MCUsers`, `MCRegistration`, `MCSessions`, `MCContent`, `MCHttpClient`, `MCThrottle`, `MCStartup` | | instances for TLC |

Conventions. `op[r]` is a request's input (and, in fields named so, a record of
the state it arrived in), `pc[r]` the await it is suspended at, `answer[r]` its
HTTP status. `Await` and `Answer` are how a handler goes on or ends. Each action
is one awaited statement: its effect on the table or on Redis, the early returns
that follow, and the locals the handler takes along. `StatementFails` is a
statement that throws (500 by the exception filter), and `Acknowledge` one that
took effect although its answer was lost. In `Users` and `Sessions` a process that
dies abandons its requests in the same states; `Registration`, `Content` and
`Startup` have the crash as an action of its own. Operators preceded by a comment "Mutant:" are not
part of the specification; each is a plausible bug of the definition after it,
kept to show that a property notices.

### Users

| State | Code |
|---|---|
| `table` | the `users` table (`user.orm-entity.ts`) |
| `claims` | roles in access tokens that have not expired: what a client may present |
| `entity[r]` | the `User` object the handler built and will save |
| `loaded[r]` | the row TypeORM's `save()` selects before it updates |

A registration is `LookUpEmail`, `ExistsByEmail`, `SaveInsert`, `SignTokens`;
`PATCH /users/me` is `Authenticate`, `FindForProfile`, `SaveSelect`,
`SaveUpdate`; `PATCH /users/:id/role` is `Authenticate`, `FindForRole`, perhaps
`CountAdmins`, then the same save. `save()` of an entity with an id is two
statements, and the UPDATE names the columns in which the entity differs from
the second read: this decides what a race can overwrite, so `Merged` has it column
by column. Names, age and avatar are one column, `profile`: the code treats them
alike. E-mails are members of a small set with their lower-case form; passwords
are left out, no property depends on them.

`UserDirectory` is what the doc comments promise, atomically. `Users` implements
it, its `table` being the directory's, where no two PATCH requests under way concern one
row (`RowsApart`) and no two demotions overlap (`DemotionsApart`). Nothing in the code
sees to that; `users_last_admin` and section 4 show what happens otherwise.

### Registration

`Users`, and `mail[r]`: what has become of the welcome mail of registration `r`.
`register` calls `sendWelcomeEmail` after `generateTokens` has returned and answers
without awaiting it, so `Advance` starts the mail in the step that answers 201; `Send`
is `ResendEmailAdapter.send`, which turns whatever happens into a result that is only
logged. `Crash` takes the requests under way and the mails with it and leaves the
rows. A client that was cut off tries again in another slot.

### Sessions

| State | Code |
|---|---|
| `clock` | seconds, as in `iat` and `exp` |
| `account[u]` | the user module's row, as this module reads it |
| `tokens` | the `refresh_tokens` table, indexed by its unique column |
| `minted[r]` | the refresh token a handler signed and is about to store |

A refresh token is the JWT of `{sub, email, role, iat, exp}`: with no `jti`, and
e-mails never changing, its string is determined by user, role and second.
Therefore `Token` is that record, and two signings in one second collide, as
they do in the code. `session` is a history field: the token from which refreshes
descend. `ChangeAccount` is everything the user module may do to the account
meanwhile.

`SessionLedger` is the promise: a session is held by one token at a time; a refresh
hands it on, a logout ends it, a logout-all ends every session of the user. The
refinement mapping has a session held by its live tokens, and by one that a refresh
has revoked and not yet replaced (`Holding`): the code rotates in three statements, and
the ledger's `Rotate` happens at the INSERT, its `End` where that fails.

### Content

| State | Code |
|---|---|
| `edit[k]` | the version of the content published in Strapi behind a route and URL |
| `redis[k]`, `expires[k]` | the Redis entry and when Redis drops it; `StampKey` is `strapi:cache`, matched by the pattern too |
| `body[r]` | the value the interceptor chain holds: which edit it shows, in how many envelopes |
| `found[r]` | the keys KEYS returned, until DEL |
| `now` | the time |
| `missed[r]`, `covered[k]`, `deletions`, `until`; `fetched` in a body | history: what an invalidation cannot vouch for, what the answered ones cover, how many DELs took effect, when the timestamp announced last runs out; when a body was fetched |

A read is `OuterGet`, `InnerGet`, `FetchList` or `FetchItem`, `InnerSet`,
`OuterSet`. The three content types have one shape, list routes and single-item
routes; filters by locale, country and menu type are part of the URL, hence of
the key. `Served[k]` says after which edits Strapi has an answer for `k`, so that
an item may be absent and come back. `Failures` says what may go wrong: a Redis
command (logged and swallowed), a whole Strapi call (with its retries: see
`HttpClient`), the process.

Every SET gives its key a new life: `SetKey` sets `expires[k]` to the time plus `Ttl` (a
day) or `StampTtl` (30 days), and `Tick` drops what has expired. An entry may so be
renewed without a call to Strapi: a read that misses it outside and hits it inside stores
what it hit again, wrapped once more. `Patience` is how long a request lasts at most:
`Tick` waits for requests that old. In the code a request waits for an HTTP call (four
attempts of 30 seconds and 6 seconds of delays) and four Redis commands, which ioredis
gives up after three retries; a silent peer is given up by TCP. All of this is minutes, far
less than a day, and `Patience < Ttl` is all that is used of it.

An invalidation *vouches* for a key if its KEYS and its DEL took effect and no read of
that key had a body to store while it awaited them. `missed` collects the other keys; what
an answered invalidation vouches for is `covered` from then on.

### HttpClient

One call of `request`: `Call`, `Send`, `Settle`, `Delay`. An attempt's outcome
is chosen among a response, no response, an overload (5xx or 429), a refusal
(any other status) and an error not of axios; the time it took between 0 and the
timeout.

### Throttle

| State | Code |
|---|---|
| `life[k][n]` | the requests that throttler `n` remembers for address and handler `k`, with what is left of their ttl |
| `block[k][n]` | what is left of the time it is closed |
| `answer[k]`, `idle[k]`, `hasty[k]`, `served[k]` | history: the last answer, the time since, whether a request ever came early, how often the handler ran at each age (`served[k][age]`, ages up to the longest ttl) |

`ThrottlerGuard` is the library's and is modelled from its use: it is an APP_GUARD, so
all of the throttlers in `app.module.ts` apply to every route; a `@Throttle` decorator
changes the numbers of the throttler it names and excuses the route from none
of the others. They are asked by increasing ttl until one refuses, and those before it
have counted the request. Restart empties the counters.

The library is not part of the repository, and two things are assumed of the installed
version. A counter is kept per throttler, address and handler; and the counters and
closings of different keys *under one throttler name* have nothing to do with each other.
If closing or reopening one key cleared timers of the others as well, `PatientClientsServed`
and `RegisterRetryAfter`, and the theorems `PatientServed` and `RetryAfterTrue`, would not
follow. `RetryAfter` goes by the handler where the filter goes by the URL: a request that
reaches `/auth/register` under another spelling (a trailing slash) is announced the default
time, and `RegisterRetryAfter` is not about it.

### Startup

| State | Code |
|---|---|
| `env` | `process.env` after ConfigModule has read `environment/.env.$APP_ENV`: what was unset is filled, what is empty stays empty |
| `phase` | the await at which `bootstrap()` is suspended |
| `attempts`, `database` | refused connections of the TypeORM module; whether PostgreSQL answers |
| `client`, `redis` | the ioredis client: status and `retryAttempts`; whether Redis answers |
| `command[r]` | a cache command that request `r` awaits |

`Validate`, `Connect` or `ConnectRefused` or `MailAdapterThrows`, `RunMigrations`,
`InitModules`, `Bind` are `bootstrap()` from await to await; everything between two of
them only sets up the application object. The client reconnects as `retryStrategy` says,
beside `bootstrap()` and for as long as the process lives. Secrets are strings of
which three things matter: whether they are empty, equal, or `Poor` (too
short, or with one of the unsafe patterns). No shutdown hooks are enabled, so
`onModuleDestroy` never runs and a process ends as if it crashed.

## 3. Runs

Bounds are those of the .cfg files. Deadlock is checked in `throttle` and `startup`; the
others disable it: request slots are used once, and when all are answered the service
has nothing to do.

| Run | Question | Bounds |
|---|---|---|
| `users_apart` | Do the handlers implement the directory where PATCHes of one row, and demotions, do not overlap? `AdminRemains`, `RoleChangesAuthorised`, `WritesAreExact`, `DirectorySpec` | 2 users (two administrators, an administrator and an ordinary user, or one administrator and a free id), 3 requests of any kind, 2 addresses, statements may fail; constraints `RowsApart`, `DemotionsApart` |
| `registration` | Do overlapping registrations leave one account and one welcome per mailbox, and tell the truth, though the process dies? `OneAccountPerMailbox`, `RegistrationAnswers`, `WelcomedOnce`, `RegistrationsSettle`; do they, racing, still implement the directory? `DirectorySpec` | 3 overlapping requests, two spellings of one address and another one, 3 free ids, statements may fail, any number of crashes, fairness |
| `users_last_admin` (violation) | Does `AdminRemains` hold when PATCHes overlap? No | 2 administrators, 2 requests |
| `sessions_races` | What holds however requests overlap and statements fail: `HopelessRequestsFail`, `IssuedTokensAreStored`, `AnsweredMeansRevoked`, `RevokedForever` | 1 account, 3 requests, 3 seconds, tokens living for 1 |
| `sessions_apart` | Do the handlers implement the ledger where no refresh overlaps another of its token, a logout of it or a logout-all of its user? `LedgerSpec`, `OneLiveTokenPerSession`, `LogoutAllEndsSessions` | the same; constraints `RefreshesApart`, `LogoutsApart`, `LogoutAllsApart` |
| `sessions_same_second` (violation) | Does a refresh rotate or refuse? No: 500, session lost | the same constraints, 2 seconds, no failures: none of them is needed for the loss |
| `content_faults` | What holds whatever fails and overlaps: `CachedWasServed`, `ReadsSurviveRedis`, `FreshAfterInvalidation` | 1 item, 3 requests, 2 edits, Redis and process failures; one tick, entries live for one |
| `content_ages` | How long do entries and the timestamp last while Redis works? `EntriesRunOut`, `TimestampReported` | 1 list, 4 requests, no edits, Strapi failures; 5 ticks, entries live for 2, the timestamp for 3, a request for 1 |
| `content_envelope` (violation) | Does every response carry one envelope? No | 1 list, 2 requests, no edits, nothing fails |
| `http_client` | `TimeBounded`, `GivesUpForAReason`, `NotResentOnceAnswered`, `CallSettles` | 0, 1 and 3 retries (the default), 3 units of timeout, 2 of delay |
| `throttle` | Do the throttlers together keep their limits and let clients in? `WindowBound`, `PatientClientsServed`, `RegisterRetryAfter`, `NobodyShutOut` | one address, two routes (one of them decorated), three throttlers with ttls 1, 2, 3 and limit 2, restarts, fairness |
| `startup` | What do the secrets check, the start-up and the retry strategy guarantee? `ProductionSecrets`, `EndsAfterThreeRetries`, `LaunchSettles`, `ServesWithoutRedis`, `CommandsSettle` | 9 environments and one file, 2 connection attempts, 2 requests, PostgreSQL and Redis come and go without bound, fairness |

Why the bounds are enough. The races of this code take two handlers and a third
request that sets the state up or observes it: a login, two refreshes of what it
issued; a read, an invalidation, a later read; two demotions. Three slots of any
kind contain all of these. Two users show a race over the last administrator,
and a free id in place of the second one shows a registration; three free ids are in
`registration`. Two spellings of one address and a
third that is free separate what canonicalisation decides. Three seconds with a
lifetime of one contain signing, expiry and the second between; the lifetime in
the code is longer, but nothing depends on more than the order of the three.
Two edits separate "old", "newer" and "newest", and for an item also present,
absent and present again. A limit of 2 is the least that tells a full counter from a
closed one, three ttls the least with a throttler between the first and the last; their
order and that of the limits are the shipped configuration's, where `login` and
`register` allow the fewest requests over the longest times. Counters are per address and
handler and `KeyOf` is the only place where keys meet, so two routes stand for two
clients as well. The nine environments are those the repository's files describe (a
checkout, the Docker image with and without a file, an example file in production) and
one for each rule of the validator; the retry strategy has its own 3. Where a theorem has been proved (section 5), no bound
matters.

The constraints of `users_apart` and `sessions_apart` are conditions on the behaviour, which
the service does nothing to meet: TLC does not go on from a state in which two such
requests are under way, and everything else overlaps. What these runs check is a
property of the code only as long as such requests happen not to overlap. Section 4 says
what happens otherwise, and section 5 has theorems with the same conditions. All other runs,
those of `Content` included, are without such a condition.

In `content_ages` a body is fetched, stored, hit and stored again, and the entry deleted in
between, within 5 ticks; the bound of `EntriesRunOut` is reached exactly, with a DEL
and without one (TLC refutes it with one tick less). Three requests and two edits in `content_faults` are an invalidation with a read
that overlaps it and one that comes later.

Symmetry (permutations of request slots, and of users where all start alike) is
used only in runs without liveness properties, and no property distinguishes the
slots.

### Fairness

- `Users`: weak fairness of every request's next statement, *or its failure*: the
  driver settles the promise of a statement one way or the other, and nothing in a
  handler waits for another request. Clients need not send anything.
- `HttpClient`: weak fairness of the call's next step: timers fire, and axios settles
  every attempt within its timeout. (An answer whose body keeps dripping in is the exception
  that the model does not have: the timeout is taken as a bound on the whole attempt.)
- `Registration`: the same of every request under way. Nothing is assumed of mails, and
  crashes may go on for ever: what was cut off has its answer.
- `Throttle`: time passes, and a client that was refused tries again at whatever moments.
  Without the second nothing could be said of its being served.
- `Startup`: weak fairness of `bootstrap()` and of the client's own steps (promises and
  timers of one event loop), of noticing a connection whose peer has gone; strong
  fairness of an answer to a command, since a Redis that comes and goes but is reached
  again and again answers in the end: ioredis sends unanswered commands again after a
  reconnection. Launches, kills and outages: none.
- `Sessions` and `Content` state no liveness: every handler is a straight line of statements,
  and a property saying that it ends would say nothing more. That stale content goes away
  is stated with the time it takes, as an invariant (`EntriesRunOut`).

## 4. What the runs found

Violations of what the repository says of itself, each with its run:

1. **Two overlapping demotions leave no administrator** (`users_last_admin`).
   `updateUserRole` counts administrators in one statement and saves in another.
   "Cannot demote the last admin in the system" (`user.service.ts:128`).
2. **A refresh in the second its token was issued fails and loses the session**
   (`sessions_same_second`): the same string is signed, UNIQUE(token) refuses it,
   and the old row is already revoked. No concurrency is needed. The end-to-end
   test that refreshes right after registering passes because its in-memory
   repository has no such constraint.
3. **A content response may carry no envelope, or two** (`content_envelope`): the
   two cache interceptors store under one key on both sides of
   `ResponseInterceptor`. What was stored twice wrapped stays for a day.

More can be reproduced by changing one line of a run's configuration:

- `WritesAreExact` without the constraints of `users_apart`: an update restores fields
  that its body omits. `updateUser` "preserves unchanged fields" (`user.service.ts:95`)
  by writing back what it read first; if another request writes between the two
  reads, its write is undone, a role change or the disabling of the account included.
- Which overlaps do the harm is settled by the theorems of section 5: writes of one row by
  two PATCH requests (without them, `WritesAreExact` and `RoleChangesAuthorised` hold) and
  two demotions at once (without either, `DirectorySpec` and `AdminRemains` hold). Both
  conditions are needed: where only the first kind of overlap is ruled out, TLC finds two
  administrators demoting each other.
- `LogoutAllEndsSessions` without the constraints of `sessions_apart`: a refresh past
  its check stores its token after the UPDATE of a logout-all, and the session survives,
  though the operation is documented as "effectively ending all active sessions across
  all devices" (`auth.controller.ts:156`).
- `OneLiveTokenPerSession` without the constraints: two overlapping refreshes
  of one token both succeed, since the revocation is an unconditional UPDATE.
  `src/test/e2e/auth.e2e-spec.ts:195` tests the sequential case.
- `LedgerSpec` without the constraints fails for these two reasons, and for a third: a
  logout of a token that a refresh is exchanging is answered 200, and the session goes on
  with the new token. By the theorems of section 5 there is no fourth reason, and
  each of the first two properties fails for its own reason only; with any one of the
  three kinds of overlap allowed and the other two ruled out, TLC finds the ledger violated.
- `FreshAfterInvalidation` if `Covering` does not leave out `missed`: a read in flight
  stores old content after the deletion, and it is served until its TTL or the next webhook.
  Only a read that has its body to store while the invalidation awaits its KEYS or DEL does
  this; one that still waits for Strapi then, and a second invalidation, do no harm (section
  5). And with `"redis"` in `Failures` a failed KEYS or DEL is swallowed: the webhook
  answers success and has deleted nothing.
- `TimestampReported` without its condition on `"setStamp"`, or with `"redis"` or `"crash"` in
  `Failures`: `strapi:cache` matches `strapi:*`, so that the timestamp is deleted with
  the rest and, until it is set again, clients are told there has been no invalidation.
- `EntriesRunOut` with `"redis"` in `Failures`: a read whose outer GET fails hits inside and
  stores what it hit for another day, with one more envelope; any number of such reads
  keep an entry alive that no webhook deletes.
- `ReadsSurviveRedis` with `"strapi"` in `Failures`: an outage of Strapi is answered
  404 on the single-item routes, whose repositories catch every error.
- In `registration`, the loser of a registration race is answered 500, not the 409
  of the doc comment (`user.service.ts:41`): nothing translates the violation of
  the constraint. `RegistrationAnswers` says what 201 and 409 mean, and allows this.

Where the documentation says something else than the code that the models have:

- `src/README.md:484-520` reads as if each route had one limit: "Global default: 200
  requests per 60 seconds. Specific limits apply to auth and strapi endpoints as shown
  above." All five throttlers apply to every route, so that every handler, whatever its
  decorator says, serves an address 10 requests in 10 minutes (the `register` throttler):
  the content routes, the refresh and the webhook too. `RegisterRetryAfter` is stated
  for `/auth/register` only: with `c.route = "other"` in its place TLC finds a client that
  comes back after the 60 seconds it was told (`http-exception.filter.ts:41`) and is
  refused again.
- `src/README.md:367` and `src/environment/.env.example:29` have RUN_MIGRATIONS run pending
  migrations at start-up. The data source of `app.module.ts:81-90` lists none, so
  `runMigrations()` finds nothing to do (`RunMigrations` changes nothing but the phase).
- The secrets check is keyed by NODE_ENV, the choice of a file by APP_ENV: started with
  APP_ENV=prod alone, nothing is checked. `ProductionSecrets` says what NODE_ENV=production
  guarantees.

## 5. Theorems

Everything below is checked by TLAPS, for every value of the constants that
satisfies the named assumptions: any number of users, addresses, requests and
edits, with every interleaving and, where `StatementsMayFail` or `Failures` says
so, every failure.

Assumptions: `Null` is none of the values it stands beside; `Canon` is idempotent
on spellings; the tables a deployment starts from are well typed, have unique
lower-case addresses and at least one administrator (the code cannot make the first
one); flags are Booleans, bounds are naturals.

**Users.** `Inv` in `UsersProofs` is inductive: types, unique and lower-case
addresses, fresh uuids, and for each request what its handler holds at each step
(`RequestInv`): the entity about to be inserted is the one its command builds,
an entity about to be saved and the row selected for it have the address of the
target's row. The addresses are why `Inv` is stronger than `TypeOK`: that a save
cannot break UNIQUE(email) is true because no entity ever carries an address but
its own. Then:

- `TypeCorrect`: `Spec => []TypeOK`.
- `MailboxesUnique`: `Spec => []OneAccountPerMailbox`.
- `OverlapsImplementDirectory`: `Spec /\ []RowsApart /\ []DemotionsApart => DirectorySpec`,
  the conditions of `users_apart`.
  The hypotheses are about the behaviour, not about the service: no two PATCH requests
  under way concern one row (`RowsApart`), no two demotions are under way
  (`DemotionsApart`). Everything else overlaps: PATCHes of different rows, a promotion and
  a demotion, registrations, sign-ins. `EditsCurrent` says that what a handler is going to
  save is the edit of the row as it still is, and is inductive under `RowsApart`;
  `AdminSpared`, that a demotion past its count leaves another administrator, needs
  `DemotionsApart` too. Each step then maps to a directory step at `SaveInsert` or
  `SaveUpdate`, or to a stutter.
- `OverlapsSpareAdministrator` (`AdminRemains`) from the refinement, and
  `OverlapsLoseNothing`: `Spec /\ []RowsApart => WritesAreExact`.
- `RegistrationTruth` (`AnswersProofs`): `Spec => []RegistrationAnswers`. No row is
  deleted or changes its address (`RowsStay`), so what a registration was told, or
  is about to be (`ToldTruth`), stays true.
- `OverlapsMoveNoRole` (`AnswersProofs`): `Spec /\ []RowsApart => RoleChangesAuthorised`.
  `Guarded` says that a role change past its guard has an ADMIN token and another
  target; `EditsCurrent` that no other save moves the role.
- `AdministratorsEntitled` (`AnswersProofs`) is what remains of it with no hypothesis at all.
  Overlapping writes may undo a role change, but cannot make one up: for the table `t` that
  the service started with, whoever has the role, in the table or in a token, is in every
  set that has the administrators of `t` and is closed under promotion (`Entitled`), a
  promotion being an updateRole to ADMIN of somebody else under an ADMIN token. The
  invariant (`EntitledRoles`) follows the role through what handlers hold: entities about
  to be saved or signed, and tokens already presented.
- `Welcomed` (`AnswersProofs`): `RegistrationSpec => []WelcomedOnce`. `WholeInv` has `Inv`, the
  truth of the answers and `MailInv`, that a mail is there exactly if 201 was
  answered; a crash preserves all three. Two mails to one mailbox would be two accounts under
  one address, which `Inv` excludes.
- `CrashesTellTruth`: the two safety properties of `Users` that `registration` checks hold
  in `RegistrationSpec` too, where the process dies at any step.
- `RegistrationKeepsDirectory`: `RegistrationSpec => DirectorySpec`. Registrations,
  however they race, need no hypothesis: nothing they do is a PATCH (`OnlyRegistrations`),
  and neither a mail nor a crash moves the table.

**Sessions.** `Inv` in `SessionsProofs` adds to the types what each handler holds
(`HandlerInv`), that a request barred by a disabled account has not passed the
check of its account (`BarredInv`), and what each answer stands for
(`AnswerInv`). The key lemma is monotonicity (`Grows`): rows are never deleted, never
change session, and are never un-revoked. Theorems: `TypeCorrect`,
`RevocationLasts`, `HopelessFail`, `IssuedStored`, `AnsweredRevoked`, for every
interleaving and failure.

`OverlapProofs` says which overlaps of requests the other properties survive. The
hypotheses are about the behaviour: no two refreshes of one token under way
(`RefreshesApart`), no logout of a token together with a refresh of it (`LogoutsApart`), no
logout-all together with a refresh of its caller's (`LogoutAllsApart`). Everything else
overlaps, refreshes of different tokens of one user, logins and changes of the account
included. In all three, a session starts with a row of its user (`SessionsRooted`), and a
refresh counts from its check of the token to its answer (`Refreshing`).

- `OverlapsKeepOneToken`: `Spec /\ []RefreshesApart => []OneLiveTokenPerSession`. The invariant
  (`Rotation`) is that a session has one refresh past its check (`HoldersApart`), and then no
  live token but the presented one (`SoleHolder`). A second refresh of the session could
  only pass the check with that same token.
- `OverlapsEndSessions`: `Spec /\ []LogoutAllsApart => []LogoutAllEndsSessions`. A session
  whose tokens are revoked, with no refresh past its check, stays so whatever overlaps
  (`EndedStays`); the hypothesis is needed at the UPDATE only, which makes it so.
- `OverlapsImplementLedger`: `LedgerSpec` under all three. With nobody revoking the token
  under a refresh (`ExchangesLive`), each step maps to a step of the ledger or to a
  stutter: a rotation to the INSERT of the new token, its failure to the end of the session.

**HttpClient.** `Inv` in `HttpClientProofs` adds to the types: as many requests were
sent as attempts were made or begun (`Counts`), the loop goes on only after an
overload (`Reasons`), and the elapsed time stays within `Budget(attempts, delays)`, a
delay that has not begun counting as spent (`Time`). The budget is what makes
`TimeBounded` inductive; three arithmetic lemmas say that it grows with both of its
arguments. Theorems: `TypeCorrect`, `TimeIsBounded`, `GivesUp`, `NotResent`, for
any timeout, delay and number of retries; and `LoopRunsOut`: a natural number
(`Remaining`) falls with every step of a call in flight, which is what `CallSettles` needs
besides fairness.

**Content.** `Inv` in `ContentProofs` says that every entry is `Genuine` (a body of an
edit which Strapi had an answer for, and which is published), that a chain about to
store holds such a body, and what each answer stands for (`ReadAnswer`: behind a 404
the item may have been absent at some time since the request arrived). It rests on
monotonicity (`Grows`): edits are only added, so what is genuine stays so. Theorems:
`TypeCorrect`, `CachedServed`, and, while Strapi answers, `ReadsSurvive`.

The rest of the module is about what an answered invalidation guarantees, and for how long
an entry can last.

- `FreshAfter`: `Spec => []FreshAfterInvalidation`, whatever overlaps, fails and crashes.
  `FreshInv` says that every entry (`CacheFresh`) is `Recent`, that is, not older than what is
  covered, and so is every body about to be stored; and that an invalidation past its KEYS has
  found every outdated entry under the keys it still vouches for (`RequestFresh`), so that its
  DEL leaves none. A body fetched after the DEL is `Recent` because what is published
  now is as new as any webhook call. One fetched before it is why `missed` is needed: the
  invariant is inductive because `missed` is taken in every step of every request.
- `StampReported`: `Spec => TimestampReported` while Redis works and the process does not
  crash. `StampInv`: once announced, the timestamp is there and lives until then, or some
  invalidation is about to set it. A crash would leave nobody to do so. Reads and invalidations
  overlap freely.
- `EntriesEnd`: `Spec => []EntriesRunOut` while Redis works and `Patience < Ttl`. A
  read that renews an entry has missed it outside, before it was there; it has waited since,
  and no request waits longer than `Patience`. `EntryInv` relates the age of an entry to
  that of the reads which have missed its key and may store it again (`Waits`), and
  `CarryInv` that of the bodies on their way into Redis. Only a DEL makes room for another
  generation of such reads, so every DEL adds one `Patience`, and an entry that no webhook
  deletes ends after `Ttl + 2 * Patience`, a day and some minutes.

**Throttle.** `Inv` in `ThrottleProofs` says that what a throttler remembers, and the time it
is still closed, is at most its ttl less the time the client has been quiet
(`Recent`). Two invariants go beside it.

- `TypeCorrect` and `RetryAfterTrue` from `Recent`: where `/auth/register` announces a time
  no ttl exceeds (`RegisterAnnouncesLongest`, as the shipped configuration does), a client
  refused there and back after that time is let through, for any configuration and traffic.
- `WindowsBounded`: `Spec => []WindowBound`. `RunsInv` says that the runs of a handler within
  the ttl of a throttler map one to one into the slots of that throttler
  (`Remembers`), the age of a run and what is left of its slot adding up to the ttl. So
  there are no more runs than slots. The map is what a count alone would not keep: it says
  which slot falls free when a run leaves the window.
- `PatientServed`: `PaceSuffices => (Spec => []PatientClientsServed)`. `Spaced` gives each
  request still counted a rank, the number of Paces it lies before the last one at least;
  ranks differ. A counter full when the next request comes would have as many ranks as slots, and
  the last of them would lie a ttl back: so it is not full, and no throttler ever closes.
  `PaceSuffices` (no ttl is longer than its limit times the Pace) is a condition on the
  configuration and the client; with the shipped numbers it holds from a Pace of one
  minute on, because of the 10 requests in 10 minutes of `register`.

**Startup.** `Inv` in `StartupProofs` adds to the types how far the client's count of
retries can be from the refusals that really happened (`ClientInv`: a connection that was
lost counts for one), and that nothing after the check runs without it (`SecretsInv`). Theorems:
`TypeCorrect`, `SecretsSound`, for any environments and files, and `ThreeRetries`.

**Model-checked only.** Every invariant and every action property that a passing run checks
is stated by a theorem, some under a condition on the behaviour or the configuration that
the paragraphs above name. What is left to TLC is liveness under fairness
(`RegistrationsSettle`, `CallSettles`, `NobodyShutOut`, `LaunchSettles`,
`ServesWithoutRedis`, `CommandsSettle`): it and anything with ENABLED are out of reach of the
prover used. No module declares a RECURSIVE operator.

## 6. Not modelled

- **Logging and its sanitizer**: output that no component reads; the sanitizer is a
  function over data, which a unit test covers as well as a bounded check would.
- **The library behind the throttler, ioredis, TypeORM**: modelled from how the code uses
  and configures them, no further. What is assumed of the throttler's storage, in particular
  that its keys are independent, is in section 2. A Redis that keeps a connection open and
  says nothing is noticed at some time, which only the kernel decides (no
  `commandTimeout` is set).
- **Settings that are only passed on** (port, CORS, log format, Swagger, TTL values), and
  the migrations' command line (`config/data-source.ts`). The schema the migrations make is
  used above: its constraints are in `Users` and `Sessions`.
- **The address a client is seen under**: `main.ts` sets no `trust proxy`, so behind one all
  clients share the proxy's counters. `Throttle` is about what follows per address.
- **The text of secrets**: a random hexadecimal secret, as the validator recommends, contains
  "123" with a probability of about 1.5%, and is refused. Strings are abstracted.
- **Routes that only read users**: they change nothing.
- **`delete`, `deleteExpiredTokens`, `exists`, `ttl`**: without callers. (That
  nobody calls `deleteExpiredTokens` is itself listed as a hazard.)
- **Daylight saving in `expiresAt`**: `setDate` is in local time and can differ by an hour
  from the JWT's `exp`; the model has the two comparisons disagree within one
  second only.
- **Validation of bodies**: inputs start behind the validation pipe.

## 7. Plan

Done: the core (`UserRecords`, `UserDirectory`, `Users`, `Sessions`, `Content`, `HttpClient`),
rate limiting, start-up and the Redis connection, registration with its mail and crashes, the
session ledger and its refinement, and the theorems of section 5.

What could follow:

1. A composition of `Users` and `Sessions` over one `account` table, in place of
   `ChangeAccount`: does a lost update re-enable an account whose sessions were to end?
2. An abstract cache (content, entry, invalidation) that `Content` implements for the keys
   an invalidation vouches for.

