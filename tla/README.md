# Vectro authentication: TLA+ models, model checking and proofs

The repository is the backend of Vectro: a FastAPI application with one module,
`users`, that registers users, logs them in with a password, rotates refresh
tokens and answers who the bearer of an access token is. Its state is in
PostgreSQL, behind SQLAlchemy's `AsyncSession`; every HTTP request is one
coroutine with one session and one READ COMMITTED transaction. What is hard
about it is therefore what concurrent transactions do to each other: the row
locks and the statement snapshots that the code relies on, reads that are stale
when they are used, answers that are sent before the commit, and clocks.

Paths below are relative to `src/backend/app/modules/users/` unless they start
with `src/`.

## 1. Inventory

| Component | State | Operations | Hard behaviour |
|---|---|---|---|
| Refresh sessions: `domain/entities/refresh_session.py`, `application/use_cases/refresh_authentication.py`, `logout_refresh_session.py`, `infrastructure/persistence/refresh_session_*.py`, `infrastructure/security/refresh_token_manager.py` | table `auth_sessions`: user, family, token hash, creation, absolute expiry, last use, revocation, successor | open a session (login), rotate, detect reuse and revoke the family, logout | two requests with one token; a rotation against a family UPDATE whose snapshot is older; clock readings taken before waiting for a lock; faults between two flushes |
| Registration and user creation: `application/use_cases/register_with_password.py`, `create_user.py`, `infrastructure/persistence/repository.py`, `api/exception_handlers.py` | tables `users`, `password_credentials` | `POST /users`, `POST /auth/register` | check-then-insert on the e-mail address; an INSERT sent by the flush in one route and by the commit, after the answer, in the other |
| Password login: `application/use_cases/login_with_password.py`, `domain/entities/password_credential.py`, `infrastructure/persistence/password_credential_*.py`, `infrastructure/security/*password_hash*.py` | `password_credentials`: hash, status, four dates | verify, rehash, open a session | user and credential are loaded without a lock, then Argon2 runs on a thread, then they are judged and written; equal work for every refusal |
| Access tokens: `infrastructure/security/access_token_issuer.py`, `access_token_validator.py`, `application/use_cases/get_current_user.py` | none in the database: the claims of a signed JWT | issue, `GET /auth/me` | dates lose their fraction of a second; the status of the user is looked up after the token was judged |
| User entity: `domain/entities/user.py` | status, profile, dates | create, deactivate, reactivate | deactivation while requests hold a loaded user |
| Value objects and `domain/services/password_policy.py` | none | normalise and validate addresses, names, identifiers | what "the same address" means |
| Database session and pool: `src/backend/app/core/database/session.py` | connections, transactions | take a connection, commit after the handler or roll back, give it back | the commit runs after the answer was sent; requests hold pooled connections while they wait for rows; the database restarts under them |
| HTTP API: `api/*.py` | none | routes, dependencies, exception handlers | exceptions that must not roll back (reuse detection) against those that must |
| Configuration, application start: `src/backend/app/core/config/`, `src/backend/app/main.py` | settings | read once; `lifespan` disposes of the engine | what is left in the pool when the application stops |
| Migrations: `src/backend/alembic/` | the schema | offline upgrade | constraints that a statement can violate at run time |

How they interact. `api/dependencies.py` builds one use case per request around
one `AsyncSession` and its repositories. The use cases call entities
(pure) and repositories (statements). The only shared state is the
database; requests meet in row locks and unique indexes. `LoginWithPassword`
writes into `auth_sessions`, which refresh and logout read; all of them, and
`GetCurrentUser`, read the status of a user, that `User.deactivate` changes.

What makes each part correct: a refresh token is exchanged at most once,
for one successor under the same user and absolute expiry, and what has ended
stays ended; a revocation reaches what it must reach; requests neither deadlock nor
starve; one user per address, a user with its credential or neither; a 409 that
is true; no login rewrites a password or brings an old hash back; the timing of a
refusal says nothing; an access token lives for its lifetime, neither longer nor
noticeably shorter; what was stored can be loaded again; what a request commits is
what it answered, no connection leaks, and a deactivated user is given no token.
`PROJECT.json` lists the hazards line by line, with the properties about each.

## 2. Modules

| Module | Models | Its state in the code |
|---|---|---|
| `RefreshSessions` | login (from the verified password on), refresh, logout | `auth_sessions`: the committed rows; `owner`: row locks; `staged`: rows flushed and not committed; `pc` and the local variables of a handler |
| `TokenFamilies` | the promise behind it: one-time tokens in families, without rows, locks or transactions | `grant`, `live`, `succ` |
| `PasswordLogin` | a login up to the session it opens, against revocation and deactivation | `row`: the committed credential; `owner`, `staged`: its lock and the uncommitted UPDATE; `credential`: the entity a login holds; `model`: the row that `save()` read again |
| `Authentication` | the two above as one: from the password to the session, its rotations and its end | their variables, with one `clock` and one status of the user; `shut`: history |
| `Accounts` | the service behind the two creation routes: what a client is told, and accounts that are opened in one step | `address`, `withPassword`: the accounts; `wish`, `told`: what a client asked for and was told |
| `Registration` | both creation routes | `users`, `credentials`: committed rows; `pending`: objects added and not flushed; `staged`: flushed; `reply`: what the client was told |
| `ValueObjects` | `EmailAddress`, `DisplayName`, `PasswordPolicy` as operators on texts | none |
| `RegistrationInputs` | `Registration` with bodies whose fields are texts, accepted or rejected by `ValueObjects` | none of its own |
| `AccessTokens` | issue and validation of access tokens, `GET /auth/me` | `tokens`, `clock`, `status` of users, `now`: when a request judged its token |
| `HttpApi` | every route from its first statement to its answer: exceptions and who catches them, the session around a request, the pool, the rows it waits for, restarts, the lifespan | `conn`, `owner`: what a request holds; `sought`: the row its next statement needs; `wrote`, `reply`; `pooled`, `stale`, `opened`: the pool |
| `LeastNumber` | a set of numbers has a least one, and what follows by induction from there: what the proofs need of it | |
| `*Proofs` | the proofs about the module of that name | |
| `MC*` | instances for TLC: symmetry, and bodies of requests | |

Three compositions. `Authentication` EXTENDS `RefreshSessions` and takes `PasswordLogin` by
INSTANCE: a login runs alone in `PasswordLogin` until the password is accepted
(`OpenSession`), and from there on the two take their steps together, up to one
commit or one crash, while `Revocation` lets the credential be revoked as `PasswordLogin` does.
Every behaviour of it is a behaviour of `RefreshSessions` and of `PasswordLogin`; both are
proved, so nothing that holds of the parts has to be checked of the whole. `RegistrationInputs` EXTENDS `Registration` and
`ValueObjects`. `HttpApi` stands across the others: it says of each route what its
transaction has written when a given exception leaves its use case (`Outcomes`), as the
modules of the use cases find it, and forgets the rows.

An action is the code between two points where other requests can run
in a way that matters: one statement and what the handler does with its result, or
the Argon2 work on its thread. Names are those of the source where there is one (`rotate`, `revoke`,
`is_rotated`, `CanEnd` for `_end`'s guard, `replace_password_hash`); the step of
a handler is a `pc` value named after what comes next. The map in `PROJECT.json`
gives the lines of every definition. The definitions marked "Variant" are
deliberate mistakes of a plausible kind: each shows that one property
notices it.

### Abstractions, and why they lose nothing that a property asks about

* An identifier of `Session` stands for the row id, the token and its SHA-256
  hash, all generated together; `uuid4` and `token_urlsafe` never repeat, so a new
  one is an unused identifier. The family is named by its first row.
* A refresh token that a client presents is one that was delivered, or unknown
  (`Null`): this includes malformed ones, which the hash lookup does not find either, and
  a lone surrogate, which has no hash: a 401 for a refresh, an exception in a logout (`HashRaises`).
  A token is delivered with the answer, before the commit.
* The writes of a transaction are staged per row and become visible at its
  commit together. Rows that were locked or written stay locked until it ends.
* In `PasswordLogin` there is one account: logins to different accounts share no row. A hash is
  the password it is of and whether its Argon2 parameters are current; comparing a
  password with it is exact.
* `Registration` takes the normalisation of addresses as the constant `Normal`,
  a function from request bodies to addresses or to `Null` for a body that is rejected.
  `RegistrationInputs` computes that function from `ValueObjects`.
* In `ValueObjects` a text is a sequence over the kinds of characters that the rules tell
  apart: a small letter and its capital; one letter that `casefold` turns into two
  (ß); "@", "."; the blank, and white space that a name may not contain inside;
  in passwords, an unpaired surrogate.
* In `AccessTokens` a foreign, malformed or absent token is one input (`Null`):
  signature, issuer, audience and required claims are compared by PyJWT. The
  clock counts ticks, `Second` of which make a second.
* In `HttpApi` all requests compete for one address, one credential and the rows of one family
  (`Chain` of them, each with its lock), and a statement returns any of its possible results. A
  refresh or a logout first waits for the row of its token (or finds none); a logout, or a refresh
  that detects a reuse, then holds that row while its UPDATE waits for the row that is not revoked
  (`FindFamily`, then `Execute` at "update"). That this row comes later in the family, and is one at
  most, is what `RefreshSessions` has and its proofs establish (`LockOrder`, `MatchedOnce`). Requests that are
  answered before their first statement (a malformed body, a rejected value, no token)
  touch nothing that is modelled and do not appear.

### What is assumed of software outside the repository

* PostgreSQL, READ COMMITTED: `SELECT ... FOR UPDATE` waits for the holder of the
  row and returns its newest version; an UPDATE selects rows in the snapshot taken
  when it starts, waits for each of them, and evaluates its WHERE clause again on
  the newest version; an INSERT waits for an uncommitted duplicate of a unique
  key; a failed check constraint aborts the statement. A restart breaks every
  connection and ends every transaction.
* FastAPI (`>=0.139`): the code after the `yield` of a dependency runs after the
  answer was sent. Hence `get_db_session` commits, or fails to, after the reply.
* SQLAlchemy: `autoflush=False`, so an added object is inserted by `flush` or by
  `commit`; the session refers to its objects weakly, so that `save()`, which runs
  after the repository dropped the first object, reads the row again; an UPDATE
  names the columns whose values differ from what was read; a session takes a connection at its
  first statement and keeps it until its transaction ends; `QueuePool` pings a
  pooled connection before it lends it, opens up to `max_overflow` more than
  `pool_size`, closes those that come back to a full pool, and raises after `pool_timeout`.
* PyJWT: a date is written as whole seconds, rounded down; `iat` later than now
  is immature, `exp` not later than now is expired. It compares `exp` with now at
  full resolution.
* Nothing revokes a credential or deactivates a user through a route: the
  entities' operations do, as the tests use them, and the models let them happen at any moment.

## 3. What the runs check

Each passing run takes less than three minutes with two workers. Deadlock is checked in
all of them: an idle system can always accept a request.

| Run | Instance | Question |
|---|---|---|
| `refresh_interleavings` | 2 requests, 3 sessions, lifetime 2, clock 0..1 and set back, faults everywhere | `OneActivePerFamily`, `FamilyIsAChain`, `EndedStaysEnded`, `RevocationStaysInFamily`: whatever logins, rotations, replays, logouts and crashes do to each other, at most one token of a family can be exchanged, its rows are one line with one owner and one expiry, a revoked row is never written again, and only a request that presented a token of the family ends one of its rows. `ImplementsTokenFamilies`: every commit is one atomic step of the abstract specification. |
| `refresh_three_requests` | 3 requests, 3 sessions, clock standing, no faults | `LogoutOfNewestTokenIsTotal`, `RevocationCoversSnapshot`: what a revocation does guarantee in spite of its snapshot. `NoDeadlock`: lock waits are never circular. `UnknownIsUncommitted`: a token that a client was sent is refused as unknown only while its transaction has not ended. |
| `refresh_liveness` | 2 requests, 2 sessions, lifetime 1, clock 0..1 and set back, faults | `RequestsFinish`: nobody waits for ever for a row. `StoredSessionsLoad`: the constructor of the entity accepts every stored row, although rotations are stamped by clocks that disagree. `IInv`, the inductive invariant of the proofs. |
| `revocation_race` | 2 requests, 3 sessions | finding 1, below |
| `logout_stale_clock` | 2 requests, 3 sessions, clock 0..1 | finding 2 |
| `registration_races` | 3 requests, 2 identifiers, an address for each route in two spellings, and one that is too long when folded; crashes | `EmailsUnique`, `TypeOK`: one user per address. `RegistrationIsAtomic`: a registration leaves both rows or neither, as it answered. `StoredUsersLoad`: what was accepted and stored fits its column and is accepted when it is loaded. `ImplementsAccounts`: what clients are told and get is what the abstract specification promises: a commit opens one account, with a password exactly if the route is the registration; a 409 is told only when somebody owns the address, so that a competitor who may still fail must be waited for; a registration that was told 201 loses its account to a failure only. `CreationsFinish`: a creation ends although it may wait for a competitor. |
| `created_is_persisted` | 2 requests, 3 identifiers, eleven bodies, valid and not | finding 3 |
| `password_login` | 2 logins, 1 revocation, faults, clock set back | `EqualWork`, `StatusMatchesRevocation`, `PasswordKept`, `CurrentStaysCurrent`, `TypeOK`: every answer cost one verification (a success that rehashes also pays for the new hash); the column-wise UPDATEs of logins and revocations never leave a status that contradicts `revoked_at`, another password, or an older hash. |
| `revoked_credential` | 2 logins, 1 revocation, no faults | finding 4 |
| `authentication` | 2 requests, 2 sessions, 1 revocation, clock standing, faults | `SessionsAreAuthenticated`: a family exists only because of a login that presented the right password for an active user and credential. `DeactivationIsEffective`: what begins after a deactivation is given no token, although the user is loaded long before the answer. `NoCircle`: a login that stores a new hash locks the credential until its commit; no circle of waits goes through it and the rows of sessions. |
| `access_tokens` | 1 request, two-second tokens, half-second ticks, clock 0..6, set back | `AcceptedWithinLifetime`, `RefusedOnlyAtTheEnd`: rounding never prolongs a token and costs it less than its last second. |
| `http_api` | 3 requests, pool of 1 with 1 in overflow, a family of 2 rows, restarts, stop and start | `PoolIsAccounted`: no connection leaks on any path. `RestartHurtsOnlyOpenTransactions`: a restart costs nobody who was not in a transaction. `AnswerMatchesCommit`, `ReuseIsRevoked`, `SuccessIsKept`: the exceptions that become answers and those that roll back are the right ones; an error changes nothing, except that a reused token has ended its family; a success is taken back only with the connection, or for `POST /users` (finding 3). `NoDeadlock`: waits for the pool, for a row, and, while that row is held, for a second row never block each other for good, whoever waits for whom. `RequestsEnd`: and so every request ends. |

### Why the bounds are enough

Three sessions hold a family of root, successor and newest row, or two families of
which one has rotated; with three a replay, a logout with an ancestor and a
rotation of the newest token can all be under way. Two requests suffice for every
race of two statements; three are there for what needs a third: circular
waiting, and a queue behind a row. With lifetime 2 and clock 0..1 a successor that is created a
tick after its root would get a later expiry if the family were prolonged; with
lifetime 1 and clock 0..1 tokens do expire, and a rotation can happen in the
tick of the expiry. `PasswordLogin` needs two clock values, so that an update can
be later or earlier than what it was made from. In `AccessTokens` requests never write what
another reads, so one request at a time shows what any number can
do; half-second ticks distinguish every position of an instant relative to the
rounded dates, and six ticks leave room before and after the life of a token.

`HttpApi` has more requests than connections: all connections can be held by
requests of which one waits for a row of the other, with a third waiting for the pool;
one connection is kept and one closed when both come back. With two connections two requests
at most hold rows, so two rows hold every way in which they can wait for each other; longer chains of
waits, through more connections and a longer family, are a matter of the proof. `Authentication` is about
one request's way from a password to a family, its rotation, and a deactivation or a revocation at
any moment in between; two requests and two sessions hold a login with a competitor
of each kind. Its clock stands still, since none of its three properties looks at it: the parts
are checked with a moving clock, and the proofs are for any.

The lengths in `ValueObjects` are scaled down together: addresses of at most 5 characters
instead of 254, names of 2, passwords of 3 to 5, and `StoredUsersLoad` tries every
text of up to 5 characters of seven kinds. Five is the shortest address that matches
the pattern (`a@a.a`), so that one whose first letter folds into two is
accepted as typed and too long when folded.

When identifiers run out, a request fails (`IdentifiersExhausted`): a bound of the
models, not of the code. Symmetry is used in safety runs only, over requests,
sessions and user identifiers, none of which is ordered or singled out.

What the bounds leave open of safety, the proofs close: every invariant, action property and
refinement of a passing run is a theorem. The type invariants of `RefreshSessions`,
`AccessTokens` and `HttpApi` are theorems too and need no run of their own (`IInv` of
`refresh_liveness` contains the first); `TypeOK` of the other two is also in their runs.

### Fairness

Every `FairSpec` (`RefreshSessions`, `Registration`, `HttpApi`) assumes weak fairness of the
steps of a handler that never wait (`Run`): the event loop resumes a coroutine whose
statement has returned, and a thread that hashes comes to an end. The steps that wait get
strong fairness (`Lock`, `Insert`, `Wait`): they are enabled and disabled as others take and
release the row or the connection; PostgreSQL queues the waiters of a lock
and wakes them in turn, and so does the pool. Nothing is
assumed of clients, of the clock, of faults, restarts or deactivations. `RequestsEnd` does not
rely on the pool's timeout, which may never come: nobody who holds a connection waits for
another one, whoever holds a row has its connection already, and whoever holds a row and waits
waits for a later row of the family.

### Findings

1. `revocation_race`: `revoke_family` (`refresh_session_repository.py:52`) selects
   rows in the snapshot of its UPDATE. If the token presented is not the newest of
   the family, the row lock of the lookup does not exclude a rotation of the newest;
   when that rotation is uncommitted, the UPDATE waits for the old row, skips
   it, and never sees the replacement, which stays active. A test says "An old token
   still identifies its family for full refresh-family logout."
   (`src/backend/tests/integration/users/test_login_with_password.py:1712`).
   `LogoutOfNewestTokenIsTotal` and `RevocationCoversSnapshot` state what is true.
2. `logout_stale_clock`: the logout reads its clock before the UPDATE. A replacement
   committed in between has a later `created_at`, and the UPDATE then violates
   `ck_auth_sessions_revoked_after_created`: a 500, where a test is named
   `test_logout_is_always_an_empty_no_content_response`. No clock has to be set back. The run
   is about tokens that were issued; a lone surrogate in a token is another 500 (`HashRaises`).
   `StoredSessionsLoad` states what the constraint saves.
3. `created_is_persisted`: `CreateUser` does not flush, so `POST /users` can
   answer 201 and lose the race for the address at its commit, against its
   docstring "Create, persist, and return a new Vectro user profile."
   `SuccessIsKept` states that no other route takes back a success while its connection lives.
4. `revoked_credential`: a login that rehashes writes a credential that was loaded
   before the Argon2 work. A revocation committed meanwhile is then written over,
   and undone if the second read of `save()` sees it. "A revoked credential cannot
   replace its password hash." (`domain/entities/password_credential.py:117`) guards
   the entity, which is stale. No route revokes a credential today.
   `StatusMatchesRevocation` states what is true: status and `revoked_at` agree. The other dates
   need not: a revocation between the second read and the UPDATE leaves `password_changed_at`
   later than `revoked_at`, a row that `to_domain` refuses.

## 4. What is proved

TLAPS checks every theorem for all values of the constants: any numbers of
requests, sessions, users and bodies, any lifetime, clock bound and pool settings, with and
without faults and a clock that is set back. The constants are assumed only to be of their
kind (`TTLAssumption`, `ClockAssumption`, `PoolAssumption`, ...), and `Null` to differ from
the values it is told apart from (`NullAssumption`, `RowAssumption`, ...).

Every proof has the same shape: an inductive invariant, the lemma that the initial states have
it, one lemma per action (or per group of actions that change the same variables) that keeps it, and the
properties as its consequences. `IInv` of `RefreshSessions` is also checked by the run
`refresh_liveness`; the invariants of the other modules were checked by TLC on the instances of
their runs before they were proved.

**`RefreshSessionsProofs`.** `FamilyIsAChain` is not
inductive alone, since a commit installs rows that were computed many steps before. What
makes them still right is locking, so `IInv` adds:

* `StagedIsLocked`: what a request has written, it has locked;
* `EntityIsCurrent`: the entity a request works on is its locked row as
  committed, that is, no loaded copy is stale (false without FOR UPDATE);
* `RevocationStaged`, `ReplacementStaged`: the staged rows are exactly those of
  a revocation, of a login, or of a rotation (its two halves: the replacement alone,
  or with the rotated row);
* `HandlerState`, `SnapshotIsCurrent`, `ExpiryBounded`: what a request knows at
  each of its steps and of the rows its UPDATE selected.

`Commit` is the hard action:
`CommitShape` shows that a commit opens a family, rotates its newest row or revokes
rows of one family, and `OpensKeepsChain`, `RotatesKeepsChain`, `RevokesKeepsChain` treat
each case. From `Invariance` follow:

* `TypeCorrect`, `FamiliesAreChains`, `SnapshotIsCovered`: conjuncts of `IInv`;
* `OneActive`: an active row has not been rotated, and a chain has one such row;
* `LogoutIsTotal`: whoever holds the newest row's lock holds off any rotation of the
  family, because a rotation locks the one active row;
* `EndIsFinal` and `RevocationIsContained`: only a commit writes rows, what it writes was not
  revoked before, and it belongs to the family of the token that was presented;
* `Refinement`: a login, rotation or revocation that commits is `Issue`, `Exchange`
  or `Close` of `TokenFamilies`, and every other step a stutter;
* `StoredRowsLoad`: with a second invariant on top of `IInv`, `LoadState`. What is staged
  already loads, and a token that was accepted is rotated before its expiry, because
  one reading of the clock serves both the check and the replacement;
* `UnknownIsTransient`, without faults: `SentIsStored` says that every token a client was sent is
  stored or is the replacement of a request that has answered and not committed, and
  `PresentedWasSent` that whatever is presented was sent. With faults it is false, as it is of the
  code: a commit that fails after the answer loses the token (`SuccessIsKept` says when);
* `NeverDeadlocked`. A family has any number of rows, so the argument needs an order on them: the
  invariant `LockOrder` says that the stored rows can be numbered (`InOrder`; a row that a commit
  adds gets the next number) so that an active row comes after all others of its family, and that an
  UPDATE which does not find the row its request has locked finds one that comes after it.
  The snapshot of an UPDATE finds one row at most (`MatchedOnce`), and a request in its UPDATE
  holds no lock but that of its own row and that of the row it has updated (`LocksKnown`). In
  a circle of waits every request would hold the row of its own token and wait for
  one with a greater number, held by another of them as its own; the one whose row has
  the greatest number cannot. That there is a greatest takes an induction, which
  `LeastNumber` provides for sets of numbers, where no operator has to be instantiated.

**`RegistrationProofs`.** `EmailsUnique` becomes inductive with `StagedIsUnique` (an
uncommitted user shares its address with no other row, which is what the unique
index sees to), `IdentifiersDiffer`, and what a creation has added at each step
(`CreationState`). `RegistrationsAreAtomic` follows. `Refinement`
maps tables, routes and answers to `Accounts`, one lemma per step a client can notice: a request
that begins is `Ask` (`BeginAsks`), a 201 is `Promise` (`AnswerPromises`), a 409 before the answer is
`Refuse` (`ConflictRefuses`), a commit is `Open` of the one account that was promised, with a password
exactly for a registration (`CommitOpens`), an INSERT that comes too late is `Lose` (`LateInsertLoses`),
and a failure is `Fail` or `Lose` (`FailureShows`). Lookups, the hash and the flush are stutters
(`QuietSteps`). What `Accounts` calls reserved is a user who is staged
(`ReservedIsStaged`), and a staged user keeps its address free of others by `StagedIsUnique`
(`StagedIsFree`): this is where the wait of the INSERT enters.

**`RegistrationInputsProofs`.** What `EmailAddress` and `DisplayName` make of a text is not
changed by making it again (`ValuesLoad`): stripping leaves printing characters at both ends
(`StripFacts`), so that a second strip finds nothing (`StripIsFinal`), and case folding leaves no
character that folds again (`FoldedType`, `FoldIsFinal`, `EmailIsFinal`). The width of a folded text is
counted, not recursively summed (`Width`), and the character a position comes from is found by
induction over the text (`FoldedFrom`, with `LeastNumber`). With the assumption that `Normal`
and `Email` are what `ValueObjects` makes of the bodies (`InputsAssumption`, which the runs
evaluate), every stored address is accepted when it is loaded: `UsersLoad`.

**`PasswordLoginProofs`.** The idea is that all copies of the credential agree on what
matters (`CopiesAreSound`), however old they are, and that a revocation differs from
what it loaded in exactly status and date (`RevocationsAreSound`): a column-wise UPDATE
then mixes rows that agree on all the columns it leaves alone. `WorkIsEqual`, `StatusIsNotTorn`,
`PasswordIsKept` and `HashesStayCurrent` follow.

**`AuthenticationProofs`.** `ImplementsRefresh` and `ImplementsLogin` show that the
composition implements both parts, so their invariants hold in it. `AInv` ties them:
a session that is opened belongs to a login that has passed, and a request during which
the user was never active has neither loaded an active user nor come to its answer.
`FamiliesAreAuthenticated` and `DeactivationTakesEffect` follow. `AuthSessionsAreSound`,
`AuthRefinement` and `AuthCredentialsAreSound` state of the composition what is proved of the parts.
`NeverInACircle` needs both sides again: whoever holds the row of the credential is past its own
waiting, whoever waits for a row of sessions is not a login (`HandlersApart`), so a circle would be one of
sessions alone, which `NeverDeadlocked` excludes.

**`AccessTokensProofs`** shows what rounding does to a date (`RoundsDown`) and from it,
with the invariant that a request holds an issued token and the instant at which it
judged it, `TypeCorrect`, `LifetimeIsKept` and `RefusalIsLate`.

**`HttpApiProofs`.** `PoolState` counts connections as the cardinality of the requests
that hold one; a lemma adds or removes one of them. `RequestState` says at each step what is
settled of a request's answer and what it has written. `PoolAccounts`, `RestartsAreContained`,
`AnswersMatchCommits`, `ReusesAreRevoked` and `SuccessesAreKept` follow. `NeverBlocked` rests
on the invariant `OwnersAdvance`: a request that holds a lock has nothing left to do but its commit or
rollback, which inserts nothing, or it is revoking a family, holds one row of it, and needs a later one or
none. If requests blocked each other, one of them would hold a lock and wait (all connections are held,
and no holder lacks one); of those that do, the one that waits for the latest row
waits for an owner that waits for a later row still. That there is a latest is `LeastNumber` again.

Only model-checked:

* liveness (`RequestsFinish`, `CreationsFinish`, `RequestsEnd`), which is out of the
  prover's reach;
* the findings, which are behaviours that TLC exhibits.

## 5. What is not modelled

* `User.change_display_name` and the timestamps of an updated user: no route and no use case
  writes an existing user. Deactivation and reactivation are changes of the set of active users.
* The fields of schemas and of responses, wording, serialisation, logging, health and
  documentation routes: no state, and no property is about them.
* Signing keys, the reading and validation of settings, the construction of the
  application: done once, before any request. Signatures and claims other than the dates and the
  subject are compared by PyJWT.
* Migrations, `env.py`, upgrade and downgrade: they run offline; the constraints they create
  appear where a statement can violate them.
* Requests that a client abandons before the answer: for the database they are the faults that
  `MayFail` allows at any step.
