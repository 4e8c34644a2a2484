# Sessions, tenants and sign-in of BCM Soft: a verification project

BCM Soft is a commerce management system at its beginning: what exists is the
identity and tenancy foundation of its API (NestJS, Prisma, PostgreSQL, under
`src/bcm-soft/apps/api`) and the web application's sign-in (React, TanStack
Query, under `src/bcm-soft/apps/web`). This directory models that foundation in
TLA+, checks it with TLC on small instances, and proves its safety properties for
all instances with TLAPS.

Paths below are relative to `src/bcm-soft/`; `api/` stands for `apps/api/src/`
and `web/` for `apps/web/src/`.

## 1. Inventory

### What the system does

A user logs in with e-mail and password and receives an opaque token in a
cookie. Each request presents it; the API looks the session up in PostgreSQL by
the token's digest, refuses it if it is revoked, expired (absolute deadline or
idle) or its user is not Active, and moves `last_seen_at` at most once per touch
interval. A user may *renew* a session with the password: the old session is
revoked and a new one made in one transaction. Tenant requests resolve *which
organization* the session works in, select it if there is only one, and run
operations under locks that keep the authority true until they commit. Password
attempts are counted in memory per process and address, and in PostgreSQL per
address, identity and pair.

### Components

| Component | State | Operations | Hard behaviour | Correct when |
|---|---|---|---|---|
| Session lifecycle: `api/identity/application/session-service.ts`, `session-renewal-service.ts`, `api/identity/infrastructure/prisma-session-repository.ts`, `api/tenancy/infrastructure/prisma-session-authorization-snapshot.ts`, `api/identity/domain/session-policy.ts` | rows of `sessions`, their locks | validate, touch, revoke one, revoke all, create, renew | concurrent statements under READ COMMITTED, lock waits that outlast deadlines, clocks read before the statement that uses them, rollbacks | a login has one usable session at most; what is revoked stays so; no session is born without its user's authority; no deadlock |
| Tenant authority: `api/tenancy/application/tenant-authority.ts`, `api/tenancy/infrastructure/prisma-tenant-authority.ts`, `api/tenancy/presentation/*` | the selection columns of `sessions` | resolve, auto-select, reject | several statements per resolution, snapshots older than the locks | context and selection agree |
| Tenant persistence scope: `api/tenancy/infrastructure/prisma-tenant-persistence-scope.ts` | locks and a repository lease for the length of a callback | `run`, `runAuthorized` | the authority changes while the callback runs; a repository outlives it | nothing commits, and nothing is written, without authority |
| Authorization policy: `api/tenancy/application/authorization.ts` | none | `authorize`, `isEligible` | two tables that must agree | delegation never escalates |
| Login: `api/identity/application/login-use-case.ts`, `credential-authenticator.ts`, `api/identity/infrastructure/prisma-credential-repository.ts`, `argon2-password-hasher.ts` | `user_password_credentials` | read, verify, rehash by compare-and-swap, create a session | hundreds of milliseconds between read and use | a rehash never undoes a password change; a session is for a password that was the user's |
| Persistent rate limiter: `api/identity/application/persistent-login-rate-limiter.ts`, `api/identity/infrastructure/prisma-login-rate-limit-store.ts` | `identity_rate_limit_windows` | `consume` | three upserts per transaction, window boundaries, CHECK constraints | exact counts, no admission over budget, blocks honoured |
| Local rate limiter: `api/identity/application/local-network-rate-limiter.ts` | a bounded `Map` | `consume` with prune and evict | a full map, window rollover, restart | budget kept while remembered |
| Authentication over HTTP: `api/identity/presentation/*`, `api/observability/safe-http-exception.filter.ts` | the response; in the browser, the cookie jar | `login`, `logout`, `session`, `renew` | answers out of order, lost, or failed half-way | the jar ends with a usable cookie; a logout that found its session valid has revoked it |
| Web session services: `web/app/app-services.tsx`, `web/app/app-shell.tsx`, `web/features/auth/*`, `web/lib/http/api-client.ts` | query cache, `sessionLost`, `sessionLoss`, mutations | query, login, logout, session loss, redirects | tabs that share a jar; cancellation under a pending mutation | no redirect loop, nothing pending for ever; a logout ends no session but the one its tab showed |
| Schema: `apps/api/prisma` | constraints | | CHECKs met by concurrent code | |
| Configuration: `api/config` | none | parse and validate the environment | | lawful lifetimes and rules |
| Client lifecycle: `api/infrastructure/database`, `api/main.ts` | the pool, `#connected` | `connect` with the identity check, `disconnect` | failures between opening and the flag, processes lost at any step | nothing runs under an unsafe role, no process ends with its pool open |
| Development user provisioner: `api/development` | a user and its credential | look up, hash, insert both | two of them for one e-mail, loss between the INSERTs | one whole user, no credential overwritten |
| Scripts, observability, health, module wiring, presentation | little or none | | | |

### How they interact

- HTTP handlers call the use cases; both limiters are consumed before a
  password is verified; a login and a renewal end in the session repository.
- Everything the API decides meets in PostgreSQL: session, user, credential,
  membership rows and an advisory lock per organization. There is no other
  shared state between requests except the local limiter's map.
- Renewals call the tenancy snapshot *inside their transaction*; tenant requests
  begin with the session row. Both take locks in the order Session, User,
  credential, Membership, Organization.
- The API has no code that disables a user, changes a password, edits a
  membership or an organization. Operators, future code and the integration
  tests do so with statements of their own. The models call them the
  environment: `AuthorityStore!Environment`, and the operators in `Login`.
- A browser's tabs share the cookie jar, and nothing else.

## 2. The modules

| Module | Models | Uses |
|---|---|---|
| `SessionContract` | what the API promises of sessions, in four definitions: issue, hand over, end | |
| `SessionPolicy` | expiry and touch predicates, lawful lifetimes | |
| `AuthorityStore` | rows, locks, clock, environment | `SessionPolicy` |
| `SessionLifecycle` | every request that makes, checks, renews or ends a session; implements `SessionContract` | `AuthorityStore` |
| `SessionLifecycleProofs`, `SessionContractProofs` | theorems on `SessionLifecycle`; that it implements the contract | TLAPS |
| `AuthorizationPolicy` | roles, permissions, targets | |
| `TenantAccess` | tenant resolution and the persistence scope, beside the requests of `SessionLifecycle` | `SessionLifecycle`, `AuthorizationPolicy` |
| `TenantProofs` | theorems on `TenantAccess` and the role model | `SessionContractProofs` |
| `LoginRateLimit`, `LoginRateLimitProofs` | the persistent limiter; theorems | TLAPS |
| `LocalRateLimit`, `LocalRateLimitProofs` | the in-memory limiter; theorems | TLAPS |
| `Login` | the login use case and its rehash, beside the provisioner | |
| `PrismaClientLifecycle` | the database client of a process | |
| `LoginProcesses` | the API and the provisioning tool as processes with a client each, running `Login` | both of the above |
| `LoginProofs` | theorems on `Login` and on the processes | TLAPS |
| `AuthHttp`, `AuthHttpProofs` | the controller, the cookie and the browser's jar; theorems, that it implements `SessionContract` among them | TLAPS |
| `WebSession` | the tabs of one browser, on an instance of `AuthHttp` | `AuthHttp` |
| `WebProofs` | theorems on `WebSession`, on an instance of `AuthHttpProofs` | TLAPS |
| `MC*` | the symmetry sets and the rate-limit rules of the runs | |

### Reading the models against the code

**One action is one database statement, or the code between two awaits.** A
locking read waits until it can lock and then sees the last committed row, so
waiting, locking and reading are one step. Between two statements anything may
happen. A request's local variables are the record `ctx[p]` (`seat[p]` in
`TenantAccess`, `req[p]` in the limiter), its place in the code is `pc[p]`
(`step[p]`). A transaction's writes become visible in the step that commits it.
`Rollback` lets any open transaction fail at any step: process loss, connection
loss, Prisma's timeout, deadlock victim.

**`SessionLifecycle`.** `FindForValidation`, `ValidateSession` and
`TouchLastSeenIfDue` are `validateSession` with the two reads of Prisma's
`findUnique`, the clock read after them, and an UPDATE that compares the
*captured* instant with the row it finds when it finally runs. `FindIdentity` and
`FindCredential` are the two reads of a renewal's `findUnique`, between which an
operator may change either. `LockSession` ...
`CommitReplacement` are the statements of `replace`. `CreateSession`,
`LockLoginUser`, `InsertSession` and `Retry` are `createSession` with its three
attempts. `RevokeAllForUser` takes the statement's snapshot, `RevokeRow` waits
for its rows one at a time, `CommitRevocations` or `RevocationsRefused` (the
CHECK `revoked_at >= created_at`) ends it. A session is named by its token.
`parent` is not a column; it records what a renewal replaced. `SelectOrganization`
is the abstract form of what a tenant resolution does to a session;
`TenantAccess` refines it.

**`SessionContract`.** What the interface of the repository promises whoever
calls it, with no locks, clocks or statements: a session is issued once, handed
over at most once, in the instant that ends it and to the same user, and never
comes back. Only a revocation ends a session. A deadline does not: past it the
session is not valid, but a touch whose instant was captured before it can make it
valid again (section 6). `SessionLifecycle!Life` reads the contract off the rows (a
row is open while it is not revoked); `AuthHttp`, whose handlers treat a session as
one object that a call changes at once, maps to the same contract in the same way.
So what the HTTP model assumes of the end of a session is what the statements of
the repository are proved to give, and no more.

**`TenantAccess`.** `ResolveTenant` to `CommitResolution` are
`TenantAuthorityHttpBoundary.resolve`, `loadSnapshot` and
`persistAutoSelection`; `ScopeSession` to `CommitOperation` are the persistence
scope. `Mode` picks `run` or `runAuthorized`. A statement that locks several
membership rows locks them one by one, and reads the unlocked organization
status when it starts. `rows[o]` is a bit of tenant data that every operation
flips, so that a commit shows. `CallRepository` is a call of a repository the
callback holds, in the transaction or after it: `LeaseActive` is
`TenantRepositoryScopeLease`, given when the callback starts and revoked when its
answer arrives.

**`LoginRateLimit`.** `Begin` captures the clock, `StartUpsert` takes the
snapshot of the `prior_block` CTE, `Consume` waits for the row and updates it or
fails its lifecycle CHECK, `Commit` publishes the three rows. Logins and
renewals differ in the subject their keys are made from.

**`LocalRateLimit`.** `consume` is synchronous, hence one action. The `Map` is a
function, `entries`, and its insertion order, `newer`: for each address those
inserted after it. `NewestOf` is the eviction loop: what survives it are the
entries with fewer than `MaximumEntries - 1` newer ones, and the caller's own may
not be among them. `Last` is the delete and set that makes the caller's entry the
newest. `since` is history, the order of the calls, whatever the map makes of
them. `Restart` empties the map.

**`Login`.** A hash is a record of password, policy and salt. Argon2 is what it
computes, not how. Verification is a step of its own between the read and the
rehash. `genuine` is history: whether the password a login was given has been the
user's at some moment since it began; whoever writes a hash records it in the
logins in flight (`Vouched`). `FindExisting` to `CreateCredential` are
`provisionDevelopmentUser`: both INSERTs show with the second, which commits, and
`Creating` is the wait on the unique e-mail of an uncommitted one.

**`PrismaClientLifecycle`, `LoginProcesses`.** `Open`, `Verify` and `Release` are
the two awaits of `connect` and its catch; `pool` is what the client holds, apart
from the flag `connected` the code reads. `Start` to `Finally` are `main.ts` and
`create-development-user.ts`: bootstrap awaits `onModuleInit` and listens after
it, the tool connects and provisions in a try whose finally disconnects. `Lose`
ends a process at any step, with all it runs; `main.ts` enables no shutdown hooks,
so that is also how the API stops. `Alter` changes the role under a running
process, which the code cannot see and nothing is claimed against.

**`AuthHttp`.** A handler is a step up to its first await that matters and a
step after it; `ServerError` keeps the headers set so far, as Nest's response
does. Requests of one jar are in flight together and are answered in any order.
A session is live, lapsed (past a deadline), resumed (valid again, by a late
touch) or revoked. `Resume` stands for `touchLastSeenIfDue` of any validation in
flight; it does not tell the idle deadline from the absolute one, which no touch
moves, nor does it look for that validation, so sessions resume here that could not
in the code: the properties hold of more behaviours than the code has. `csrf` is
whether the CSRF token sent is that of the cookie sent, `passed` whether the
handler's checks found the session valid before it called its use case.

**`WebSession`.** Promises settle in microtasks, so a transition that awaits no
answer is one step, and a mutation's continuation (`Continue`) comes before
anything else of its tab. React and TanStack Query are libraries: `Mount`,
`DropFetch` and the observer's stale `view` are modelled from how the code uses
them and marked external. A tab has one mutation at a time, as its page has one
form or one button that is disabled while it is pending, and is not reloaded while
one is in flight: what a reload leaves behind is a request without a reader, which
`AuthHttp` has (its requests need none) and the tabs do not.

## 3. The runs

Every property of every passing run has a mutant in `PROJECT.json`: a plausible
bug put in place of a mapped definition, which TLC finds through that property.
The variants stand beside the definitions they replace, marked "Variant".

| Run | Question | Instance |
|---|---|---|
| `session_races` | Do competing renewals, logouts and bulk revocations keep one live session, replace only a live one, leave the dead dead, and keep `SessionContract`? Does `last_seen_at` move only as the policy allows? Does a bulk revocation that returns cover what its statement saw, while sessions are created after the instant it captured? | 2 workers, 3 tokens, clock 0-2 |
| `session_authority` | Is what a new session carries true when it commits; is nothing usable left of a user disabled and revoked? | 2 workers, 2 tokens, 2 roles; user, password, membership, organization change |
| `tenant_authority` | Does nothing commit without authority, is nothing written by a repository of a closed scope, and do tenant requests treat sessions as `SessionLifecycle` says? | 2 workers, 2 organizations, 2 roles, both modes, clock 0-2; user, memberships, organizations change |
| `tenant_requests` | Can any but two bulk revocations deadlock, and does every tenant request, every renewal and every bulk revocation end? | 2 workers, 2 sessions of one user, 3 tokens |
| `login_budget` | Are attempts counted exactly, admitted within budget across windows and blocks, and all decided? | 2 workers, 2 subjects, 3 attempts, clock 0-3 |
| `local_budget` | Does the bounded map keep its promises? | 4 addresses, 3 entries, clock 0-4 |
| `login_rehash` | Can a rehash undo a password change, a login or a provisioning get past what it must check, anything run under an unchecked role, or a pool be left open? | 3 logins or provisionings, 1 user that is there or not, 2 passwords, 3 hashings, an API and tools that start, fail and are lost |
| `http` | Is the jar usable or empty, and does it never go back to a session it replaced, whatever the order of the answers; what does a successful logout mean; do the handlers keep `SessionContract`? | 2 requests in flight, 3 sessions, errors, losses, deadlines and late touches |
| `web` | When has a tab's logout ended what the tab showed, does it never end anything else, and does every tab come to rest? | 2 tabs, 4 events, errors, losses, deadlines and late touches |

Three more runs, `session_never_revived`, `login_attempt_lost` and
`http_logout_error`, each show one statement of the documents or tests that the
code does not keep (section 6).

### Bounds, and why they are enough

- **Two workers.** Every race listed as a hazard is between two transactions,
  and operators act beside them as a third party. Liveness with two workers
  covers a circle of two; `NoOtherDeadlock` proves for any number that a longer
  one is of bulk revocations too.
- **Tokens.** Three let a session be renewed twice, or two renewals of one
  session both insert; two let a login collide with a token in use.
- **Clock.** With `IdleTimeout = 2`, `AbsoluteLifetime = 3` and
  `TouchInterval = 1`, a clock of 2 reaches the idle deadline with a touch
  before it, and one of 4 (`session_never_revived`) passes both deadlines; runs
  about locks and authority alone freeze the clock at 0.
- **Attempts.** Three are the least that fill a budget, exceed it, and come back
  in the next window under the block. The windows of 1 and 2 with blocks of 2
  under a clock of 3 put a boundary inside a block and a block's end on one.
- **Environment.** Operators are left out of `session_races` and
  `tenant_requests`, which ask about the requests among themselves; the
  authority runs have all the changes their questions depend on.
- **Logins and provisionings.** Three are two that race and one that meets what
  they left; three hashings are a rehash, a change of password and another rehash
  or a provisioning. All policies and a missing credential or user are among the
  initial states.
- **Entries.** Three entries for four addresses are the least with which the
  caller, another blocked address and one to evict are all in the map.
- **Retries** is 2 in `web/features/auth/auth-queries.ts` and 1 in the runs: the
  limit is reached either way.
- **`MaxEvents`** bounds clicks, reloads, refetches and faults. Four are a
  login, a logout, and two things that the other tab or the network does to them:
  the other tab logs in and out, or the session lapses and is resumed. Reloads and
  refetches count two, since each only asks again what the tab has asked.
  `TabsSettle` is claimed for this bound only: section 5 names a sequence beyond
  it. A run ends in `Rest`, not in a deadlock, when all are used up.
- Deadlock checking is on in every run.
- **Symmetry** is used only where a run's properties are safety properties, over
  workers, tokens, addresses or requests that no definition tells apart; `CHOOSE`
  is applied to the users of `AuthHttp`, so users are never permuted where
  there are two.

### Fairness

- **Requests to PostgreSQL**: `SF_vars(Step(p))`. A step that waits for a row is
  enabled whenever the row is free and disabled when another transaction takes
  it first. PostgreSQL queues lock requests in order, so a waiting request is
  served after those before it: strong fairness. Starting a request and
  `Rollback` are not fair.
- **Deadlock detection**: `WF_vars(\E p \in Worker : DeadlockVictim(p))`. Two bulk
  revocations of one user can lock its rows in opposite orders; PostgreSQL's
  detector then aborts one of them. It is enabled only in such a circle, so it
  ends no other wait.
- **Callbacks of the persistence scope** are fair with the rest, since Prisma's
  interactive transactions have a timeout.
- **Web**: the API answers or the request fails (weak fairness of `Api` and of
  the tab's `Step`, the browser's event loop). React runs the effects of what it
  mounts even when a redirect follows at once: strong fairness of `RunEffect`.
  The reader does nothing in particular.

## 4. What is proved

Every safety property of every passing run is a theorem, for any sets of
workers, users, tokens, organizations, addresses and tabs, any lifetimes and
rules and any bounds, from the named assumptions of the modules only. TLC checks
the same properties on the instances of section 3, where the assumptions are met
and where a mutant of the code breaks each of them.

What the assumptions say: NULL (`None`) is no row, hash, identifier or session
(`StoreAssumption`, `NoneAssumption`, `LifeAssumption`, `LoginAssumption`,
`HashAssumption`, `WebSession!ApiAssumption`); lifetimes and rules are the lawful
ones of `server-config.ts` (`PolicyAssumption`, `RuleAssumption`,
`LocalAssumption`); request kinds, modes, roles, operators' changes and faults are
among those the code has (`KindAssumption`, `TenantAssumption`, `HttpAssumption`);
the API is no tool (`LoginProcesses!ApiAssumption`); bounds are naturals
(`WebAssumption`).

Each module below proves an inductive invariant, action by action, and then the
properties that follow from it. The invariant stands at the end of the module
that it is about, part by part, with a comment on each.

### Sessions

| Module | Theorem | Says |
|---|---|---|
| `SessionLifecycleProofs` | `TypeCorrectness` | `Spec => []TypeOK` |
| | `RenewalLinearity` | `Spec => []RenewalIsLinear` |
| | `RevocationFinality` | `Spec => RevocationIsFinal` |
| | `BornUnderCurrentCredential` | `Spec => CreatedUnderCurrentCredential` |
| | `TouchesEarned` | `Spec => TouchIsEarned` |
| | `LocksOrdered` | `Spec => []LockOrder` |
| `SessionContractProofs` | `ContractKept` | `Spec => ContractSpec` |
| | `RenewedWhileLive` | `Spec => []ReplacedWhileLive` |
| | `RevocationCovered` | `Spec => []RevokeAllCovers` |
| | `LockedOut` | `Spec => []DisabledUserLockedOut` |
| | `SelectionsCurrent` | `Spec => SelectionIsCurrent` |

`RenewalIsLinear` is not inductive: a renewal about to commit must be known to
hold the old session exclusively, that session to be unrevoked, and its own new
token to be unused and nobody else's. `IInv` says so:

- `LockExclusion`: two transactions hold one lock only if both share it;
- `Captured`: what each step's context must hold already;
- `HoldsOld`, `HoldsUser`, `HoldsCredential`: from the statement that locks a
  row on, the row is locked and as it was found;
- `PendingApart`: tokens of uncommitted replacements are apart and unused.

The proof has one step per action. `RowFrame` and its companions show once that
a step of one worker leaves alone what the others rely on, since it would have
needed their locks; each action then shows its own part. `NoLocksOutside`, that a
worker outside a transaction holds nothing, is left out of `IInv` on purpose:
`TenantAccess` has requests of another kind that hold locks in the same table,
and a step of the lifecycle beside them must still preserve `IInv`.

`LockOrder` is inductive beside `IInv`, since a step leads to a label that waits
for a later table than the rows it leaves locked (`OrderClimbs`, `OrderKept`).
`NoOtherDeadlock`, below, draws the conclusion about circles of waiting requests.

The contract needs to know *whose* session a transaction writes: `Ownership` (a
renewal's old session is its own user's, and a bulk revocation has selected
sessions of its user only) is inductive given `IInv`, since no step changes the
user of a row. `OutcomeInv` is inductive given both. `WrittenLive`: the instant
written as the revocation lay before the deadline of the row that has been
locked since. `RevocationCovers`: once a user is disabled and the revocation has
taken its snapshot, no session of the user outside the snapshot appears, since
whoever inserts one holds the user's row and has read it Active. `SelectionHeld`:
what a renewal resolved for its replacement is locked until it commits.

### Tenants

| Module | Theorem | Says |
|---|---|---|
| `TenantProofs` | `TenantTypes` | `TenantSpec => []TenantTypeOK` |
| | `Authorizes` | `TenantSpec => OperationsAuthorized` |
| | `WritesChecked` | `TenantSpec => []WritesAreChecked` |
| | `ContextSelected` | `TenantSpec => []ContextIsSelection` |
| | `TenantLocksOrdered` | `TenantSpec => []TenantLockOrder` |
| | `NoOtherDeadlock` | `TenantSpec => []DeadlocksAreRevocations` |
| | `LivesBeside` | `TenantSpec => LifecycleSpec` |
| | `RenewalLinearBeside` | `TenantSpec => []RenewalIsLinear` |
| | `NoEscalation` | delegation never gives more than one has |

`TenantInv` contains `IInv` and `Ownership`: a step of a request beside is a step
of `SessionLifecycle` under the very same lock table, so its lemmas serve as they
are. What is new, `SeatInv`, says step by step what a tenant request still has
under its locks: the session and its user (`HoldsSession`, `HoldsActiveUser`), what
its resolution found and picked (`HoldsFound`, `HoldsPick`), the organization it
answers with (`Answered`), the authority of its operation (`HoldsAuthority`), the
lease (`Leased`), and no lock of a later table than its step (`HeldInOrder`).

`LivesBeside` is a step simulation. The abstract system must not see the locks of
tenant requests, so the refinement maps its lock table to one without them
(`Low`); a lock that is free in the real table is free in that one, and each
statement of the lifecycle, each operator's change and each committed selection is
then a step of `SessionLifecycle`, and every other tenant step a stutter.

`NoOtherDeadlock` is about requests of all kinds together and any number of them
(`WaitsFor` says who waits for whom, `Deadlocked` what a circle of any length comes
to: a set each of whose members waits for another). `WaitsHold` shows that
`LockOrder` and `WritersLock` hold beside tenant requests too. From them and
`TenantInv`, `Waiters` reads off what one who waits can hold: who waits for a session
holds nothing, unless it is a bulk revocation; who waits for a user holds sessions
only; and from there on all wait for rows that others lock only to read. So whoever
is in such a set is, or waits only for, a bulk revocation that waits for another.

`NoEscalation` ties two tables of the code, permissions and target roles, that
nothing in the code ties to each other.

### Logins and limiters

| Module | Theorem | Says |
|---|---|---|
| `LoginProofs` | `ProcessesRunLogins` | `ProcessSpec => Spec`: what is proved of `Login` holds of the processes |
| | `SessionsAuthenticated` | `ProcessSpec => SessionsAreAuthenticated` |
| | `RehashKeeps`, `LostSwapCloses` | `ProcessSpec => RehashKeepsPassword`, `LostSwapFailsClosed` |
| | `ProvisionsOnce` | `ProcessSpec => ProvisionedOnce` |
| | `VerifiedFirst`, `NothingStaysOpen` | `ProcessSpec => []VerifiedBeforeUse`, `[]NothingLeftOpen` |
| `LoginRateLimitProofs` | `WithinBudget` | `Spec => []AdmittedWithinBudget` |
| | `ExactCounts` | `Spec => []CountsAreExact` |
| | `BlocksHonoured` | `Spec => []BlockHonoured` |
| | `BlocksNotExtended` | `Spec => BlockNotExtended` |
| | `NoAttemptsDeadlock` | `Spec => []NoDeadlock` |
| `LocalRateLimitProofs` | `AllowedInBudget` | `Spec => []AllowedWithinBudget` |
| | `RecentAreRemembered` | `Spec => []RecentRemembered` |
| | `BlocksKept` | `Spec => BlockKept` |

`Login!IInv` says what a login has captured at each step (`CapturedAt`: the hash it
verified and the one it made are both of the password it was given), what it has
recorded (`RecordedAt`: if its password is the user's now, `genuine` is set, and
none goes past the verification without it), and that an uncommitted
provisioning is alone with its e-mail (`CreatingApart`). A swap keeps every stored
password, so nobody else's record is disturbed by it (`SwapStep`); a change of
password or a provisioning records itself in the others (`VouchedWrite`).
`LoginProcesses!ProcessIInv` says what a process holds in each phase, and that a
login runs inside a running process only.

`LoginRateLimit!IInv` rests on `Written` and `OneWriter`: the row an attempt is
about to commit is the upsert of the row that is *still* committed, because
nobody else has an uncommitted write to it. Counting and admission follow at the
commit. For blocks, `DueSeen` says that a block that was active when the attempt
began has been seen by an upsert or is still ahead of it; the greatest of the
earlier blocks, the CTE's `max`, exists because blocks are bounded
(`LargestExists`, by well-founded descent, and `BlocksEnd`).

`NoAttemptsDeadlock` rests on `InTurn`, the order of the three upserts: an attempt
waits for the writer of its row of one dimension, which has that dimension behind
it, so whoever it waits for is at a later one (`WaitsAhead`), and the last waits for
nobody who waits.

`LocalRateLimit!LocalInv`: the map has one total order (`Ordered`), of which the
eviction loop keeps an end, so that at most `MaximumEntries - 1` entries are left
before the caller's is added, and an entry with fewer newer ones stays; `Counts`
ties an entry to what was admitted in its window and later ones. That the order
bounds the number of entries is a pigeonhole argument over finite sets.

### Browser and tabs

| Module | Theorem | Says |
|---|---|---|
| `AuthHttpProofs` | `CookiesUsable` | `Spec => []CookieIsUsable` |
| | `LogoutsDone` | `Spec => []LogoutIsDone` |
| | `JarAdvances` | `Spec => JarMovesOn` |
| | `HttpKeepsContract` | `Spec => ContractSpec` |
| `WebProofs` | `LogoutsEndShown` | `Spec => []LogoutEndsShown` |
| | `LogoutsSpareOthers` | `Spec => LogoutSparesOthers` |
| | `TabsShareAUsableCookie` | `Spec => []Http!CookieIsUsable` |
| | `TabsKeepContract` | `Spec => Http!ContractSpec` |

`HttpInv`: the session of an answer under way is nobody's yet, neither the jar's nor
another request's, so nothing can have revoked it (`Undelivered`); a session that is
not valid is in the jar only while an answer that moves the jar on is under way
(`JarWillMove`); a session replaces an older one (`ParentsOlder`); a logout that
reports success has revoked what its checks found valid, and else met a session that
is no longer as it was created (`LogoutRevokes`). `DeadlinesEndNone` shows that a
deadline and a late touch are stutters of the contract, and `OverStays` that neither
takes back a revocation; so `LogoutsDone` names what is left, a session that was
lapsed when the logout met it and that a touch resumed.

`WebInv` adds to it, for each tab, that a page shows and a mutation posts only what
exists, and that a logout under way carries the CSRF token of the session that was
shown (`Shows`, `Posts`). Every step of a tab is built from the actions of `AuthHttp`,
with the pairs of tab and slot as its requests, so the lemmas of `AuthHttpProofs` are
used through an instance and its promises hold for the tabs: `TabsKeepContract` says
of the clicks of several tabs what `ContractKept` says of SQL statements.
`LogoutsSpareOthers` is the CSRF token at work: a logout sent with the cookie of
another tab's login passes no check. `LogoutsEndShown` is as much of the converse as
is true: the session a tab showed is not valid after its successful logout unless
the logout never met it valid (section 6 names both ways).

### Only model-checked

- **Liveness**: `EveryRequestEnds`, `EveryTenantRequestEnds`, `EveryAttemptEnds` and
  `TabsSettle`. Liveness under fairness is out of the prover's reach.
- **The three violations** of section 6, which are counterexamples.

Type invariants of `SessionLifecycle` and `TenantAccess` are checked by a run; every
other module's is a part of its inductive invariant and proved with it.

## 5. What is not modelled, and why

- **Cryptography**: tokens, digests, CSRF tokens, fingerprints and Argon2 are
  identities or injective records; collisions appear only where the code
  handles them (`Retry`).
- **Formats**: e-mail normalisation, address parsing, header parsing and the
  password's length decide which requests are refused, a choice in the models.
- **Retry-After** values and log records, on which nothing else depends.
- **Logging, wiring, health, styles**: no state that another component reads while
  the program runs.
- **Configuration** is read once, before anything listens; its bounds are the
  assumptions on the modules' constants. A model of its parsing would restate one
  guard per variable.
- **Scripts and the test harness** (`apps/api/scripts`) run external commands one
  after the other and keep nothing between them; what the launcher starts is
  modelled from its entry point on.
- **Rotation of database connections** inside a pool: the identity check looks at
  one connection, once; `VerifiedBeforeUse` is about the pool it belongs to.
- **Grants and row-level security**: static. One consequence is modelled: the
  runtime role may only SELECT organizations, hence the advisory lock, and the
  constant `Compliant` for changes that ignore it.
- **Business domain** of `docs/DOMAIN.md`: there is no code yet.
- **Time**: one clock for all processes. Skew would make more statements of
  section 6 fail, and none of them needs it.
- **Cookies**: one jar, one cookie; its `Expires` is the session's absolute
  deadline (`ExpireCookie`).
- **Failures of `$disconnect`**: `Release` and `Close` always close the pool.
  Were the call to fail, in `connect`'s catch or in `disconnect`, nothing tries it
  again before the process ends, and `NothingLeftOpen` says nothing of that.
- **Web**: reloads while a mutation is in flight (section 2); and a page that mounts while a login's `removeQueries` detaches its query
  and the login's own fetch then fails would keep showing "Comprobando tu
  sesión" until a reload; it takes more events than `web` has and
  depends on details of the query library, so nothing is claimed about it, and
  `TabsSettle` is claimed for the events of `web` only.

## 6. Where code and documents disagree

Three have a run; quotes are under "findings" in `PROJECT.json`.

1. `session_never_revived`: a touch that waited past the idle deadline makes an
   expired session valid again; the title of the test at
   `apps/api/test/integration/database/session-repository.spec.ts:366` says it
   never does.
2. `login_attempt_lost`: of two concurrent attempts, the one with the earlier
   clock can fail `ck_identity_rate_limit_windows__lifecycle` and go uncounted.
3. `http_logout_error`: the clearing cookie is sent even when the revocation
   fails, and a retry then has nothing to revoke.

Eight were met while modelling. The models behave as described, and the properties
allow for them:

- `runAuthorized` does not look at the deadlines again after its callback; the
  comment at `prisma-tenant-persistence-scope.ts:223` says the validated
  authority cannot change. `TenantAccess!Recheck` has the difference.
- No success clears a counter; `docs/SECURITY.md:144` says one does.
- A login in flight while the password is changed gets a session after all
  sessions were revoked (`docs/SECURITY.md:181`). A renewal does not.
- A logout that meets a concurrent renewal succeeds and leaves the replacement
  alive (`docs/SECURITY.md:179`, "logout revoca la sesión actual y borra cookie").
- A logout that meets its session past the idle deadline answers 204 and revokes
  nothing (`api/identity/presentation/auth.controller.ts:258-261`); a touch whose
  instant was read before the deadline (`session-service.ts:105`) then makes the
  session valid again, against the same line of the document. `LogoutIsDone` and
  `LogoutEndsShown` have it as their exception.
- A tab's logout goes with the cookie of that moment. If another tab has logged in
  and out since, it goes with none, is answered 204, and the session the tab showed
  lives on, with no cookie, until its deadline (`docs/SECURITY.md:179` and `:186`,
  "borrar solo la cookie no es suficiente"). If the other tab is still logged in,
  the CSRF token does not fit and the logout is refused with 403; if the cookie is
  of a session that is no longer valid, it is answered 204 too. `LogoutEndsShown`
  has these as exceptions, `LogoutSparesOthers` is what remains for every case.
- `GET /health/ready` answers a constant; `docs/BACKEND_STANDARDS.md:512` wants it
  to look at the database and at shutdown, and the shutdown itself (line 516) is
  not wired: `main.ts` enables no shutdown hooks, so `onModuleDestroy` runs in the
  tests only.
- A refetch can put another user's session in the page without
  `queryClient.clear()` (`docs/FRONTEND_STANDARDS.md:382`).

## 7. Plan

Done, the model: (1) `AuthorityStore` and `SessionLifecycle`,
(2) `AuthorizationPolicy`, (3) `TenantAccess` and its refinement of the lifecycle,
with the lease, (4) `LoginRateLimit`, (5) `LocalRateLimit`, (6) `Login` with the
provisioner, (7) `AuthHttp`, (8) `WebSession` on it, (9) `PrismaClientLifecycle` and
`LoginProcesses`, (10) `SessionContract`, which the lifecycle and the HTTP model
are both proved to implement.

Done, the proofs: every safety property of every passing run, and the
refinements (`ContractSpec` of the lifecycle, of the handlers and, through them, of
the tabs; `LifecycleSpec` of the tenant requests; `Login!Spec` of the processes).

Next, the model: `Login` composed with `LoginRateLimit` in the order of the
controller, for what the two limits promise together about the number of
verifications.

Next, the proofs: the other theorems of the lifecycle carried over to
`TenantSpec`, as `RenewalLinearBeside` is: through `LivesBeside` and an instance of
`SessionLifecycleProofs`, as `WebProofs` does with `AuthHttpProofs`.

## 8. Running it

```
tlc -workers 2 -config session_races.cfg MCSessionLifecycle.tla
tlapm SessionLifecycleProofs.tla
```

`PROJECT.json` lists each run's module and configuration.
