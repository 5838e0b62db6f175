# hybrid-auth-spring: a verification project

TLA+ models of the two services in this repository, model-checked with TLC on
small instances and proved with TLAPS for every instance. Paths below are
relative to `src/`; `AUTH` is
`auth-service/src/main/java/com/johnnycarreiro/hybridauth/auth`, `RES` is
`resource-service/src/main/java/com/johnnycarreiro/hybridauth/resource`.

## The system

`auth-service` signs users up and in, issues an RS256 access token and an opaque
refresh token, rotates refresh tokens, and publishes its public keys at
`/.well-known/jwks.json`. `resource-service` verifies access tokens offline
against a cached copy of that key set, mirrors the caller into its own `users`
table, and serves owner-scoped projects and tasks. Each service has its own
PostgreSQL database; there may be several instances of each, and every request
runs on a thread of its own in one database transaction (READ COMMITTED).

| component | state | operations | correct when |
|---|---|---|---|
| Refresh sessions (`AUTH/domain/session/Session.java`, `AUTH/services/{SignIn,RotateToken,SignOut}Service.java`, `AUTH/infra/database/SessionRepository.java`) | table `sessions`, row locks | sign-in opens a root; rotation chains a child; replay revokes the family; sign-out revokes one session | one live token per family; no fork; revocations are final and committed; every request ends |
| Session endpoints and their callers (`AUTH/web/session/*`, `AUTH/web/AuthExceptionHandler.java`) | the token each caller keeps | sign in, refresh, sign out, give up, retry | a caller that hears its answers stays signed in; a 401 or a 204 leaves nothing usable |
| Signing keys (`AUTH/domain/signing/*`, `AUTH/infra/config/JwksConfig.java`) | table `jwks`, the secret of the process | bootstrap, lazy rotation after 90 days, `rotate`, the encoder's key selection, `publicJwkSet`, sealing and opening of private keys, restart | a valid token's key is published; there is always a signer, and one the process can open; no token is signed with an overdue key |
| Access-token mint (`AUTH/domain/token/AccessTokens.java`) | none | reads the active key for the header; the encoder reads it again to sign | a token is signed by the key its header names |
| Verifier (`RES/infra/security/JwksTokenVerifier.java`) | a decoder over a cached key set, in an `AtomicReference` | decode; on a miss refetch once and retry | no valid token is refused while the issuer answers; every decode ends |
| Sign-up (`AUTH/services/SignUpService.java`) | table `users` (auth) | pre-check, hash, insert | one account per normalized address; an answer stays true |
| User mirror (`RES/services/UserMirror.java`, `RES/infra/mvc/MirrorSyncInterceptor.java`) | table `users` (app) | create-only insert before every request | the row exists before a project needs it; never overwritten |
| Projects and tasks (`RES/services/{Project,Task}Service.java`) | tables `projects`, `tasks` | owner-scoped CRUD; tasks through their project | nothing of another owner is seen or changed; no orphan tasks |
| Auth-service's own bearer check (`AUTH/infra/security/SecurityConfig.java`) | none | resolves `publicJwkSet` on every request | as the published set: `TokensVerify` |
| Token hashing, password policy, claims | none | pure functions | left out, see below |
| Other controllers, DTOs, exception handlers, wiring | none | mapping | left out |

Interactions: sign-in and rotation mint an access token inside their own
transaction, so a rotation of the signing keys can run in the middle of one; the
verifier fetches the published set over HTTP while keys rotate; the mirror insert
commits in a transaction of its own before the controller's.

What makes it hard: several transactions over the same rows with one
`SELECT ... FOR UPDATE` and one bulk `UPDATE` (snapshots, lock waits, deadlocks);
an exception that must commit (`noRollbackFor`); signing keys that are read
without any lock; a clock read at several places of one operation; a cache that
overlapping refetches may put back; answers that nobody hears and retries that meet
the request they repeat; a restart with another secret; failures between any two of
these steps.

## Modules

| module | models | form |
|---|---|---|
| `TokenChain` | what the holder of a refresh token may rely on | abstract specification |
| `Sessions` | refresh sessions as database transactions; implements `TokenChain` | detailed specification |
| `MCSessions` | three configurations of `Sessions` | TLC |
| `SessionsProofs`, `SessionsRefines` | inductive invariant, safety; refinement | TLAPS |
| `RefreshClients`, `MCRefreshClients` | `Sessions` composed with the callers that hold the tokens, give up and retry; fairness | specification, TLC |
| `RefreshClientsProofs` | inductive invariant of the composition, safety | TLAPS |
| `KeyRing` | what those who verify access tokens may rely on | abstract specification |
| `SigningKeys` | key table, mints and rotations as transactions, restarts; implements `KeyRing` | detailed specification |
| `MCSigningKeys` | three configurations | TLC |
| `SigningKeysProofs` | inductive invariant, safety; refinement | TLAPS |
| `JwksVerifier` | verifier threads, cache, HTTP exchange | specification, instanced |
| `HybridAuth`, `MCHybridAuth` | issuer (`SigningKeys`) and verifier (`JwksVerifier`) composed | specification, TLC |
| `HybridAuthProofs` | inductive invariant of the composition | TLAPS |
| `Registry` | what those who sign up may rely on | abstract specification |
| `SignUp`, `MCSignUp` | sign-up transactions over the accounts, two configurations; implements `Registry` | specification, TLC |
| `SignUpProofs` | inductive invariant, safety; refinement | TLAPS |
| `OwnedStore` | what the owner of projects and tasks may rely on | abstract specification |
| `Workspace`, `MCWorkspace` | user mirror, projects and tasks as transactions, two configurations; implements `OwnedStore` | specification, TLC |
| `WorkspaceProofs`, `WorkspaceRefines` | inductive invariant, safety; refinement | TLAPS |

### Sessions

`clock` is `Instant.now()`; `sessions` the committed rows; `lock` the row locks;
`tx[p]` the request on thread `p`: the managed entity it loaded (`copy`), the
instant it read (`now`), and the progress of its bulk update (`snap`, `todo`,
`hits`). A token and its session share a name: the store finds a session by the
unique hash of its token. A family is named by its root.

| action | code |
|---|---|
| `SignIn`, `OpenRoot` | `SignInService.signIn`: the deadline from one clock reading, `createdAt` from another, stored at the commit |
| `Present`, `Acquire` | `findByTokenHashForUpdate`: wait for the row lock, read the row, read the clock |
| `Rotate` | the happy path of `RotateTokenService.rotate` up to its commit: child inserted, parent written back whole |
| `RejectRevoked`, `RejectExpired` | the 401 answers that roll back |
| `ReuseDetected`, `RevokeRow`, `AwaitRow`, `CommitRevoke` | `revokeFamily` row by row: snapshot, lock, re-test of `revoked_at` on the newest version, commit despite the exception |
| `SignOut` | `Session.revoke`, written back only when it changed something |
| `Fail`, `DeadlockVictim` | rollback, crash, PostgreSQL's deadlock detector |

An insert or update is invisible until its commit, so a transaction that only
writes rows it has locked or created commits in the action that ends it; the bulk
update is the one statement whose steps others can interleave with, and it has an
action per row. A presented token with no row answers `INVALID_REFRESH` and
changes nothing: it has no action. `OutOfIds` ends a request when the bounded set
of ids is used up.

`tx[p].waits` is about rows of `sessions`. Sign-in and rotation also mint inside their
transaction, and a mint that rotates the signing key lazily flushes an UPDATE of a
`jwks` row, for which it may wait for a request of any other family. That wait is
`SigningKeys!CanFlush`; here it is part of the time between `SignIn` and `OpenRoot`, or
`Acquire` and `Rotate`. It closes no cycle: the one who holds the `jwks` row has its
session rows locked or inserted already and waits for nothing more before its commit.
So `RowWaitsStayInFamily` and `DeadlocksAreAmongKills` speak of session rows, and
`EveryRequestAnswered` counts a mint among the work that a running transaction ends.

### RefreshClients

`client[c]` is what a caller of the session endpoints holds: the refresh token of its
last answer (`tok`), the request it waits for (`on`), and whether it missed an answer
since it signed in (`gaveUp`). Its requests are those of `Sessions`, and each step of
the service is taken as it stands there (`ServiceKept`); what is added is who hears the
answer. No token is held by two clients: `Sessions` lets any stored token be presented
at any time, so what a shared token leads to is shown there, and here the question is
what happens to callers that are only unlucky.

| action | code |
|---|---|
| `Ask` | the request of `SignInController`, `TokenController`, `SignOutController` |
| `Issue`, `Release` | their 200 with a new token, their 204 |
| `Refuse` | `AuthExceptionHandler`: 401 for `SESSION_REVOKED`, `SESSION_EXPIRED`, `REFRESH_REUSE_DETECTED` |
| `Error` | the 500 of a rolled-back transaction; the client keeps its token |
| `GiveUp` | a timeout or a broken connection; the request runs on |
| `Proceed`, `TakeLock`, `RevokeNext` | the steps of `Sessions` that answer nobody |

What the model shows of the code: a client that misses no answer always holds the live
head of its family, so reuse detection never strikes it, whatever failed and was tried
again (`PatientClientStaysSignedIn`). A client that gave up may be signed out by its own
abandoned request: it retries with success, the older request then reads a spent token,
and the family is killed with the token the retry was given. It may also sign out with
a token whose rotation was answered into the void; that revokes the spent session only
and leaves a successor until it expires. `ReleaseIsFinal` is about this case too: a 204
for a token that was not spent ends the family, and after any 204 the sessions that can
still be rotated are ones that no client holds and no running request presents, the
abandoned calls of the client included. `RefusalIsFinal` says more, that nothing is left
at all: the phantom child of finding 1 takes a second holder of the family's tokens.

### SigningKeys

`keys` is the table `jwks`; `signed` the latest expiry of a token signed by each
key; `tx[p]` a mint or a rotation. `ReadActive` and `SelectKey` are the two
lookups of one mint, `FindOverdue` the lazy rotation, `KeyMismatch` the encoder
that finds no key for the header (the request fails and rolls back), `CommitMint`
and `CommitRotate` the commits. Hibernate flushes the pending retirement before
the next query, which takes the row lock of the retired key: `CanFlush`. A call reads
the clock before it queries, so what it decides by may be an earlier instant than that
of the query: `Readings`. `kid` is the key in the token's header and `signer` the one
`SelectKey` signs with; that they are one is the first half of `FreshSigner`, and holds
because the encoder's selector takes only a key with the header's kid.

`secret` is the `AUTH_JWKS_ENC_KEY` the process was started with and `seal` the one a
row was sealed under. A mint opens the active key (`ReadActive`); one sealed under
another secret makes `decrypt` throw and the request roll back (`CannotOpen`; in the
encoder's lookup, `KeyMismatch`), until the key's active period is over and
`FindOverdue` rotates without opening anything. `Restart` ends the transactions and may
change the secret. The public halves are not sealed, so `Servable` does not look at it.

Periods are constants. `GraceAssumption`, `AccessTTL + MaxTxTime <= Grace`, is what
the configuration gives: 15 minutes and 30 days. `MaxTxTime` bounds how long a
transaction that retires a key may take from its clock reading to its commit; it
is an assumption about the environment (nothing in the code bounds it), generous
at almost 30 days, and `Tick` enforces it.

### JwksVerifier and HybridAuth

`cache` is the key set behind the current decoder, `published` the set the issuer
would serve now (a parameter, given by `SigningKeys!Servable` in `HybridAuth`),
`req[r]` one decode in flight. `Accept`, `Miss`, `Reject` are the two attempts of
`decode`; `Serve`, `Load` and `Unreachable` the refetch, with the answer under way
between them (no HTTP cache in between, see the assumptions); `Restart` empties the cache. `Skew` is the decoder's clock-skew
allowance. `HybridAuth` runs both over one clock: a token that `CommitMint` issued
may be presented at any later time.

### SignUp

`users` maps an account id to the address stored for it; an address is the normal
form (`Email.of`: trimmed, lower case) of a spelling. `tx[p]` is one request; when it
ends, its data stay beside its answer so that the answer can be compared with the
table later.

| action | code |
|---|---|
| `BeginSignUp`, `AlreadyTaken` | `SignUpService.signUp` up to the pre-check, which answers 409 |
| `Register` | the entity gets its id and `users.save` queues it |
| `Insert`, `Commit` | the flush at the commit enters the unique index, the commit publishes the row |
| `UniqueViolation` | the flush meets a committed account: the exception leaves the commit, after `signUp`'s `catch`, and becomes a 500 |
| `Fail`, `OutOfIds` | rollback or crash; the bounded ids are used up |

The entity brings its own id and has no version, so `save` does not insert at once:
the INSERT runs at the flush before the commit. PostgreSQL makes an INSERT wait for
another open transaction that entered the same value; `Insert` has that guard.

`Registry` knows no pre-check, queue or index: an address has at most one holder, for
good, and a request is granted, refused or dropped in one step, by whether its address
is free at that step. The mapping reads the holder of an address off the committed
rows, and takes the 409 of the pre-check and the 500 of the lost race for the one
refusal they both are.

### Workspace

`mirror`, `projects` and `tasks` are the committed tables; `deleted` is a history
variable. A row carries one text for its mutable columns, because every PUT replaces
all of them.

| action | code |
|---|---|
| `Arrive` | a request with a verified token reaches `MirrorSyncInterceptor.preHandle` |
| `SkipMirror`, `InsertMirror` | `provisionIfAbsent`: `ON CONFLICT (id) DO NOTHING` when the row is committed, the INSERT when it is not |
| `CommitMirror` | the commit of `UserMirror.ensureProvisioned`, a transaction of its own |
| `Dispatch` | `preHandle` returns; the use case of the route and its transaction begin |
| `FindProject`, `ProjectNotFound` | `findByIdAndOwnerId`, `requireOwnedProject` |
| `FindTask`, `CheckTask`, `TaskNotFound` | `TaskService.get`: the task, then whether its project is the caller's, in two queries |
| `CreateProject`, `UpdateProject`, `DeleteProject` | `ProjectService`, with the foreign key to the mirror and the cascade to the tasks |
| `CreateTask`, `UpdateTask`, `DeleteTask`, `Read` | `TaskService` and the answers that only read |
| `RowGone` | a flush that matches no row or a foreign key that refuses: 500, rolled back |
| `Fail` | rollback or crash |

READ COMMITTED lets every query see what is committed when it runs, so each ownership
query is an action and others may commit between it and the write. Each write is one
statement (with its cascade) flushed at the commit: the row lock of the write, and the
key lock a foreign-key check takes on the parent, order two writes that meet, so a
write and its commit are one action. Timestamps are left out. The mirror's INSERT and
its commit are two: an entry that another transaction has not committed yet makes the
statement wait (`Pending`), and its outcome decides between `SkipMirror` and
`InsertMirror`. `FirstSightStays` is about several first requests of one subject with
different claims, all of which found no row.

`OwnedStore` is the same data without requests or foreign keys: a project holds its
tasks, an id is spent once, and every operation belongs to whoever owns the project at
that step. The mapping nests the committed tasks in their projects (`Shelf`); spent are
the ids of the rows and of `deleted`. What it adds to the single properties is that
nothing else happens: a delete takes its tasks with it and no others, and a write
decided on rows read in earlier queries is still an operation its author may do.

## What the runs show

| run | instance | shows |
|---|---|---|
| `sessions` | 2 requests, 3 sessions, TTL 2, clock 0..2 | type, `LockedCopyIsCurrent`, `OneLeaf`, `ChainLinks`, `StampsStick`, `DeadStaysDead`, `SnapshotRevoked`, `RevokedAnswerMeansDeadFamily`, `RowWaitsStayInFamily`, `DeadlocksAreAmongKills` |
| `sessions_client` | 1 client, 2 requests, 3 sessions, TTL 1, clock 0..1, fair | client type, `PatientClientStaysSignedIn`, `RefusalIsFinal`, `ReleaseIsFinal`, `EveryRequestAnswered`, `ImplementsTokenChain` |
| `phantom` (violated) | as `sessions` | `ReuseKillsFamily`: a family kill that overlaps a rotation misses its child |
| `wait_cycle` (violated) | as `sessions` | `NoWaitCycle`: two replays of one family deadlock |
| `signing_keys` | 2 transactions, 3 keys, 2 secrets, period 1, grace 2, TTL 1, clock 0..3 | type, `TokensVerify`, `AlwaysASigner`, `FreshSigner`, `SignerStaysOpenable`, `DeadlineDriftIsBounded`, `ImplementsKeyRing` |
| `two_active_keys` (violated) | as above, period 2 | `SingleActiveKey` |
| `grace_moved` (violated) | as above, period 2 | `GraceDeadlineStays` |
| `hybrid_auth` | 1 transaction, 2 keys, 1 secret, 2 decodes, clock 0..2 | type, `NoFalseReject`, `EveryDecodeAnswered` |
| `sign_up` | 3 requests, 3 ids, two addresses in three spellings, fair | type, `OneAccountPerAddress`, `AnswersAreTrue`, `EverySignUpAnswered`, `ImplementsRegistry` |
| `lost_race` (violated) | as above | `LostRaceIsTaken`: the loser of a race hears a 500 |
| `workspace` | 2 requests, 2 users, 2 claims, 2 projects, 2 tasks, 2 texts | type, `NoOrphans`, `CallerIsMirrored`, `DeletedIsFinal`, `OnlyOwnersWrite`, `FirstSightStays`, `NotFoundIsTrue`, `ImplementsOwnedStore` |
| `gone_row` (violated) | as above | `GoneIsNotFound`: a write to a row deleted since its check hears a 500 |

Why the bounds are enough to be interesting: three sessions are a root, its child
and either a grandchild or a second family, so a replay can meet a live leaf two
links away; two requests make every race of two operations on one family. A TTL of 2 within a clock of
0..2 lets a session expire, be rotated at its last instant, and a root be created
later than its deadline was computed. In `sessions_client`
one client with two requests is a call that was given up and its retry; clients share no
family, so a second one adds interleavings and no new meeting (the safety properties
were also run with two). A session's id is random and only compared, so the run numbers
sessions in the order they are stored (`NumberedInOrder`): a renaming, and sound for
liveness where a symmetry set is not. Three keys allow two successive rotations or
two simultaneous ones; two secrets are one to seal under and one that cannot open it; a clock of 0..3 with a period of one tick and a grace of two
covers a lazy rotation, the whole grace window and the expiry of the last token of the
retired key within it. Two decodes are enough for overlapping refetches that put the
cache back. Three sign-ups are a winner, a loser that waits for it and a third that
reads the table in between. Two requests of two users over two projects and two tasks
contain every pair of operations on one row or on a row and its parent, the owner and
a stranger included; with two claims they are also two first requests of one subject that
disagree. The proofs below remove the bounds for everything but liveness.
Where a clock or an id set ends, requests fail instead of blocking, so deadlock
checking stays on in every run; in `Workspace` a creation without an id left can
still `Fail`.

### Fairness

`RefreshClients`, for the requests of `Sessions`: a transaction that can go on does
(weak fairness of `Serve`); row locks are granted from a queue, so a waiting
transaction is not overtaken for ever (strong fairness of `TakeLock` and `RevokeNext`);
the deadlock detector runs (weak fairness of `DeadlockVictim`; without it two requests
can wait for each other for ever). No fairness on `Tick`, on the arrival of requests, on
`GiveUp` or on `Fail`. `HybridAuth`: the steps of a decode are those of a running thread, and
an HTTP exchange ends with an answer or an exception; nothing is assumed of the
issuer's transactions or of the clock. `SignUp`: a running thread goes on (weak
fairness of `Step`), and the index wakes its waiters in turn (strong fairness of
`Insert`). `Workspace` states no liveness: the one wait in it is that of `InsertMirror`,
for a transaction of a single statement that waits for nobody.

## What is proved

All with the constants arbitrary, under the named `ASSUME`s of the modules (NULL
markers differ from values; the periods are natural numbers, `AccessTTL` not zero;
`GraceAssumption`; `SkewAssumption`).

* `SessionsProofs`: `Invariant` (the inductive invariant), from it
  `TypeCorrect`, `LockedCopy`, `NoFork`, `Chains`, and the action properties
  `StampsAreFinal`, `DeathIsFinal`, `ReuseRevokes`, `RevokedAnswerIsSafe`.
  `LockedCopyIsCurrent`, `OneLeaf` and `ChainLinks` are not inductive as they
  stand. The strengthening says what a row is (a root names itself, a child names a
  stored parent of the same family created before it expired) and what each
  transaction's place in its operation says of the table: it holds the lock of the
  row it read, the row equals its copy, the rows it has revoked so far are locked by
  it and were in its snapshot, and what is left to reach was too.
  A second inductive invariant, `LockDiscipline` (which rows a transaction in each phase
  may hold and wait for), gives `RowWaitsWithinFamily`: a request that waits for a session
  row waits for a request of its own family; and `OnlyKillsDeadlock`: whoever is on a cycle
  of such waits is a family kill, and
  another kill of the same family is under way, so the one the store aborts leaves one
  that goes on.
* `SessionsRefines`: `Refinement`, the table implements `TokenChain`. `OneLeaf`
  makes `LiveHead` well defined; each commit is an `Open`, an `Exchange`, a `Void`
  or a stutter. A family kill that misses the child of a concurrent rotation is the
  stutter: `TokenChain` permits it, since the chain keeps its one head. Clients keep it:
  `RefreshClientsProofs!ChainsKept`.
* `RefreshClientsProofs`: `ServiceKept` (the clients drive the service only through its
  own steps), `ClientInvariant`, then `ClientsTyped`, `PatienceIsSafe`,
  `RefusalsAreFinal` and `ReleasesAreFinal`, for any number of clients. The
  strengthening: clients share no family and no request; while a client missed nothing,
  the only request about its family is its own call; at all times a request of the
  family presents either the client's token or a spent one; and the family kill a client
  waits for has every unrevoked session of the family in its snapshot, since no
  rotation of the family can be under way beside it. `ReleasesAreFinal` follows by cases:
  the leaf took the family with it (`OneLeaf`), or the token was spent, and then so is
  whatever a request of the family presents, while no other client holds any of it.
* `SigningKeysProofs`: `KeyInvariant`, then `KeysTyped`, `NoTokenCutOff`,
  `SignerExists`, `SignersAreFresh` and the action property `SignerCanBeOpened`,
  and `RingRefinement`, the table implements `KeyRing`: a commit is a `Mint`, a `Grow` or
  a stutter, and the deadline it writes, for the first time or again, lies ahead. The
  invariant bounds each key's signed expiry by the key's retirement and ties the key a
  transaction chose, generated or retired to what the table can still become before it
  commits. `StaleRetirements` adds what a
  stale entity can do: a pending retirement of a key that was retired meanwhile was
  computed within `MaxTxTime` of the deadline it overwrites. From it `DeadlineDrift`: a
  step moves a grace deadline by at most `MaxTxTime`, in either direction.
* `HybridAuthProofs`: `HybridInvariant`, then `VerifierTyped` and
  `ValidTokensPass`, using `KeyInvariant` for the issuer's half. The
  strengthening: on the retry, a key set without the token's key means the token
  has expired, because it was served after the token was presented.
* `SignUpProofs`: `SignUpInvariant`, then `AccountsTyped`, `AddressesUnique` and
  `AnswersTrue`. Uniqueness alone is not inductive: the commit adds a row. The
  strengthening: an id in flight is stored nowhere and registered by one request
  only, and an address entered in the index has no account and no second entry.
  `RegistryRefinement`: sign-up implements `Registry`. A commit is a `Grant`, the two
  ways of losing an address are `Refuse`, every other end of a request is a `Drop`.
* `WorkspaceProofs`: `WorkspaceInvariant`, then `WorkspaceTyped`, `Integrity`,
  `CallersMirrored`, `DeletionFinal`, `OwnersWrite`, `MirrorIsCreateOnly` and
  `NotFoundHonest`. The strengthening says what outlives a check: a row that was
  found is still there and still belongs to the same owner or project, or its id is
  in `deleted`, and such an id is never minted again; and `OnePending`: an entry in the
  mirror's key is the only one of its id and its row is not there yet, without which a
  commit could overwrite a row (`FirstSightStays`). From it also `ErrorsAreDeletions`:
  a 500 is answered only for a row the request had found and another one deleted, never
  for an id that names nothing or belongs to somebody else.
* `WorkspaceRefines`: `StoreRefinement`, the tables implement `OwnedStore`. The write at
  the end of a request is one operation of the store, by its caller, who owns the
  project at that step because ownership never changes; every other step stutters.

**One at a time.** Five of the six disagreements below are promises that the code
keeps as long as nothing overlaps. That is proved, under the hypothesis
`\A p, q \in Proc : p = q`: one request in flight (one transaction on the key table),
any number of them one after the other, any failures between their steps.

| theorem | promise | what it needs to be inductive |
|---|---|---|
| `SessionsProofs!OnlyOverlapsSurvive` | `ReuseKillsFamily` | `KillsAreComplete`: every unrevoked session of the family is in the snapshot or revoked |
| `SigningKeysProofs!OneAtATimeIsSound` | `SingleActiveKey`, `GraceDeadlineStays` | `AloneInv`: what a rotation read of the active keys is still so at its commit |
| `SignUpProofs!OnlyRacesFail` | `LostRaceIsTaken` | `Undisputed`: an address that passed the pre-check is still free |
| `WorkspaceProofs!OnlyOverlapsFail` | `GoneIsNotFound` | `StillThere`: the rows a request found are still there |

Together with the violated runs these locate the defects: the overlap is needed (the
theorem) and a small one suffices (the run). The hypothesis is an instance like any
other, `Proc` with one member; no theorem above has it. The wait cycle of finding 2
needs two requests by definition, and `OnlyKillsDeadlock` says which.

Only model-checked: liveness under fairness (`EveryRequestAnswered`,
`EveryDecodeAnswered`, `EverySignUpAnswered`), which is out of the prover's reach. The
abstract specifications state no fairness, so their refinements are safety properties
and proved whole. The violated properties are counterexamples and need no proof.

## Where code and documents disagree

1. **Phantom child.** `AUTH/infra/database/SessionRepository.java:26-27` and
   `docs/.../sdd-auth.md:102-103` promise that reuse revokes every still-active
   session of the family. The bulk update works on its snapshot; a child that a
   rotation commits while the update waits for the parent's row is missed. What does
   hold is `SnapshotRevoked`, and the promise itself when nothing overlaps
   (`OnlyOverlapsSurvive`). Run `phantom`.
2. **Wait cycle.** `AUTH/services/RotateTokenService.java:50` says "one lock, no
   contention". The family kill takes further row locks while holding one. Two
   replays can deadlock; the store aborts one. Run `wait_cycle`; the requests still
   end, `EveryRequestAnswered`, and only kills of one family can meet this way,
   `DeadlocksAreAmongKills`.
3. **Two active keys.** `AUTH/domain/signing/SigningKey.java:30` says there is a
   single active key; two transactions can each insert one. Run `two_active_keys`.
   `TokensVerify` and `FreshSigner` hold all the same.
4. **Moved deadline.** `AUTH/domain/signing/SigningKey.java:95-96`: a second
   retirement would move the deadline. The guard looks at an entity that may be
   stale. Run `grace_moved`; the deadline still covers every token, `TokensVerify`, and
   no move is longer than a transaction may take, `DeadlineDriftIsBounded`.
5. **Lost race.** `AUTH/services/SignUpService.java:17-20,48` promise the loser of
   two concurrent sign-ups the 409 of the pre-check. The violation appears in the
   commit, outside the `try`, and is answered 500. Run `lost_race`; nothing is stored
   twice, `OneAccountPerAddress`.
6. **Row gone.** `RES/services/ProjectService.java:14-15` and `TaskService.java:17-18`
   report what does not exist as a 404. A row deleted between the check and the flush
   gives a 500. Run `gone_row`; nothing comes back, `DeletedIsFinal`.

Noticed and not the subject of a run: `README.md:144,221-222` and `sdd-auth.md:102,127`
let a revoked refresh token answer `REFRESH_REUSE_DETECTED`, the code answers
`SESSION_REVOKED` (`RevokedAnswerMeansDeadFamily` shows why nothing is lost);
`AUTH/web/jwks/JwksController.java:19-21` lets a cached set verify a freshly minted
token, which is untrue right after a rotation and covered by the refetch; a mint
that straddles a rotation fails with a 500 and rolls back.

## Assumptions and omissions

* PostgreSQL's READ COMMITTED, its row locks, the re-evaluation of an `UPDATE`'s
  condition, Hibernate's flush before queries and whole-row updates, and Spring's
  commit and rollback rules are modelled from their use and marked external.
* One clock for all instances.
* No HTTP cache between the services. `AUTH/web/jwks/JwksController.java:36` sends
  `Cache-Control: public, max-age=600`, so one could be put there; none is deployed, and
  `NoFalseReject` depends on it: a refetch answered from a cache could be older than the
  rotation that made it necessary.
* The wait of a mint for a `jwks` row is in `SigningKeys` and not in `Sessions` (see there).
* Passwords, hashes, key material, claims and JSON are abstracted: pure functions. Of
  `PrivateKeyCipher` what is kept is that a value opens under the secret that sealed it.
* One process secret at a time: instances that run with different secrets side by side
  are not modelled.
* A client is in doubt of a commit only after it gave up; a 500 means rolled back.

## Not modelled

* Auth-service's own bearer check beyond `Servable`: it reads the published set on every
  request and keeps no state, so `TokensVerify` is all there is to it. The route
  matchers and `GET /me` only read.
* `created_at` and `updated_at` of projects and tasks: nothing in the code or the
  documents depends on their order.
* The other controllers, DTOs, exception handlers, wiring, migrations at start, build
  files: no state of their own.
* JavaScript: the only files are `commitlint.config.js` (a constant) and the compiled
  third-party Obsidian plugins of the documentation vault (`docs/.../.obsidian/plugins`).
  None is part of the system: the program is Java and SQL, and that is what is modelled.

## Plan

Done: `TokenChain` and `Sessions`, `RefreshClients`, `SigningKeys` with the secrets of
successive processes, `JwksVerifier` and `HybridAuth`, `SignUp`, `Workspace`, each with
its runs and its safety proofs. Order of the work was by weight: what breaks a session
or a token first, then accounts, then user data. The failure of a mint inside a token
rotation is `Fail` of `Sessions`, and `PatientClientStaysSignedIn` says that the
presented token stays usable.

Proved since: the refinements of `Registry` and `OwnedStore`, the lock discipline of the
sessions, the drift of the grace deadline, and the theorems for one request at a time.

Left: instances of the auth-service that run with different secrets at the same time.
