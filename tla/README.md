# Formal model of the Purrivacy backend

TLA+ modules for the parts of this Express/Firebase backend whose correctness
depends on the order in which requests, jobs and failures touch shared records:
sessions and refresh tokens, the MFA transitions, nonces and recovery codes, user
accounts and their key records, push tokens, the rate limiters, and the life of a
server process. They are checked with TLC on small instances; theorems about every one
of them are proved with TLAPS for every value of the constants.

Source paths below are relative to the repository's `src/`.

## The system

The backend is one or more Node processes. A process runs many requests at once;
a request is a chain of awaited database calls, and any other request, or the
hourly maintenance job, may run between two of them. Nothing is locked. Firestore
offers single-document writes, batches, queries and transactions; the Realtime
Database offers multi-path updates and per-path transactions, whose callback may
first be handed a stale `null`; Redis runs one script at a time.

| Component | State | Operations | What makes it correct | Module |
|---|---|---|---|---|
| Session records (`features/session/application`) | collections `refreshTokenFamilies`, `refreshTokens`, `sessions` | login with device sweep, refresh, validate, trust/verify, sign-out, revoke-all, hourly cleanup | one chain of refresh tokens per family; revocation is final; an untrusted MFA session that lapsed stays lapsed; deletions end what they should and nothing else | `SessionStore` |
| MFA transitions (`MfaSessionService`, `core/transitions`, `mfaTransitionStore`, `enableMfa`, `disableMfa`) | `users/<uid>.mfaEnabled`, secret, setup document, progress document | enable and disable in three steps, compensation, resume | the user always has a session; an answer is a working session with the MFA state in force; a failed step is undone or resumed | `MfaTransition` |
| MFA nonces and codes (`mfaSetupNonce`, `mfaRecoveryCodes`, `setupMfa`, `verifyMfaCode`) | nonce documents, setup document, recovery codes of the MFA document | mint, consume, set up, spend, regenerate, clean up | nonces and codes are good once; an account with MFA has codes | `MfaProof` |
| User key records (`features/user/infrastructure`) | one record set per user in the Realtime Database | add, update, delete, paginated and delta listing | quota, no write reported that did not land, a listing misses nothing | `UserKeys` |
| User accounts (`features/user/application`) | user document, Firebase identity | create with rollback, five-step delete, document updates, who is let in | a deletion can be completed; a creation that succeeds meets nothing of one that failed | `UserAccount` |
| Push tokens (`features/notification`) | `pushTokens`, `devicePushTokens`, `userPushDevices` | save, delete one, delete all, list and send | a notification reaches its user's devices and no other | `PushTokens` |
| Rate limiting (`api/rate-limit`) | fixed-window counters in Redis or in a process | count, refund, evict, fall back, fail closed | limits hold, windows end, memory is bounded | `RateLimiter` |
| Maintenance scheduler, shutdown (`jobs/maintenanceJobs`, `server`) | in-flight set, interval, forced-exit timer, connections | hourly run, signal, crash | one run per job at a time, and again after failures; a graceful exit cuts off no request somebody waits for; the exit comes in time | `ServerProcess` |
| Recovery access, HTTP layer, configuration, logging, cryptography, deployment | none that is shared | parsing, formatting, comparing hashes, I/O | see "Not modelled" | none |

How they interact: every authenticated route first passes its rate limiters and then
`validateBackendSession`; a sensitive route verifies an MFA code and marks the family
verified; the MFA transitions create a session, change the MFA state and call
revoke-all sparing the new family; account deletion starts with revoke-all and goes on
through the user document, the key records and the push tokens to the identity; a
login reads the MFA state of the account; the job deletes expired session records
and MFA setups while all of this goes on.

What is hard: refreshes of one family that race, a lost answer that makes a client
reuse a token, decisions taken on a family read before a revocation, paged
deletions during logins, clocks read before a transaction, transitions that stop
half way and are retried from persisted progress, two attempts of the same transition
at once, placeholders that a transaction commits over nothing, cleanups that work
from what they read before, refunds that come when their window is over or come twice, clients that go away while
their request is handled, and
deletions of five steps any of which may fail. `PROJECT.json` lists each hazard at
its line.

## Modules

| Module | What it models |
|---|---|
| `SessionLedger` | Abstract specification: families open once, hand one usable token on from refresh to refresh, close for good |
| `SessionStore` | The three collections, every request that touches them and the cleanup job; implements `SessionLedger` |
| `MfaTransition` | Enable and disable of MFA for one account: steps, runner, progress document, compensation |
| `MfaProof` | The proofs MFA asks one user for: setup nonces, recovery codes, TOTP |
| `UserKeys` | The record set of one account |
| `UserAccount` | Extends `UserKeys` with the account around it |
| `PushTokens` | The three indexes of registrations |
| `RateLimiter` | The limiters of routes and both kinds of counter store |
| `ServerProcess` | One process: its connections, maintenance jobs and shutdown |
| `SessionStoreProofs`, `SessionEndTheorems` | TLAPS proofs about `SessionStore`; the second has how families end |
| `MfaTransitionTheorems`, `MfaProofTheorems`, `UserAccountTheorems`, `PushTokensTheorems`, `RateLimiterTheorems`, `ServerProcessTheorems` | TLAPS proofs about the module named |
| `MCSessionStore`, `MCMfaTransition`, `MCMfaProof`, `MCUserAccount`, `MCPushTokens`, `MCRateLimiter` | Symmetry and routes for TLC; the `.cfg` files give the constants |

In every module `req` (or `attempt`) holds the requests in progress: `pc` is the await
a request stands at, the other fields the locals it carries over that await, and the
fields and variables marked "history" what a property must remember.

### SessionStore and the code

`families`, `refreshTokens` and `sessions` are the collections, functions from ids to
documents or `None`. Ids are 32 random bytes in the code; `minted` holds those drawn,
and an id is never drawn twice. `delivered` holds the refresh tokens that reached
a client, the only ones a client can present. `job` is the run of the cleanup job.

* Login: `Login` (one batch), `FindStaleFamilies`, `SweepNextFamily`,
  `DeleteChildSessions`, `DeleteChildTokens`, `CreateAccessToken`; `SweepFails` is
  the caught error.
* Refresh: `BeginRefresh` reads the clock; then one of `TokenReused`,
  `TokenExpired`, `Rotate` is the transaction. Firestore transactions are
  serialisable, so each is one step; a retried transaction keeps the clock reading,
  as in the code. `CreateAccessToken` follows `Rotate`. A refused refresh has no
  effect but to end (`EndRequest`).
* Authenticated routes: `Authenticate`, `CheckFamily` (the family document and then the
  user's, which may be gone), `DropAccessSession`; then
  `ReadOwnedFamily` and `UpdateFamily`, `SignOut`, or `BeginRevokeAll`,
  `RevokeSessions`, `RevokeFamilies`, `RevokeTokens`.
* Job: `StartJob`, `JobReadsPage`, `JobDeletesPage`, `JobFails`.
* `EndRequest` ends a request anywhere: its answer, an error of an awaited call, or
  the death of the process. Nothing it wrote is undone.

A paged deletion reads and deletes a page in one step for requests, because the
documents it selects are chosen by fields that never change. The job selects by
`expiresAt`, which a refresh moves, so there reading and deleting are two steps.

Left out: labels, platforms, token hashes (a presented token is the stored one), the
Firebase token revocation and the notifications after revoke-all (best effort),
and `revokedAt` of a single token, which no code sets. `Login` reads its clock where it
commits, the code a moment earlier (`createSession.ts:24`); nobody can see a family before
the commit, and no property compares its times with those of another request.

### MfaTransition and the code

One account. A family is unborn, plain, of an MFA account, or revoked; `SessionStore`
has the records behind that. `attempt` holds the running transitions; `resume`,
`session` and `done` are `isResume`, `sessionResponse` and `completedSteps`. The
progress is read twice, as in the code: once by `runTransition`, once by
`executeTransition`. `complete()` is a read and a later write. `right` says whether
the code sent is right for the secret it is compared with. `scenario`, drawn at the
start from the constant `Scenarios` and never changed, says which transitions are asked
for and what may fail, before or after it did its work: a read of the progress or step 1
(`create`), step 2 (`apply`), step 3 (`revoke`), each with the saving of it; the final
clear, a compensation, or the process itself (`crash`).

* `Begin` is `authenticate('session')`; `VerifySensitive` comes after it for a disable.
* Step 1 is `CreateSession`. Step 2 is `ReadMfaState`, then `ProvePossession`, or
  `CheckSetup` with `DropSetup` (of an expired setup, or of the one that has replaced it) or
  with `CommitEnable` and `ConsumeSetup`; of a disable it is `CommitDisable`.
* Step 3 pages through the families: `FindFamilies` reads a page and `RevokeFamilies`
  deletes it by reference, again and again, and may fail in between; `RevokeTokens` is what
  follows. The page budget is taken to be enough here; `SessionStore` counts the pages.
* `ReadSaved` and `WriteSaved` are `complete()`; `Finish`, `CompensateSession` and
  `CompensateProgress` the ends. `CreateFails`, `ApplyFails`, `RevokeFails` and
  `CompensationFails` are failing calls.

The clock counts units far longer than a request, so a request sees it move at most
once: it may straddle an expiry but never outlive a whole lifetime.

### MfaProof and the code

One account: `mfaEnabled`, `codes` (the batch a list of recovery codes belongs to and
those left of it), `setup` (the setup document), `nonces`, and the `families` as far as
`createdAt` goes. A batch stands for the codes one `generateRecoveryCodes` draws.

* `ReadMfaState`, `ReadMfaStateAgain` are the two reads of `mfaEnabled` before a code is
  looked at; `CheckTotp` and `SpendCode` accept one. `SpendCode` is the transaction
  that removes the code and, when few are left, replaces them all.
* `ReadFamily` and `MintNonce` are `mintMfaSetupNonce`; `ReadForSetup`, `ConsumeNonce`
  (a transaction) and `IssueSetup` are the setup route. `CleanUp` is the job's deletion
  of a nonce; an expired nonce document never changes, so reading it and deleting it is one
  step. A setup document can be replaced in between: `FindExpiredSetup` reads it
  (`cleaning`) and `CleanUpSetup` deletes whatever is there, or fails.
* `ReadSetup`, then `CommitEnable` and `DeleteSetup`, or for an expired setup `DeleteSetup`
  alone, which deletes whatever is there by then; `CommitDisable`; `ReadForCodes`,
  `ReadCodes`, `WriteCodes`. An update of a document that is gone fails.
* `Fail` ends a request anywhere, with a wrong code, an error or the process.

`MfaTransition` has the sessions of an enable or disable; here those two change the
account only. A TOTP code is right or the request fails.

### UserKeys, UserAccount and the code

`keys` is `Null` (nothing stored) or a function from record ids to `updatedAt`; ids are
numbers in the order in which `push()` draws them. Payloads are left out. A
transaction is one step with `Outcomes`: what its callback makes of the stored set, or
an abort when the callback aborts on the stale `null` it may see first. What it returns
for a stale `null` otherwise is thrown away by the database.

* Listing: `ReadPage` is one request with a cursor; the client goes on while it is
  given one. `ReadNothing` and `WriteStub` are the read that finds no storage and the
  plain `set()` after it.
* `BeginAdd` draws the id and the clock, `AddRecord` is the transaction with the quota.
  `Precheck`, `UpdateRecord`, `VerifyStored` and `DeleteRecord` change a record.
* `UserAccount` adds `doc`, `identity` and `session`; `BeginCreate`, `CreateDocument`,
  `InitializeKeys`, `InitializeFails`, `RollBack`; `BeginSetUser`, `UpdateDocument` for
  the two updates of the document; `BeginDeleteUser`, `RevokeSessions`,
  `DeleteUserDocuments`, `DeleteEncryptedKeys`, `DeletePushTokens`,
  `DeleteFirebaseUser`. `Fails` is a failing step or a dying process.
* `FirebaseAuth`, `SessionAuth` and `CanLogin` say who is let in; they are looked at when
  a request begins and not again, as in the code. `CreateDocument` draws the ids and reads
the clock of the records in the step that creates the document; the code does so right
after it, and nothing else uses that clock reading.

`doc` holds which creation stored it, so that a property can tell two documents apart.
Sessions are one bit here; `SessionStore` and `PushTokens` have what steps one and four
of a deletion do.

### PushTokens and the code

A registration of a token by a user on a device is kept at `tokens`, `devices` and
`index`. `Update` writes all three at once (a multi-path update); everything else is a
compare-and-remove of one place, `RemoveIfMatches`, pending in `todo` and naming the
registration it was read from. What the code starts with `Promise.all` is done in any
order; what it awaits in turn, `InTurn`.

* Save: `BeginSave`, two `ReadPrevious`, `Update`, the removals.
* Delete one: `BeginDeleteToken` (which reads the assignment), the removals.
* Delete all: `BeginDeleteUser`, `ReadDevice`, `ReadIndex`, the removals, `ClearIndex`.
* Notify: `BeginNotify`, `CheckEntry` (two parallel reads, an entry after the other; a
  stale entry is removed), `FinishListing`, `Send`; tokens Expo calls invalid are
  deleted like above (`ReadNext`).
* `RemovalFails` is a failing call; what runs in parallel goes on.

`stands` follows a saved registration or a deleted token until somebody replaces it;
`owned` follows the tokens a notified user has had since the request began.

### RateLimiter and the code

`Route[k]` is the sequence of limiters of the route whose requests have key `k`; limiters
of one route that make the same key share its counter. A counter has `count`, `reset`
(`Never` for a Redis key without an expiry) and, as history, `kept`, the passages it let
through and has not taken back, and `excess`, how often it was refunded what it does not
hold: because the window of the passage was over, or because it had been refunded before.

* `CountInRedis` is the increment script. The Redis client is configured with
  `maxRetriesPerRequest: 1` and sends a command again that was not answered when the
  connection was lost (`redisRateLimitStore.ts:63-69`): `CountUnanswered` is a run of the
  script that is yet to be repeated. `RedisFails` is a call that fails before or after
  Redis has counted; `RejectUnavailable` and `CountLocally` the two ways on.
  `CountLocally` holds `maybeCleanup`, `evictIfFull` and the increment, which are
  synchronous, so one step.
* `Finish` sends the response; `RefundInRedis` and `RefundLocally` follow it, or never do.
  `RefundUnanswered` is a refund that Redis has made and the client will send again.
* `Tick` passes time and lets Redis drop what has expired; `Restart` empties a process.

`Init` has at most one Redis key without an expiry, as a version of the program before
the scripts could leave it. `Fault` counts what goes wrong with Redis, with its connection
or with a process, up to the bound `MaxFaults`. Headers are left out.

### ServerProcess and the code

One process from the loading of `server.ts` to its exit. `conn` has the connections of
the HTTP server, `interval` and `inFlight` the state of `maintenanceJobs.ts`, `forceIn`
and `flushIn` what is left of the forced-exit timer and of the flushes under way.

* `RunMaintenance` is one firing of the interval for both jobs; `RunEnds` the `finally`
  of a run.
* `Signal` is `shutdown` up to `server.close`; `ServerClosed` its callback, `CloseStore`
  and `FlushEnds("shutdown")` what that awaits; `ForceExit` the timer; `Crash` an
  uncaught exception. `FlushFails` is the one flush whose rejection nothing handles,
  after which only the end of the event loop is left (`LoopEnds`).
* `Accept`, `Answer`, `Disconnect`, `Abort`, `HandlerEnds` and `LoopEnds` are Node.js, as far
  as this code relies on it: `close` calls back when the last connection has ended. A client
  that aborts ends its connection while the handler goes on (`aborted`), so `close` does not
  wait for that handler. A second signal is ignored, so `close` is called once.

## Properties

SessionStore

* `LinearChain`: at most one unused token per family, no two tokens with the same
  successor.
* `RevocationSticks`: no write decided on an older read reopens a revoked or deleted
  family or gives it a usable token.
* `LapsedIsFinal`: an untrusted MFA family whose access sessions have all run out can
  only be deleted.
* `ImplementsLedger`: refinement of `SessionLedger`.
* `RevocationComplete`: when revoke-all returns, every family it should end is gone.
* `DeletedByOwnUser`: a request deletes a family for its own user or after it expired.
* `CleanupKeepsActive`: the job takes no family that is unexpired when it goes, within
  the page budget of its token phase.
* `ExpiredFamiliesSwept` (liveness): every expired family is eventually deleted.

MfaTransition

* `NeverStranded`: the user always has a live session.
* `AnswerIsFinal`: an answer is a live session, its MFA state is in force, and no
  session with the other one is left.
* `NoDuplicateSession`: retries after failed calls leave at most one undelivered
  session of a kind. Where processes die or step 1 fails it says nothing: a request that
  ends between the creation of the session and the saving of it leaves the session behind.
* `CompensationSparesClients`: a compensation takes no session from a client who was given
  it by an earlier answer.
* `CompensationMeansUnchanged`: only an unchanged MFA state is compensated (violated).

`NeverStranded` and `AnswerIsFinal` speak of scenarios that are `Orderly`, because the code
breaks them in others. Orderly is: compensations do not fail; all transitions are of one
kind, or only step 2 fails; and processes die only in a disable whose step 2 does not fail.
What happens elsewhere is under "Differences without a run".

MfaProof

* `NonceAuthorisesOnce`: a nonce lets one setup through at most, of the session it was
  minted for and within its time.
* `CodeSpentOnce`: a recovery code that was accepted is not good again, until its setup
  is enabled again.
* `NeverRunsDry`: MFA is in force exactly when the MFA document exists, and then more
  codes are left than the threshold.

UserKeys and UserAccount

* `QuotaKept`: concurrent adds and creations stay within the quota.
* `UpdateLanded`, `NotFoundIsTrue`, `DeletedStaysDeleted`: an update reported as done
  wrote; a record reported as missing was away at some time; a deleted record stays so.
* `NothingMissed`: a listing delivers every record nobody touched while it went on.
* `CreationWhole`: until a deletion is asked for, a creation that succeeded keeps its document
  and a record set with nothing in it of creations that failed, though these store their
  set, roll back, or die, at any moment.
* `DocumentLife`: documents are stored by creations only, and never over another.
* `IdentityLast`: the identity goes after every record stored when the deletion began.
* `DeletionRetryable`: after a failed deletion the user can be let in (violated).

PushTokens

* `NotifiesOwner`: a notification goes to tokens that have been its user's since it was
  asked for.
* `NewRegistrationSurvives`: a saved registration nobody replaced or deleted is found.
* `DeletedNotNotified`: a deleted token is not used again until it is saved again.

RateLimiter

* `WindowBudget`: what a counter lets through in one life is within `maxRequests`, plus
  one for each refund of what it does not hold, be it late or repeated.
* `SharedBudget`: limiters that fail closed keep one such budget over all processes.
* `WindowEnds`: a Redis key ends at most a window away, and counting does not put its
  end off.
* `EvictsLast`: a memory store stays within `maxKeys` and evicts a live counter only
  when full of live ones, and one that ends first.

ServerProcess

* `RequestsServed`: neither closing the store nor a graceful exit cuts off a request whose
  client waits for the answer.
* `ExitsInTime`: a signalled process is gone within its grace and one flush.
* `JobsGoOn` (liveness): while the process serves, each job runs again and again.

`TypeOK` of each module is its type invariant. In `ServerProcess` it includes that no
job has two runs under way, in `SessionStore` that no paged deletion reads more pages than its
budget.

## Runs

| Run | Instance | Distinct states | Shows |
|---|---|---|---|
| `session_rotation` | 1 family, 3 refresh tokens, 2 access tokens, 2 requests, clock to 2 | 328,296 | `TypeOK`, `LinearChain`, `RevocationSticks`, `LapsedIsFinal`, `ImplementsLedger` under racing refreshes, reuse, sign-out, trust and MFA verification |
| `session_revoke` | 2 users, 1 device, 3 families, pages of 2, 2 pages | 116,465 | `RevocationComplete`, `DeletedByOwnUser` with logins, refreshes and sign-outs during the pages |
| `session_cleanup` | 2 families, 3 refresh tokens, pages of 1, 2 pages, clock to 2, `FairSpec` | 134,388 | `ExpiredFamiliesSwept`, `CleanupKeepsActive` |
| `mfa_retry` | one attempt at a time in five scenarios: an enable with faults in steps 2 and 3 and the clear; an enable with faults in steps 1 and 3; a disable with crashes, the clock past the progress; both kinds with faults in step 2; both kinds with crashes and failing compensations | 930,713 | `TypeOK`, `NeverStranded`, `AnswerIsFinal`, `NoDuplicateSession`, `CompensationSparesClients` |
| `mfa_undone` | an enable, with a fault in step 2 | | `CompensationMeansUnchanged` violated |
| `mfa_overlap` | two attempts to enable, no fault | | `NeverStranded` violated |
| `mfa_proof` | 2 requests, 2 families, 1 nonce, codes in threes, threshold 1, 2 batches, clock to 2 | 1,870,958 | `TypeOK`, `NonceAuthorisesOnce`, `CodeSpentOnce`, `NeverRunsDry`, no deadlock |
| `user_account` | 3 requests, 3 record ids, quota 2, pages of 1 and 2, clock to 2 | 1,219,835 | the `UserKeys` and `UserAccount` properties but the last |
| `user_deletion` | the same | | `DeletionRetryable` violated |
| `push_tokens` | 2 users, 2 devices, 2 tokens, 2 requests at a time, 4 in all | 1,349,226 | `TypeOK`, `NotifiesOwner`, `NewRegistrationSurvives`, `DeletedNotNotified` |
| `rate_limiter` | 2 processes, 2 faults, 3 requests, a route of two limiters that share a key (budget 2) and two keys of one limiter (budget 1), window 2, 2 entries, clock to 2 | 1,168,035 | `TypeOK`, `WindowBudget`, `SharedBudget`, `WindowEnds`, `EvictsLast` |
| `server_process` | 2 jobs, 2 connections, grace 3, flush 2, `FairSpec` | 12,904 | `TypeOK`, `RequestsServed`, `ExitsInTime`, `JobsGoOn` |

### Bounds

* Sessions. Three refresh tokens of one family are the least that show a fork (one used
  twice) and two requests the least that race; two access tokens let a refresh present
  an old one while a newer exists. Three families against pages of two make revoke-all
  turn the page, with room for a login meanwhile. Two families and
  three tokens against pages of one and a budget of two make the job need several runs,
  and still let the token phase reach the last token that anybody could rotate.
* MFA. Four families let an attempt and three retries each draw a session; one attempt
  at a time is a client that waits for its answer, and `mfa_overlap` has two. The
  scenarios of `mfa_retry` stay apart because together they are not safe: see
  "Differences without a run". The first four are Orderly; the last, which is not, is there
  for `TypeOK` and `CompensationSparesClients`. In `mfa_proof` two requests race for one nonce or one
  code, two batches let a list be replaced while an old one is in somebody's hands, and
  three codes with threshold 1 reach the automatic regeneration at the second code. With one
  nonce there is one setup in a behaviour, so that a deletion by reference meets a newer
  setup is in the model and in the proofs, and not reached by the run.
* Accounts. Three requests are a listing or a deletion with two others between its
  steps; with quota 2 and three ids an add is refused, and the page size of 1 turns
  pages.
* Push tokens. Two users, devices and tokens let a token change its device and its
  owner both; two requests run at a time and four in all, so that two earlier
  registrations stand before the two that race.
* Rate limits. Three requests exceed each budget; two entries for three keys evict; a
  window of 2 lets a refund come late. Two processes share Redis and have a memory each;
  two faults are a command that is repeated and one more failure, or two repetitions.
* Process. The times only have to differ and to leave a moment between the events.

`maxTime` and `MaxTime` let every lifetime in the instance pass. Deadlock is checked in
`mfa_proof`; elsewhere ids, requests, time or the process itself run out. Ids and
request slots are interchangeable, hence symmetry, except in the two runs that check
liveness.

### Fairness

`FairSpec` of `SessionStore` assumes that time passes, that the timer of
`maintenanceJobs.ts` starts the job again, that a job that runs gets to its next call
(each is an awaited call that resolves or rejects), and that from some point on the job
no longer fails: if every run failed nothing would be swept. A run that ends because its
last page is empty is the same step as one that fails there, so only other failures are
excluded. `FairSpec` of `ServerProcess` assumes that the interval fires and that a run
of a job ends, with success or not: it is a bounded number of awaited calls, which the
Firestore client gives up in the end. No fairness is assumed of clients, of requests, of
the closing of the store or of signals.

## Findings

Each is a run TLC must find violated; the trace is the scenario.

* `mfa_overlap`: an attempt resumes the progress of another still running. The other,
  with a wrong code, revokes the session they share; the first revokes all the rest. A
  retry sent before the first request has ended is enough.
* `mfa_undone`: the batch that enables MFA is committed; then the deletion of the setup
  document fails, or the saving of the step. The step counts as failed, and the new session
  is revoked and the progress cleared, though `MfaSessionService.ts:205-207` compensates
  "only when the MFA state change itself failed" and lines 57-58 promise that "MFA stays
  disabled". The user is left with sessions from before, and MFA in force.
* `user_deletion`: a deletion revokes the sessions and deletes the user document, then
  fails. The route asks for a session, and a login is refused without the document, so
  the key records, push tokens and identity stay and nobody can issue the request again. The
  way out is to create the account anew, which takes the Firebase identity only
  (`POST /user`), to log in, and to delete that account.

## Differences without a run

Seen while modelling. The first eleven can be shown by TLC with the instance named and the
property the module keeps for it, under "What the code does not have" where it is not
one of the properties above. `SomeSession` and `FinalAnswers` are `NeverStranded` and
`AnswerIsFinal` without the condition that the scenario is Orderly.

* Two logins of one user on one device commit, then sweep; each deletes the other's
  family and both answer with a dead session (`sessionRecordStore.test.ts:154`).
  `LoginKeepsDevice`, with 1 user, 1 device, 2 families, 2 refresh tokens, 1 access
  token, 2 requests, lives 1, `PageSize` 1, `MaxPages` 2, `MaxTime` 0 and
  `Routes = {"login"}`.
* The final clear of an enable fails, which is only logged (`transitionRunner.ts:97-98`).
  Within the life of that document, disable, set up again and enable: the enable finds
  all steps done, verifies nothing, and returns the session that disable revoked.
  `FinalAnswers`, with one attempt, both kinds, the fault "clear", lives 1, time 0.
* Revoking the old sessions fails after the families are gone; the caller is told to
  retry with a session that no longer exists (`MfaSessionService.ts:65-67`).
  `RetryAuthenticates`, with an enable, the fault "revoke", time 0.
* An expired progress document keeps its expiry when the next attempt writes to it, so
  that attempt cannot be resumed (`mfaTransitionStore.ts:10-11`). `SavedProgressResumes`,
  with an enable, the fault "crash", `SetupLife` 2, `ProgressLife` 3, time 5.
* A compensation revokes the session, then fails, or the process dies, before the clear:
  the retry resumes with a dead session and revokes all others. `SomeSession`, with one
  attempt to enable, the fault "compensation" or "crash", lives 1 and time 0.
* Revoking the old sessions fails; before the retry the opposite transition is done. When
  the first one is asked for again within the life of its progress, it resumes with the
  session that the opposite one revoked. `SomeSession`, with one attempt, both kinds,
  the fault "revoke", lives 1 and time 0.
* The retry after a failed step 3 comes when the progress has expired: it creates a second
  session, and the first is live and undelivered until the new step 3.
  `NoDuplicateSession`, with a disable, the fault "revoke", `ProgressLife` 3, time 3.
* A read that found no key storage sets an empty one, over what an add or a creation has
  stored meanwhile (`userKeyRepository.test.ts:74`, `UserKeyRepository.ts:35`).
  `ReadsLoseNothing`, with the constants of `MCUserAccount.cfg`.
* A creation stores its document, then dies, or its key records fail and the rollback fails
  with a warning (`userWrites.ts:59-61`): the account cannot be created again, since its
  document exists, and has no key records. `CreationRetryable`, with the constants of
  `MCUserAccount.cfg`.
* A client goes away before its answer, and a signal comes: `server.close` does not wait for
  the handler, and `process.exit(0)` cuts it off between two writes (`server.ts:48`).
  `HandlersFinish`, with the constants of `MCServerProcess.cfg`.
* The job takes a family that a refresh has just extended, against the test "while
  keeping active ones" (`expiredSessionCleanup.test.ts:20`), when its token phase stops
  at the page budget (`expiredSessionCleanup.ts:26`): the token of an expired family
  stays, the family is read, a refresh with an older clock reading rotates that token,
  and the family goes by reference. The family phase runs although the token phase was
  truncated. `CleanupKeepsActive`, with `MCSessionCleanup.cfg` and `MaxPages` 1.

The rest is known from reading only; the models leave it out as said.

* Sessions: with more than ten pages of 400 families `deleteAllUserSessions` returns
  normally and leaves the rest (`truncated` is dropped); `RevocationComplete` is checked
  within the budget. A login that read the MFA state before a transition committed
  creates a session with the old one.
* MFA: a setup document read by two enables installs its codes twice, those spent in
  between with them; minting a nonce with a recovery code at the threshold drops the
  new codes (`mfaSetupNonce.ts:74`), and so does a login that fails after it
  (`AuthSessionService.ts:50-54`); regeneration with a recovery code at the threshold
  answers the later of two new lists.
* Accounts: a delta listing takes `updatedAt` from before the transaction, so a record
  may appear below a client's cursor or `since`; a listing whose cursor has nothing
  behind it starts again from the first page (`userKeyRecordSet.ts:173-180`, where the
  comment on lines 144-146 speaks of the end), so records come twice; a rollback may
  delete a document that was created anew; a deletion that was under way removes the key
  records of an account created meanwhile; writes in flight when an account is deleted
  leave records behind.
* Push tokens: a cleanup that has read a registration also removes a newer one of the
  same user, device and token; deleting all tokens of a user removes index entries saved
  meanwhile. `NewRegistrationSurvives` leaves out the registrations that another request
  is about to remove so, and saves during a deletion of all (`Held`).
* Rate limits: the two limiters of `verifySensitiveMfa` share a counter, count twice and
  refund once, so the fifth attempt is refused, not the sixth; the limiter of
  `v1Routes.ts:16-18` is described as aggregate per IP, but its default key has the
  method and the path; a late refund, or one that is repeated, lets one more request
  through; a process that restarts or loses Redis starts from zero where it fails open.
* Shutdown: the forced exit comes after ten seconds and a flush of up to two, while
  `docker-compose.yml` leaves the container the default ten before it is killed; a
  maintenance run or a late refund in flight is cut by the exit.

## Proofs

All theorems hold for any sets of ids and requests and any bounds the assumptions admit.

| Module | Theorems |
|---|---|
| `SessionStoreProofs` | `TypeCorrect`, `ChainIsLinear`, `RevocationIsFinal`, `ImplementsLedgerTheorem` (refinement) |
| `SessionEndTheorems` | `DeletedForOwnUser`, `LapsedStaysLapsed`, `RevocationEndsAll`, `CleanupSparesActive` |
| `MfaTransitionTheorems` | `TypeCorrect`, `AlwaysSomeSession`, `AnswersAreFinal`, `CompensationsSpareClients`, `RetriesDuplicateNothing` |
| `MfaProofTheorems` | `TypeCorrect`, `NoncesAreSingleUse`, `CodesAreSingleUse`, `CodesNeverRunOut` |
| `RateLimiterTheorems` | `TypeCorrect`, `BudgetHolds`, `FailingClosedHolds`, `WindowsEnd`, `EvictionIsFair` |
| `UserAccountTheorems` | `TypeCorrect`, `QuotaHolds`, `UpdatesLand`, `NotFoundHolds`, `DeletionsLast`, `ListingsComplete`, `CreationsAreWhole`, `IdentityGoesLast`, `DocumentsLive` |
| `PushTokensTheorems` | `TypeCorrect`, `AlwaysNotifiesOwner`, `NewRegistrationAlwaysSurvives`, `DeletedNeverNotified` |
| `ServerProcessTheorems` | `TypeCorrect`, `GracefulExitServes`, `ExitIsInTime` |

Assumptions on the constants: `ConstantsAssumption`, `NoneIsNoDocument`,
`MfaAssumption`, `NoneIsNoProgress`, `MfaProofAssumption`, `NullIsNoDocument`,
`RateLimiterAssumption`, `NullIsNoCounter`, `UserKeysAssumption`, `NotARecordSet`,
`UserAccountAssumption`, `PushTokensAssumption`, `NullIsNoRegistration`,
`ServerProcessAssumption`. They say that ids are
no markers and of disjoint kinds, that limits and lives are naturals (positive for page sizes,
windows and quotas), and that a marker is no document. TLC
evaluates each in the runs of its module.

Some theorems have a hypothesis, because the code breaks the property without it. Each
names what was found to go wrong:

| Hypothesis | Says | Theorems | Without it |
|---|---|---|---|
| `OneAtATime` | one attempt of the account at a time | all of `MfaTransition` but the types | run `mfa_overlap` |
| `Orderly` | see "Properties" | `CompensationsSpareClients`, `RetriesDuplicateNothing`; in the property itself `AlwaysSomeSession`, `AnswersAreFinal` | a compensation that fails or is cut by a crash, a failing clear or step 3 before the opposite transition |
| `Lasts` | where step 3 may fail, the clock stops within the life of the progress | `RetriesDuplicateNothing` | the retry after its progress has expired |
| `WithinBudget`, `PageSize > 1` | on the last page that revoke-all may read, the query returns every family that is left | `RevocationEndsAll` | `truncated` is dropped |
| `TokensWithinBudget` | on the last page of tokens that the job may read, the query returns every expired token that is left | `CleanupSparesActive` | the job takes an extended family |

The last column is under "Differences without a run" where it is not a run. `Orderly`
and `Lasts` are conditions on `scenario`, met by the first four scenarios of `mfa_retry`; the
run finds `CompensationSparesClients` to hold in the fifth as well. The two
budgets are conditions on every state: `WithinBudget` holds throughout `session_revoke`
and `TokensWithinBudget` says, for code constants of ten pages of 400, that there are not
thousands of expired tokens between two runs of the job. With a page of one document,
which the code never uses, the page that holds only the spared family ends the loop.

The arguments:

* `SessionStore`. `LinearChain` alone is not inductive: it says nothing of tokens that
  an answer in progress is about to deliver, nor that an id about to be drawn is not yet
  in use. `IInv` adds `Recorded` (every document, every successor and every family or
  token a request works with has been minted) and `IssuerCarries` (a request at
  "issuing" carries the family and token it minted). Then a drawn id has no document and
  no predecessor, so `Login` starts a chain of one and `Rotate` replaces the head; every
  other step only deletes or marks. That last fact is a lemma of its own (`StepShape`: a
  step opens a family, rotates one, or grows nothing), and the action property and the
  refinement follow from it: opening maps to `Open`, rotating to `Rotate`, the rest to
  `Close` or a stutter.
* Endings of `SessionStore`. `EInv` adds to `IInv` that a family expires with its usable
  token (`SameEnd`) and what a sweep and a clock reading know (`Known`: found families
  are of the sweep's own user, a reading is not after the clock). For revoke-all,
  `Revokes` says that each family it should end is gone, or is left for a page still to
  come; the last page is where `WithinBudget` closes the argument by counting. For the
  job, `Swept` says that once its token phase is over every outdated usable token is in
  the batch about to go or is `Doomed`: any refresh that holds it has read the clock
  after its expiry. A family the job has read is therefore expired for everybody, and no
  step can extend it.
* `MfaTransition`. The theorems share `Inv`: at each stage of the attempt which steps are
  completed (`Shape`), whose session works (`SessionOK`), what the MFA state is
  (`StateOK`), what it knows of the document (`Reads`); and of each document left to a
  retry, that what can be resumed is true (`DocOK`, `Resumable`). `NeverStranded` follows
  because the client's session works until the new one has been created and MFA changed;
  `CompensationSparesClients` because a session that was delivered is in a document only with
  all its steps done, and then step 2 is not run again.
  `RetriesDuplicateNothing` needs a second layer: documents outlive the clock (`Timely`)
  and a live session nobody holds is the attempt's or a document's (`Expected`). `Inv` was
  checked with TLC over every Orderly scenario before it was proved.
* `MfaProof`. `IInv` adds which locals a request has at which stage (`Located`), that
  only codes of batches already drawn have been spent (`Drawn`), that a nonce document
  agrees with its history and an unconsumed one has authorised nothing (`NonceKnown`),
  and that a request past `ConsumeNonce` holds a minted nonce (`Authorised`). Then a
  fresh batch holds no spent code, a spent code was taken out by the transaction that
  accepted it, and only an unconsumed nonce counts a setup.
* `RateLimiter`. `IInv` is the types, `AtStage` (a request stands at a limiter of its
  route), `Budgets` (what a counter let through is covered by its count and its `excess`,
  and by the limit and this), `NothingLocal` (a key whose limiters all fail
  closed has no counter in a process), `Windows` and `Healed` (a key of Redis ends in
  time, or never if it is from before the scripts; a key with a refund due has an end), and `Bounded` (entries of a
  memory store). The first conjunct of `Budget` is what makes the second inductive: a
  passage needs a count within the limit.
* `UserAccount`. `Inv` is `KeyInv` and `AccountInv`. `KeyInv` bounds the set
  (`KeysFit`), says of each request what its stage owes (`Fits`: what a listing has
  delivered and has behind its cursor covers what nobody touched, what a verified update
  wrote) and that ids about to be stored are nobody else's (`Apart`). The page lemma
  `PageCursor` finds the last entry of a page through `LeastNatural`. `AccountInv` has what
  `CreationWhole` needs beside it (`CreationInv`): until a deletion is asked for, the document
  is that of the one creation which is past `create()` and not over, so no other can store
  a record set or roll back.
* `PushTokens`. `Inv` has, of each request, what its locals owe each other at its stage
  (`Shaped`), that what it is to notify has been the user's (`Listed`), that a standing
  registration is found (`Found`), and that what is left of a deleted token is about to be
  removed (`Deletes`); and of each pair of requests, that one's pending removals do not
  name what the other has saved, unless it is about to replace it (`Harmless`). `Harmless`
  is why a registration another request has read stays out of the property: its
  compare-and-remove compares values, and a newer one has the same.
* `ServerProcess`. `Inv` ties runs to `inFlight`, says what is closed at each stage of
  a shutdown, and that elapsed time and what is left of the forced exit, or of its
  flush, stay within the grace and one flush.

Model-checked only: liveness (`ExpiredFamiliesSwept`, `JobsGoOn`), which the prover does
not do, and the three properties that runs find violated; every other property of a passing
run is stated by a theorem.

## Plan

1. Proofs: the hypotheses `Orderly` and `Lasts` split by property, so that each theorem of
   `MfaTransition` has the faults it needs and no more.
2. A composition of logins with the MFA transitions, should the code come to promise
   something about a login that overlaps one.

## Not modelled

* Recovery access, parsing, validation and formatting of requests (HTTP layer, encrypted
  payloads): they compute from one request and keep nothing; what they decide about shared
  state is in the guards of the models.
* Configuration and logging: read once, or write only.
* Cryptography and TOTP arithmetic: libraries. The models need that random ids do not
  repeat and that a code or hash is right or wrong.
* Deployment and database rules: not executed by this program. The rules deny every
  direct access (`firestore.rules`, `database.rules.json`), so the models have no other
  writers than the server.
