# SecureCred: specifications, model checking and proofs

SecureCred issues academic certificates: a row in PostgreSQL, a PDF pinned to
IPFS and its hash anchored in a registry contract. The database is fast and the
contract is trusted; everything difficult lies between the two, and between what a
page shows and what has become of it meanwhile. This directory
holds TLA+ modules of that machinery, TLC configurations that check them on
small instances, and proofs checked by TLAPS for every instance.

## 1. The system

| Part | State it keeps | Operations | Talks to | What makes it correct |
|---|---|---|---|---|
| Life cycle (`packages/shared/src/constants.js`, `lifecycleService.js`) | `certificate.status` | `transition`: legal edge, then compare-and-set | database | only legal edges; a lost race changes nothing |
| Issuance (`issuanceService.js`) | the row, its file row, its ISSUE row | `issue`: insert, pin, store, anchor, settle | Pinata, chain, database | never two anchors; nothing is lost when the process dies |
| Revocation (`revocationService.js`) | `revocation`, REVOKE row | `revoke`: check, broadcast, commit | chain, database | one revocation per certificate, only for public ones |
| Event listener (`eventListener.js`) | block cursor, the range of the replay | boot, query windows, handle, save the cursor, subscribe | chain, database | status moves only with the outcome on the chain; nothing of the range is skipped |
| Reconciler (`reconciler.js`) | `reconcile_attempts` | `sweepOnce`, one handler per stalled row | chain, database | every stalled certificate ends |
| Registry contract (`SecureCredRegistry.sol`, `deploy.js`) | records, issuers, owner, counter, log | anchor, revoke, check, register, deregister | called by the adapter | each hash anchored and revoked at most once, by an issuer |
| Chain adapter (`chain.adapter.js`) | write queue, cached nonce | `anchor`, `revoke`, `check`, receipts | RPC provider | one transaction per nonce, in order |
| Batch issuance (`batchIssuanceService.js`, `batchReconciler.js`) | job, rows, counters | create, process, resume | issuance, database | no row issued twice; a job ends |
| Verification (`verificationService.js`, public routes) | `last_confirmed_chain_state`, log | `verify`, upload, document | chain, gateways, database | an answer is true of the certificate, degraded or not |
| Membership (auth, institution, webhook routes, `user.repo.js`) | users, institutions, join requests, student rows | choose role, found, join, decide, leave, webhook, resolve a holder, view | Clerk, database | nobody acts for an institution without having been admitted |
| Registry list (`RegistryPage.jsx`, `listByInstitution`) | filter, page, cursor stack | filter, next, back, reload | API | no row twice; what is shown belongs to the filter shown |
| Issuer's pages (issue, batch, detail, revoke dialog, status hook) | forms, polls, dialogs | submit, poll, refresh, revoke | API | a page in front of a certificate on its way is told of it |
| Web session (Clerk bridge, guards, role choice, settings) | scope, URL, forms | sign in and out, `/auth/me`, redirect, choose, rotate, leave | Clerk, API | a page never shows one user what was said of another; nobody goes round in circles |
| Verify pages (entry, scanner, outcome) | history, camera, result | number, file, scan, retry, back | API, browser | the result shown is of what the page says was checked |
| Small algorithms (`backoff.js`, `csv.js`, `gasStatus.js`, rate limiter) | window counters | | | boundaries |
| Migrations (`db/migrate.js`), configuration, pages that only show | | | | |

How they meet: the API request, the worker's listener and the worker's
reconciler all move the same `certificate` row. No lock is held across an
`await`; the compare-and-set in `updateStatus` (`... WHERE status = from`) is
the only mutual exclusion. Transactions are broadcast outside of any database
transaction. Events of the contract come from the provider, late, repeatedly or
never. Membership's statements run in no transaction at all, and a request goes on
with the scope that `requireAuth` read at its beginning. The pages hold answers that were
true when they were sent, and answers overtake each other. So the hard behaviours are
reads that are old when they are used, answers lost after the deed was done, a process
that dies between the chain and the database, a sweep that takes up a row whose request
is still alive, and a request that returns to a page which has moved on.
`PROJECT.json` lists each of these hazards at its line, with the properties that
watch it.

## 2. The modules

| Module | What it is |
|---|---|
| `Lifecycle` | states and legal edges |
| `CertificateTrust` | the abstract promise: status moves along legal edges, and a public status needs its fact on the chain |
| `CertificatePipeline` | issuance, revocation, listener, reconciler, database and chain, interleaved; implements `CertificateTrust` |
| `Registry` | the contract: its functions, modifiers, events and blocks, and the deployment |
| `EventReplay` | extends `Registry` with one listener that replays from its cursor, subscribes, ends and starts again, and the sweep beside it |
| `Verification` | public verification over an instance of `CertificateTrust`, so over whatever implements it |
| `Membership` | who may act for an institution, and who is shown a certificate |
| `BatchIssuance` | a CSV upload: one job, its rows, and the drivers that work on them |
| `ChainWriter` | the write queue and the nonce counter of every process that writes for the account |
| `RegistryList` | the list page over the keyset query, with its requests on the way |
| `IssuerPages` | issuing, watching, revoking and uploading in one tab, over a server that moves on |
| `WebSession` | signing in, guards and redirects, role choice and settings in one browser |
| `VerifyPages` | the verify pages, their history and the camera |
| `PipelineInvariant` | the inductive invariant of the pipeline |
| `PipelineClaims`, `BatchClaims` | sentences of the documentation that are not kept |
| `PipelineProofs`, `BatchProofs`, `ChainProofs` (contract, listener and nonces), `VerificationProofs` (verification and its pages), `MembershipProofs`, `ListProofs`, `IssuerProofs`, `SessionProofs` | the proofs |
| `MC...` | the instances for TLC |

Composition: `CertificatePipeline` implements `CertificateTrust` (`KeepsTrust`, proved
as `Refinement`); `Verification` runs beside any behaviour of `CertificateTrust`;
`EventReplay` implements `Registry` (proved as `ListensToTheContract`), and each of its steps is
one of `CertificateTrust` over the contract's records (`StepsKeepTrust`, proved as
`ListenerKeepsTrust`). Only the steps are mapped there: its rows begin with their documents
pinned, which `CertificateTrust` reaches in two steps.

A definition whose name carries a suffix (`StoreFile_IgnoresLostRace`,
`Decide_Unconditional`, ...) is a plausible mistake, not part of the specification. Each
property of a passing run is shown to notice one of them (`mutants` in
`PROJECT.json`).

### CertificatePipeline and the code

One action is one `await`: a database statement or transaction, a chain read, or
a broadcast. What runs between two awaits is atomic in Node, and one
`withTransaction` block is one action because it commits or rolls back whole.

| Variable | In the code |
|---|---|
| `status`, `attempts` | columns of `certificate`; ABSENT before the INSERT |
| `file` | a `certificate_file` row exists |
| `revocation` | the transaction attached to the `revocation` row (`certificate_id` is UNIQUE) |
| `rowStatus`, `latest` | `blockchain_transaction`: its status, and what `findLatestForCertificate` returns |
| `audit` | committed CERTIFICATE_ILLEGAL_TRANSITION entries |
| `phase` | the chain's view of each transaction: unsent, mempool, mined, deep, void |
| `issuer`, `revoker`, `sweeper`, `listener` | where each request or handler stands, and its local variables |

`issuer[c]` is the one request that creates `c`; `revoker` and `sweeper` are slots
for requests and handlers that run at the same time, as many as the instance
gives; `listener[t]` is the handler of the event of `t`. A handler's local variables are what it
read: `sweeper[s].job` is the status `findStalled` returned, never the present one.

*The chain* is external. `Broadcast` allows a transaction only if the contract
would accept it now, because the provider estimates gas first and a call that
would revert fails there; it may still revert when it is mined (`Void`), because
another was mined before it. `Void` also stands for evicted, replaced, and stuck
behind a nonce gap: the code cannot tell them apart and only ever asks the
contract for the outcome. Reorganisations of mined blocks are not modelled; the
code does not undo a status either.

*Time* is abstract: a row can be stalled in any transient state, since nothing
bounds how long a request or a transaction takes.

*Death*: `IssuerDies`, `RevokerDies`, `ListenerDies` and `SweeperDies` stand for a
crash of the process and for an exception of any await that nobody catches.
`SweepStatementFails` is one that is caught: a failing statement of the PENDING_ANCHOR job, the
row's INSERT included, ends in `bumpAttempts`.

Abstracted: the contents of documents, reasons, numbers, actors, and hashes (a
transaction hash is the record of what the transaction does). The retries of the
pin are one step, as pinning the same bytes again changes nothing.

### BatchIssuance and the code

| Variable | In the code |
|---|---|
| `job`, `processed` | `batch_issuance_job.status`, `processed_rows` |
| `row`, `started`, `link` | `batch_issuance_row.status`, `started_at IS NOT NULL`, `certificate_id` |
| `certs` | the certificates that `issuanceService.issue` inserted, in order |
| `driver` | where each call of `processBatch` stands: its row, the rows it still has to do (as read), which of them were started when they were read, the certificate it holds |

A driver is the request that created the job or a sweep that resumes it. Sweeps come
from `setInterval` without waiting for each other, and each works off the list it
read, so two drivers may hold one job; the model allows that at any time except
between the two statements of `createBatch`. `issue` is `IssueCreates` followed by
`IssueReturns` (an id, an error with `publicMeta`, or a bare error), or
`IssueRefuses`; how it fares inside is `CertificatePipeline`. A statement fails with
or without having been applied: `Throws` is the exception, caught around `issue` and
nowhere else, and `Dies` ends the driver anywhere.

Abstracted: the columns of a row become `KeyOf` (student, title, date),
`Valid` and `ByEmail`; the count of succeeded and failed rows is left out.

### ChainWriter and the code

It looks inside the `Broadcast` of `CertificatePipeline`: how a call of `anchor` or
`revoke` gets its nonce.

| Variable | In the code |
|---|---|
| `counter`, `queue` | `nextNonce` and the chain of promises behind `tail`, one of each per process |
| `at`, `hand` | the `await` at which the oldest write stands, and its `nonce` |
| `answered` | the nonces returned since the process started |
| `mined`, `slot` | the node: the account's transaction count, and the write whose transaction holds each nonce |

A broadcast ends in four ways: `SendReturns`; `SendLost`, accepted with the answer
lost; `SendFails`, not accepted and the error carries no transaction; `SendRefused`,
not accepted and the error carries it, as the errors of ethers 6 do for a call
that reverts in gas estimation, a nonce already used, and missing funds. Only the second and third give the
nonce back. The node (external) takes any nonce that is not mined, lets a transaction
replace another in the pool, and mines in the order of the nonces. `RestartWriter` forgets
queue and counter; the next reading is the count of mined transactions, without the pool.

### Registry, EventReplay and the code

| Variable | In the code |
|---|---|
| `issuers`, `records`, `totalAnchored` | the contract's storage |
| `log`, `height` | the events emitted, in order, and the block being built |
| `deployment` | the three steps of `deploy.js` |
| `row`, `asked` | `certificate.status`; the certificates whose revocation was broadcast |
| `cursor` | `worker_cursor` |
| `worker` | the locals of `startEventListener`: the range and what is still to be handled, was handled, or was lost with a refused window, and the blocks its live handlers will write |

Every function of the contract is an action guarded by its modifiers and `require`s; one
transaction is one action, as the EVM runs it. `Query` asks for the range in windows of
`MaxRange` blocks and any of them may be refused (`queryFilterChunked` goes on with the
next); `Replay` handles the events in the order of the sort; `Live` is a live event, with
the wait for its depth and the cursor write as steps; `Sweep` is the reconciler's
decision about a row that no event has settled. The provider is external: it may refuse any
window and withhold any live event. `MaxBlock`, `MaxEvents` and `MaxRestarts` bound the
chain and the restarts.

### Verification and the code

| Variable | In the code |
|---|---|
| `status`, `issued`, `revoked` | the certificate and the chain, as `CertificateTrust` moves them |
| `cache`, `writes` | `last_confirmed_chain_state`, and the `recordChainState` calls that nobody awaits |
| `req` | each request's locals: the facts read with the row, those of the chain, the outcome, the answer |
| `entries` | `verification_log` |

A request is `Arrive`, `Load`, `CheckChain` or `CheckFails`, `Compare`, `Log`, then
`AnswerVerify` or `AnswerDocument`: one per `await` of `verify`. `LoadFails` is a look-up that
throws and is answered 500; `AnswerDocument` may be answered 500 too, when the look-up of the file
throws. The fetched document is the genuine one, another one, or not to be had. Three fields of
`req` are history: whether the certificate was revoked when the request came (`wasRevoked`), whether
the cache had settled on that by then, with nothing older on its way to it (`wasKnown`), and whether the
certificate was public when it was read (`wasPublic`).

### Membership and the code

| Variable | In the code |
|---|---|
| `account` | `user_account` by e-mail: Clerk id (none while it waits for its owner), role, institution |
| `founder` | `institution`: nobody, the seed, or the e-mail that created it |
| `join` | `institution_join_request` |
| `holder` | the institution of each e-mail's `student` row |
| `session` | a request: what `requireAuth` read, and the locals of the handler |

Each statement is an action, and a request may end after any of them (`Finish`). A
UNIQUE constraint is part of the statement that would break it. `MaxOps` bounds the
requests made in all. Clerk is external: a webhook may come at any time and again.

### The pages and the code

`RegistryList`, `IssuerPages`, `WebSession` and `VerifyPages` model one mounted page each:
React state as records, effects at the action that changes what they depend on, a request
as a member of a set that is answered with what the server has when it answers and returns
when it likes. An answer to a page that is gone, or to an effect that was cancelled, is
dropped where the code drops it, and only there. Actions are the user's clicks, the
browser's callbacks and what others do on the server. `MaxClicks`, `MaxPage`,
`MaxTicks`, `MaxLoads`, `MaxStrays`, `MaxRevokes`, `MaxJobs`, `MaxMe`, `MaxCode`, `MaxEntries` and
`MaxAsked` bound clicks, pages, polls, requests on the way, batches, codes and history entries. In `WebSession` nobody
reloads a page that is still loading: the browser would only begin again.

*The list* (`RegistryList`). `created_at` is DEFAULT now(), the start of the issuing transaction, and
transactions commit in any order: `Insert` makes any row visible that is not yet, and it may come to
lie before or behind every cursor. `updateStatus` moves a row along the edges of `Lifecycle`, so
rows enter and leave every filter while the list is walked; the page keeps the status it has read
(`view.chips`). `State` is the part of the statuses an instance uses, for the rows and for the
filter alike. `q` and `year` are left out: they select as the status does, from what never changes.
`walk` is history: what each page was answered, and which certificates matched at every read up to it
(`kept`). A walk goes on over Previous, and over Back when the cursors in the ref are still
those of the pages before (`Fits`); it begins anew at page 0; and it is no walk any more (`orderly`)
in the three cases in which the ref has lost those cursors: the same filter applied again on the first
page, a mount on a later page, and Back to a list of which the ref holds another's. The browser's Forward is not modelled.

*The issuer* (`IssuerPages`). The batch page follows one job and may upload again as soon as its form
allows it, while the poll of the job before is still on its way; an upload whose job was
created and whose answer was lost leaves that job behind (`Unused` are the jobs left to create).

*The session* (`WebSession`). `lastBy` is history: whether the rotation that the server carried out
last was one the page waits for, one it has given up, one of another tab or colleague, or one that found
no institution any more.

*The verify pages* (`VerifyPages`). A refused `video.play()` leaves the stream with the scanner, which
shows that the camera is unavailable.

## 3. The properties

In `CertificatePipeline`:

- `PublicIsAnchored`, `RevokedIsRevoked`: what the database tells the public, the
  chain says too.
- `OnlyPublicIsRevoked`: however old the ACTIVE a revocation request has read, the
  row is still public when the transaction goes out.
- `PinnedBeforeAnchored`: no anchor leaves for a document that was not stored.
- `RevocationRecorded`: revocation row, REVOKE row and status stand or fall together.
- `ConfirmedIsOnChain`: a CONFIRMED row has its outcome on the chain.
- `AnchorRecorded`: a certificate that waits for its anchor or is public has an ISSUE row, and the
  latest one, which `verify` shows as proof, names a transaction that was broadcast for this
  certificate, whoever sent it and whichever answer or statement failed in between.
- `KeepsTrust`: the pipeline implements `CertificateTrust` under
  `issued <- {c : IsIssued(c)}`, `revoked <- {c : IsRevoked(c)}`.
- `IssuanceEnds`, `RevocationArrives`: liveness.

In `Registry` and `EventReplay`:

- `RegistryHonest`: the counter counts the records, the log tells each record exactly
  (one anchor, at most one later revocation, same block and account), and whoever wrote
  was an issuer by the last word of the log before it.
- `ReplaySafe`: rows follow the sealed chain; when the cursor is written every event of
  its range was handled or lies in a refused window; a replay hands out an anchor before
  its revocation; the cursor stays on a sealed block.
- `ReplaySettles`: records are kept; each step is one of `CertificateTrust`; the listener settles a row only when the event is
  `Depth` deep; and whatever it misses, anchored and revoked certificates settle.

In `Verification`:

- `AnswersAreTrue`: VERIFIED by way of the chain is never said of a certificate revoked
  before the request came; favourable answers are about anchored certificates, REVOKED
  about revoked ones, degraded answers included; a public certificate is found;
  an edited copy is never called genuine.
- `RecordsAreTrue`: the cache has been true; what is shown was public; the log says what
  the answer said.
- `RevocationIsRemembered`: once the cache has settled on a revocation, every later
  answer except a failure says REVOKED or TAMPERED, the chain reachable or not.

In `Membership`:

- `OnlyAdmittedAct`: staff, and whoever approved a request, were founder, seeded or
  approved; a certificate is shown to its holder and its institution's people; a
  person waits for one answer per institution.
- `DecisionsStand`: a decision and a founder are never replaced.

In `BatchIssuance`: `CompletedHasNoPending` (nothing is left behind by a completed job,
whoever completed it), `LinkedIsOwn` (a row shows a certificate for its own student, title
and date), `IssuedOnce` (a crash between any two statements does not issue twice: true while
drivers do not overlap, and for students known by enrolment number), `JobEnds`. In
`ChainWriter`: `QueueOrder` (a process returns growing nonces in the order of its queue),
`ReturnedStays` (it never replaces a transaction it has returned; another process may),
`EveryWriteEnds` (a failed write does not jam the queue).

In the pages:

- `WalkIsSound`: a walk from page to page shows no certificate twice; one that matched the filter
  whenever a page was read is passed over only if it was issued in the millisecond of a page
  boundary. `ListIsHonest`: each row of the table, with the status that was read, belongs to
  the filter and course of the URL; "none yet" and the last page are true of what was read.
  `LoadingEnds`.
- `StaysInTouch`: a page with something still to come is told of it, or says that it is
  not. `ControlsAreHonest`: documents and revocation are offered only after anchoring, and a
  form is disabled only while its own request is out. `WatchEnds`.
- `SessionIsTrue`: no page acts for one user on what was said of another, and a change
  of one's own is seen. `FormsAreHonest`: the code shown is the one that works, if the rotation
  that the server carried out last is one the page waits for (and not somebody else's, one it
  gave up that landed late, or one that found no institution); buttons are disabled only while asked.
  `NeverStuck`: redirects and loading end.
- `OutcomeIsHonest`: the result is of the number and file that the page names, and the page is
  never blank. `CameraStops`. `VerifyEnds`.

Several of these are conjunctions, named part by part in their modules; beside each part
stands the suffixed definition of the mistake that breaks it. Exceptions that a part states
("unless ...") are behaviours of the code, not of the model: most of them are also
refuted sentences below.

### Runs

| Run | Instance | Question |
|---|---|---|
| `issuance` | 1 certificate, 2 anchor transactions, 2 tries, 2 handlers | retries, lost answers and overlapping sweeps |
| `revocation` | 1 certificate, 2 requests, 2 revoke transactions, 1 handler, `FairSpec` | racing revocations: does every step keep the promise, and does everything end? |
| `batch` | 4 rows (1 invalid, 1 known by e-mail), 1 driver, `FairSpec` | do resumptions issue twice or leave rows behind, and does the job end? |
| `batch_double_issue` | expects a violation | does a student known by e-mail get a second certificate? |
| `writer_queues` | 3 writes, 2 processes, 1 restart, `FairWriterSpec` | which nonces do writes get, and is each answered? |
| `replay` | 1 hash, 4 blocks and events, windows of 2, depth 2, 1 restart, `FairSpec` | what can the listener miss, and does it matter? |
| `verification` | 1 certificate, 2 requests | failing look-ups, late cache writes, a chain that comes and goes, revocation meanwhile |
| `membership` | 2 people, 2 institutions, 3 tabs, 2 join requests, 5 requests | who gets in, however requests interleave? |
| `registry_list` | 3 rows (two in one millisecond; the third commits late), 3 statuses, 2 courses, pages of 1, 3 clicks, `FairSpec` | walks while certificates are issued in any order and change status, and answers that overtake each other |
| `issuer_pages` | 1 new certificate, 2 loads, 1 stray poll, 1 revocation, 2 batches, `FairSpec` | which page loses track of what it shows? |
| `web_session` | 1 user, 1 `/auth/me`, 3 codes, `FairSpec` | stale scopes, circular redirects, overtaking rotations |
| `verify_pages` | 2 numbers, 1 file, 4 history entries, 2 requests, `FairTabSpec` | retries, back and forward, tabs and the camera |

Bounds. `MaxIssueTx` and `MaxRevokeTx` bound how many transactions can ever be sent
for a certificate: two are needed for a duplicate, and the contract admits one.
`AnchorTries` is `attempts` of `withRetry` (three in the code, `EXTERNAL_CALL_RETRY_OPTIONS`);
two distinguish a retry from the last try. `MaxAttempts` is
`MAX_RECONCILE_ATTEMPTS` (five); the counter is only compared with it, so the model
stops counting there, and two distinguish "again" from "no more". Two handlers or
two requests are what a race needs. One certificate is enough
for TLC in the pipeline, the replay and verification since no action reads another
certificate's state; the proofs are for any number. In the batch `MaxCerts` leaves room for
two certificates more than there are rows, so that a duplicate can happen; its run has one driver, and two
overlapping drivers are covered by the theorems about `CompletedHasNoPending` and
`LinkedIsOwn`. The list's run has pages of one row, so that a walk over three rows has three pages, and three
of the statuses: PENDING_STORAGE, in which the late row begins, and ACTIVE and REVOKING, between which a row may
move either way and so enters and leaves both filters; its theorems are
for any page size, any set of statuses and any rows. The session's run has one user; its theorems are for any number
of them. `MaxNonce` is not reached: each write takes one nonce. Two windows, a lag
and a lookback shorter than the chain let an event lie in a refused window, before the
first cursor, and between head and subscription. Five requests let two people found, ask,
decide twice and act again. A page's bounds allow two requests on the way, which is what
overtaking needs. Deadlock is not checked: a system in which all requests have ended, whose job
is completed, or whose bounds are used up may stop.

Fairness. The pipeline's `FairSpec` covers the reconciler only. Its timer fires for ever
and each sweep picks every stalled row (`reconciler.js:161-182`): strong fairness of
`SweepPick` for each certificate, since a row picked and let go again is stalled again;
weak fairness of the steps of a handler; and handlers are not lost for ever, i.e.
crashes and unanswered chain checks end some day. Requests, listener and miners owe nothing.
`BatchIssuance`'s asks that the sweep comes again and that no statement or call fails, or
is cut short, every single time it is tried: strong fairness of each step. `ChainWriter`'s
asks that a call answers or throws in the end, as requests time out.
`EventReplay`'s asks for the worker's own steps, the platform's restart of a worker that
idles, sealed blocks and the sweep; nothing of the node. The pages' ask that `fetch`
answers or fails and that timers fire, nothing of the user; in `IssuerPages` strongly, because the
bound on loads can disable an answer that the browser would deliver.

### Sentences the code does not keep

TLC refutes each with a trace. `ClaimDoubleIssue` is a run of the project, quoted in
`findings` of `PROJECT.json`. The others are run by hand: with their own configuration where one
is named, otherwise by putting the property into the configuration of the module's run
(`EachRowItsCertificate` with `KeyOf <- Same`).

| Configuration | Property | Sentence | What happens |
|---|---|---|---|
| `ClaimDoubleIssue` | `NeverDoubleIssues` | a crash can never double-issue | the retry misses a student whom `issue` finds by e-mail |
| `ClaimRecovery` | `RecoveryBurnsNoAttempt` | finding the anchor on the chain must not burn an attempt | PENDING_ANCHOR -> ACTIVE is no legal edge: it throws, costs an attempt, and in the end the anchored certificate FAILS |
| `ClaimDropped` | `DroppedRevocationReturns` | a dropped revocation goes back to ACTIVE | it stays REVOKING; the reconciler asks for an illegal edge in each sweep |
| `ClaimAtomicRevoke` | `RevocationIsAtomic` | on-chain revocation and database change are atomic | a crash in between leaves it ACTIVE for ever |
| `ClaimChainWins` | `ChainWins` | the chain wins on any conflict | FAILED is final although the anchor is mined later |
| `ClaimDeadEnd` | `NoFalseDeadEnd` | no false dead end hides a certificate | an error while saving the success marks the row FAILED |
| `ClaimGap` | `NoPermanentGap` | a nonce that was not used is given back | not if the error carries its transaction: every later transaction waits for ever |
| | `StorageIsKeptQueued` | a certificate that was not pinned is kept queued | the first sweep fails it |
| | `RejectionIsAudited` | a rejected transition is audited first | inside a transaction the entry is rolled back |
| | `ConfirmedIsDeep` | CONFIRMED means the confirmation depth was reached | the reconciler confirms at any depth |
| | `NeverReprocessed` | completed rows are never reprocessed | a second driver goes by the rows it read when it started |
| | `CompletedIsWhole` | no pending row means every row is terminal | it may mean that the rows were never inserted |
| | `EachRowItsCertificate` | each row becomes one certificate | equal rows may end with the same one |
| | `ProcessedWithinTotal` | n of m rows processed | a count with a lost answer is made twice |
| `ClaimNeverVerifiesRevoked` | `NeverVerifiesRevoked` | never VERIFIED for a revoked document (`verificationService.js:3-4`) | degraded answers follow the last confirmed state, which may be older |
| `ClaimCacheKeepsRevocation` | `CacheKeepsRevocation` | the cache is the last confirmed truth (`verificationService.js:93`) | a late write puts "not revoked" over "revoked" |
| `ClaimNothingMissed` | `NothingBehindCursor` | nothing to miss up to the cursor (`eventListener.js:218-219`) | refused windows, shallow events and live handlers out of order lie behind it |
| `ClaimApproval` | `ApprovalProvisions` | an existing row is upgraded in place (`user.repo.js:162-163`) | the person has got a row meanwhile and the insert does nothing, or the Clerk id is on another row |
| `ClaimRole` | `RoleIsChosen` | nobody has a role before choosing one (`auth.mw.js:13`) | a webhook makes a student |
| | `NoMatchMeansNone` | "No credentials match these filters." (`RegistryPage.jsx:302`) | the course filters one page only |
| | `TryAgainAsks` | "try again" (`RegistryPage.jsx:284`) | the button changes nothing that the effect depends on |
| | `LaterPagesHaveCursors` | the stack holds the cursor of each page (`RegistryPage.jsx:43`) | after a reload it is empty, and page 3 shows page 1 |
| | `RefreshIsOffered` | then offers a manual Refresh (`useCertificateStatus.js:12-13`) | not a second time |
| | `PollIsFurther` | a different (further-along) state (`CertificateDetailPage.jsx:52`) | the poll may be behind the page |
| | `DisabledUntilConfirmed` | disabled until confirmed (`CertificateDocumentButton.jsx:11-12`) | the address changed under the page |
| | `OneCredential` | "a credential already exists" (`IssuePage.jsx:122`) | two submissions on their way make two |
| | `SharedCodeWorks` | the new code is to be shared (`SettingsPage.jsx:211-223`) | a rotation that the page gave up is carried out after its retry |
| `ClaimStaleRole` | `GuardsKnowTheRole` | guards never decide on a stale "no role" (`ClerkAuthBridge.jsx:15-17`) | when `/auth/me` fails, or before a change is told |
| | `TracksStop` | all tracks are stopped (`QrScanner.jsx:14-15`) | not one that is granted after closing |
| | `AskedByClick` | only after a click (`QrScanner.jsx:13-14`) | `?scan=1` in the address starts it |
| | `CheckedIsChecked` | "Checked against your uploaded file" (`VerifyOutcomePage.jsx:70`) | a request of another entry returned later |

## 4. The proofs

Each theorem holds for every value of the constants that satisfies the named assumption
of its module; the sets of certificates, requests, rows, drivers, people, tabs, accounts and
hashes may have any size.

| Module | Theorems | Assumption |
|---|---|---|
| `PipelineProofs` | `Invariance` (`[]IInv`), `TypeCorrect`, `PublicTruth`, `RevokedTruth`, `SentWithCause`, `PinnedFirst`, `RevocationWhole`, `ConfirmedTruth`, `AnchorRemembered`, `Refinement` (`KeepsTrust`) | `ConstantsAssumption` |
| `BatchProofs` | `BatchInvariance`, `BatchTypes`, `CompletedJob`, `OwnCertificate`, `NeverIssuedTwice` and `OneDriverIssuesOnce` (`IssuedOnce`) | `BatchAssumption` |
| `ChainProofs` | `RegistryInvariance` (`RegistryHonest`), `RecordedForGood`, `ListensToTheContract` (refinement), `ReplayInvariance` (`ReplaySafe`), `ContractStaysHonest`, `SettlesDeep`, `ListenerKeepsTrust` (refinement of the promise, step by step), `RecordsStay` | those of `Registry` and `EventReplay` |
| | `WriterInvariance`, `WriterTypes`, `NoncesInOrder`, `ReturnedIsKept` | `WriterAssumption` |
| `VerificationProofs` | `AnswersTrue`, `RecordsTrue`, `RevocationsRemembered`, `TrustGoesOn` | `VerificationAssumption` |
| | `TabInvariance` (`[]TabInv`), `OutcomesAreHonest` (`OutcomeIsHonest`), `CameraIsStopped` (`CameraStops`) | `VerifyPagesAssumption` |
| `MembershipProofs` | `AdmissionRequired` (`OnlyAdmittedAct`), `DecisionsAreFinal` (`DecisionsStand`) | `MembershipAssumption`, `NoneAssumption` |
| `ListProofs` | `ListInvariance` (`[]LInv`), `SoundWalks` (`WalkIsSound`), `HonestLists` (`ListIsHonest`) | `RegistryListAssumption` |
| `IssuerProofs` | `IssuerInvariance` (`[]IssuerInv`), `PagesStayInTouch` (`StaysInTouch`), `PagesOfferTheTruth` (`ControlsAreHonest`) | `IssuerPagesAssumption` |
| `SessionProofs` | `SessionInvariance` (`[]SessionInv`), `SessionsAreTrue` (`SessionIsTrue`), `HonestForms` (`FormsAreHonest`) | `WebSessionAssumption` |

*The pipeline.* None of the safety properties is inductive: a handler that is about to
write knows nothing about the present, only what it once read. They hold because what
the handlers rely on is never taken back: a mined transaction stays mined, a stored
document stays stored, a public certificate stays public. `PipelineInvariant` states, for
each place where a handler can stand, the facts it may still rely on (`Facts`);
`IInv` joins them to the properties. The proof first describes how each shared
variable can move, whoever moves it (`StatusMoves`, `PhaseMoves`, `RowMoves`,
`LatestMoves`, `RevocationMoves`), then that the handlers' facts survive
everybody's steps (`StagesStep` ... `SweeperStep`), then each property, then the
refinement.

*Batches.* A driver completes a job by what it read long ago, so the invariant says what
is still true of that: a driver that has read the rows has every row that is
still pending before it (`Ahead`), the certificate it holds is for its own row
(`Holds`), and nobody drives a job whose rows are being inserted (`Creation`). Rows only
ever leave PENDING, which keeps all three true while others work.

*Issued once.* The job table does not keep two drivers apart (a sweep may take up a job
that a slow driver still works on), and two of them do issue twice; so `NeverIssuedTwice` has the
hypothesis `OneAtATime`, that a driver starts after the one before it has stopped or died,
at whatever statement. `OneDriverIssuesOnce` discharges it for one driver. The invariant is `Fresh`: a row
that the driver has not seen started has no certificate, since marking it started is
committed before anything is issued (`StartedFirst`), and one it has seen started is looked up first.

*Nonces.* The counter of a process, and the nonce it has in hand, are past every nonce
it has returned (`Past`), which giving back the nonce in hand does not change.

*The contract.* "Whoever wrote was an issuer then" speaks of the past and is not
inductive. The invariant adds that the accounts that are issuers now are those whose last
registration or deregistration in the log is a registration (`IssuersByLog`), and that
revoked records exist (`RevokedExist`). The log only grows, so what was the last word before an entry
stays so.

*The listener.* Each of its steps is a step of the contract or leaves it alone, so
`RegistryHonest` and everything else proved of `Registry` carries over. `LInv` adds that
the log grows by blocks (`BlocksGrow`), that the worker knows sealed blocks only
(`KnowsSealed`), and that every event of its range is to be handled, was handled or was
lost (`Accounted`). The last one rests on the windows leaving no block out between them, which is proved from
their arithmetic for any range and window size; that a replay never meets a revocation
before its anchor rests on `BlocksGrow` and the order of the sort. `ListenerKeepsTrust` needs
one fact more, of two actors: a revocation that was broadcast may be mined at any later time, and is then
a step the promise allows only for a public certificate. `AskedArePublic` says that it is
one: the API broadcasts for active rows only, and no row stops being public.

*Verification.* Facts read from the chain stay true: anchored stays anchored, revoked stays
revoked. So every fact that is in a request, in a pending write or in the cache was true
and is so now (`TrueOf`); what a request will answer follows from the facts it holds
(`Knows`, `Decided`). For this the order in which the cache is written does not matter. For
`RevocationsRemembered` it does: `MemoryInv` says that a request which came after the cache had settled on a
revocation finds the certificate public and the revocation in the cache, whatever was written
meanwhile, since each later reading of the chain says the same, and keeps it to its answer (`Remembers`).

*Membership.* A request acts on a scope read before all of its statements. The
invariant `Fits` says what of it cannot be outdated: who was admitted to an institution
then has been admitted since, as founders and decisions stay (`Lasts`), although the person may have left. It needs
that an account belongs to the Clerk user who signs in with its address (`Owned`), else a
webhook or an approval could write into another person's row.

*The list.* `Newer` is a strict total order because the certificate's id is a primary key, so
any page has a last row (`LastIsOne`, from well-foundedness), and the page of a request is the newest part of
what lies below its cursor (`PageIsNewest`). The invariant says that each page of a walk
continues the one before: its cursor is that page's last row, and no earlier page has a row
below it (`Linked`). Nothing that the page has read is changed by a certificate that commits or moves
meanwhile, wherever it comes to lie (`DatabaseKeeps`), and what matched at every read lies, page by page, on a page,
behind the last one, or in the millisecond of a boundary (`Skip`). Back continues a walk
because the cursors in the ref are then those of its pages (`FitsLinks`). The cursor has lost its microseconds: what lies between it and the row it
was made from has that row's millisecond, and is what `SkipsOnlySharedMs` excepts. That an
overtaken answer shows nothing rests on `OneCounts`: one request at most has the number of
the effect that ran last, and it asks for what the URL shows.

*The session.* What `/auth/me` has read of a user is not kept up to date, so "what a page
shows is so" is not inductive. The invariant says of the scope and of every answer on its
way that what it says is still so, or was outdated by a change that nothing has told this
browser (`old`), or only by a choice or a departure whose own answer will load the pages
anew (`Told`); a full navigation then drops both. `OneUser` has the one request that is not cancelled
ask for the user that Clerk has. Of the rotations on their way one at most is the page's, and it
holds the last code or the code that works is not of a rotation the page waits for (`OneRotation`
and `lastBy`).

*The issuer's pages.* An answer says what was so when the server gave it, and any of them may
arrive last. What it says of anchoring is not outdated by that: a certificate that was active or
revoked is public for good (`StateMoves`, from the edges of the life cycle), so the invariant
asks of every status on the page, in the chain of polls or on its way only that whoever
calls a certificate active or revoked is right that it was anchored (`Claims`, `Truth`). A
request that has not been answered asks for a certificate that exists, which `FormsInv` traces back to
the submission. That nobody is left in front of a spinner rests on four facts that no render
breaks (`CommitKeeps`): the spinner turns while the chain of polls goes on
(`Linked`); a chain that ends leaves an outcome or the offer to refresh, unless a poll strayed
(`Stopped`, `Cut`); and a status which the poll has overtaken is loaded again (`Overtaken`).
The last one is why a poll that ends the chain can be believed: the page reads the new status or
says that the load failed. Loads and polls are bags; the proof uses only which calls are in one, so
`TypeOK` says no more of them. That no more than `MaxLoads` and `MaxStrays` are on their way is
a guard of the model, and counting a bag is a recursion.

*The verify pages.* The invariant `TabInv` has one part for each of the history, the requests and the
camera, and ties them together at the entry shown: the request that the outcome page waits
for is one of that entry (`Asked`), and the scanner is mounted exactly when its tab and entry say so
(`Opened`). `Steady` accounts for the prompts: the history field `cut` records that the camera was closed,
hidden or started again while it asked for permission, and unless it was, no prompt is orphaned,
no stream is lost, and there is at most one prompt, of a scanner that is visible.

Beyond the prover, and left to TLC: liveness (fairness and ENABLED), i.e. the eight properties
that say something ends or arrives, and in `ReplaySettles` that part of it. Every invariant and every other
action property of a passing run is proved. Not proved either: what `IssuedOnce` is worth when
drivers overlap, and the refuted sentences.

## 5. Not modelled

- Rate limiter, back-off delays, CSV parsing, gas status, certificate numbers and
  hashing: sequential functions of a few lines whose unit tests reach every branch.
- Pages that only show something (gallery, share panel, activity, landing): one
  load on mount and its display.
- The migration runner and the seed data: run once, by an operator, alone.
- HTTP parsing, validation, CORS, error mapping, health and student routes: no state. PDF
  rendering: a pure function.
- Rotating an access code is in `WebSession` as its page sees it, not in `Membership`, where
  knowing the code is a choice; the profile of an institution and the student's list are left out.
- Reorganisations of mined blocks: the code does not undo a status either.
- Of the chain adapter, `resetNonce`, which nobody calls, and balances.
- Configuration and deployment settings.

The definitions of the project stand for about a third of the lines of the implementation; most of the
rest is markup, styles, wording, validation and the parts named here.
