# Control Interno: TLA+ models

The repository is the backend of a university's internal control office: fixed
assets, the people and cost centers that answer for them, the processes that
lend, move, assign, count and write them off, and the *actas* (signed
documents) those processes rest on.  It is a NestJS application over one
PostgreSQL database; several instances may run.  All shared state is in the
database, so the concurrency that matters is that of transactions: what a
request reads under a lock, what it reads without one and uses later, and what
the minute and daily jobs do in between.

`PROJECT.json` lists the components, the runs, the lines every definition
stands for, the hazards and the theorems.  This file explains them.

## 1. The system

### Components with state that processes share

| Component | State | Operations | Talks to |
|---|---|---|---|
| Document engine (`documents`) | `document_request`, `document`, `document_signature`, `signature_envelope(_signer)` | enqueue, generate, request signatures, sign, reject, sync, retry, reassign, void, store the signed PDF | calls the owner's lifecycle (`generated`, `signed`, `rejected`) in its own transaction |
| Signing links | `signature_signing_link` | issue, send, resend, confirm identity, sign, reject, refresh, expire | the engine's sign and reject; the mail server |
| Loans | `loan`, `loan_item` | request, approve, reject, cancel, deliver, regenerate, undo, start return, receive, extend, overdue job | asset state, engine, asset requests (observer) |
| Transfers | `transfer`, `transfer_item` | create, edit, generate, cancel, signed, rejected | asset state, engine |
| Write-offs | `write_off`, `write_off_item` | create, edit, generate, cancel, signed, rejected | asset state, engine |
| Handovers | `handover`, `handover_item` | create, cancel, generated, signed, rejected | asset state, engine |
| Asset requests | `asset_request`, its items | create, accept, close, return, correct, cancel, generate, expiry job | loans, transfers |
| Assets | `asset` (status, cost center, responsible) | status change, direct write-off, guarded writes of every process | movements |
| Physical inventories | `physical_inventory`, its items, reminders and acts | schedule, remind, start, verify, report, resolve surplus, close, reconcile, cancel | assets, engine |
| Movements | `asset_movement`, a signed chain per asset | record, verify | every process |
| Mail outbox, import jobs | a row per mail or job, with a claim or lease | claim, heartbeat, retry, fail | mail server; staged rows |
| Auth | sessions, refresh families, lockout counters, a session cache | login, refresh, revoke, lock | every request |
| Feature flags | `feature_flag`, a copy and a circuit in every instance | trip, probe, recover, switch by hand, reload | every request |
| Events, permission cache | in-memory copies of rows | publish, listen, invalidate | every instance |

The others (catalogs, persons, users, dynamic fields, QR tokens, email
templates, storage, cost centers, organizational chart, depreciation, CLI,
plumbing) keep state that one request edits at a time.  `PROJECT.json` names
every one of them, with the reason it is or is not modelled.

### What makes it hard

* **The holds are asymmetric.**  Seven kinds of process may hold an asset
  (`assets/domain/asset-holds.ts`), and each checks its own selection of them:
  a loan looks at loans and write-offs, not at transfers, handovers,
  reservations or inventories; a transfer looks at everything but handovers
  and reservations; a write-off looks at everything.  What follows only shows
  when several processes meet over one asset in a certain order.
* **An acta closes weeks after it was requested.**  The process's checks are
  old when the last signature arrives, and some are repeated then, some not.
* **Reads without a lock.**  `requestSignatures`, `syncSignatures`,
  `TransfersService.cancel`, `LoansService.undoDelivery`,
  `AssetsService.writeOff`, and nearly all of `InventoriesService` read first
  and lock or write later.
* **Callbacks in a savepoint.**  The owner's lifecycle runs inside the
  engine's transaction; when it throws, the turns stay copied and the acta
  stays open, to be retried by a job a limited number of times.
* **Crashes between two transactions**: after a capture and before its sync;
  after an acta is closed and before its PDF is stored; after a mail went out;
  between the rows of an import and their movements; between a new password and
  the revocation of the old sessions.
* **Leases and claims that lapse under somebody who still works**: imports,
  mails, signing links.
* **A conversation with the mail server** that fails after the server has taken
  the mail, or never ends.
* **Locks taken in opposite orders**: a cancellation has its process and wants
  the request of its acta, a generation has the request and wants the process.
* **Copies in memory**: sessions and feature flags are decided on what an
  instance read some seconds ago, and a late reload may bring back the past.

Correctness, component by component, is what the properties of section 3 say;
the components without a module are in section 6.

## 2. The modules and the code

### DocumentSigning: one acta until it is closed

The state is the acta's row (`docStatus`, `docRef`, `docPdf`,
`lifecycleError`, `lifecycleAttempts`, `signedPdf`), its turns (`slotPerson`,
`slotStatus`) and the internal provider's envelopes (`envStatus`, `envPdf`,
`envPerson`, `envSlot`, `envBy`).  `job[w]` is what a request or a job of the
server is doing: its step and *the values it has read so far*.  A transaction
that locks what it checks is one action; everything read before the lock stays
in `job[w]` and may be stale when used.

* `RequestSignatures`, `SignatureRequestFor`, `InsertEnvelope`,
  `SaveReference`: `requestSignatures`, four steps under no common lock.
* `PrepareSignerAction`, `RereadReference`, `Capture`, `Reject`,
  `CaptureRefused`: `sign` and `rejectSignature`.  The turn is checked on the
  acta's own rows, then on the envelope's under the envelope's lock.
* `SyncSignatures`, `ReadStatus`, `ApplyStatus` / `CloseDocument` /
  `LifecycleFails`: `syncSignatures`.  The snapshot is read before the acta is
  locked.  The turns are overwritten whatever status the acta has; only the
  status itself is guarded.
* `RetryLifecycle`, `RetrySignedPdfs`, `StoreSignedPdf`, `SaveSignedPdf`: the
  minute job and the storing of the signed PDF.
* `ReassignSigner`, `VoidForEntity`: single transactions under the acta's lock.
* `Abort`: a worker dies, or an I/O error ends its request; what it committed
  stays.

Abstracted: PDF contents (a PDF is the function of turns to the people it
names), attestations and key material, sessions and identity confirmation (a
person may act or not), mail.  `lifecycle_attempts` saturates at `MaxAttempts`,
which is where the job's query stops looking at it.

### The custody modules: everything that may hold an asset

`AssetCustody` declares the shared state: three functions on assets
(`assetStatus`, `assetCenter`, `responsible`), one record per loan, transfer,
write-off, handover, request and inventory, and the actas as their owners see
them (`acta`: QUEUED, PENDING_SIGNATURE, closed; whether somebody signed).  It
defines the seven holds (`HeldByLoan`, ...) once, as `asset-holds.ts` does, the
engine's operations (`Enqueue`, `VoidForEntity`, `Generates`, `ClosesSigned`,
`ClosesRejected`), and the direct edits of an asset.

| Module | Code | Notes |
|---|---|---|
| `LoanProcess` | `LoansService`, `LoanDeliveryActLifecycle`, overdue job, the observer of asset requests | `back` is `status_on_loan`: written at the request and again at the delivery; `received` the items with `received_at` |
| `TransferProcess` | `TransfersService`, `TransferActLifecycle` | `cancel` is three looks at the transfer: `TransferCancelChecks`, `...Voids` or `...FindsNoActa`, `...Locks` |
| `WriteOffProcess` | `WriteOffsService`, its lifecycle | `cancel` holds the write-off from its first step: `cancelling[w] = "checked"` is that lock |
| `HandoverProcess` | `HandoversService` and its lifecycle | the receiver is whoever holds the RECIBE turn when the acta closes |
| `RequestProcess` | `AssetRequestsService` | extends the loans and transfers it creates in its own transaction |
| `InventoryProcess` | `InventoriesService` (start, verify, report, close, reconcile), the cancellation | every operation but `cancel` reads first and writes later: two actions each |
| `CustodySystem` | all of them in one `Next` | the properties |

The engine is abstracted here to what an owner can observe, and DocumentSigning
models its inside.  Dates, permissions, scopes and separation of duties are
left out: an operation that depends on them may or may not happen, so what is
shown holds whatever they decide.  A cancellation of a write-off and a
signature of its acta take two locks in opposite orders; PostgreSQL aborts one
of them, which leaves no trace, so these modules have only the outcomes;
`DocumentRequests` has the cycle itself.

### DocumentRequests and ActaLedger: the queue of actas and their numbers

`ActaLedger` is the promise: the book of a format and period has no gap, each
request is entered at most once and never after it was withdrawn, and no entry
changes.  `DocumentRequests` is the code: `enqueue`, the minute job
(`processPending`) in several instances, `generate`, `reserve`,
`voidForEntity`, `retry`.  A generator selects a request without a lock
(`SelectPending`), locks it and looks again (`TakeRequest`, `SkipRequest`), takes
the row of the sequence and keeps it (`Reserve`), stores the files under the
number (`StoreFiles`), locks the process and commits (`CommitGeneration`); it may
fail at each step (`GenerationFails`, then `MarkFailed` in another transaction)
or die.  A cancellation holds its process first (`StartCancel`) and then waits for
the requests (`VoidForEntity`).  The two orders make a cycle, which
`DeadlockDetected` breaks by aborting either side, as PostgreSQL does.
`LedgerIsKept` is the refinement: `count` is the committed counter, `owner` the
owners of the issued actas, `asked` and `withdrawn` the requests that exist and
those CANCELLED.  A file is modelled by whose it is, since a rolled back
generation leaves its file under the key the next one uses.

### SigningLinks: signing by e-mail

One acta whose signers have no user.  `captured` is what the envelope says of
each turn, `turn` the copy in `document_signature` on which everything about
links is decided; a sync reads the first and later overwrites the second
(`SyncReads`, `SyncApplies`), then runs `Refresh`.  A link has an order, a person
and a token; `ClaimLink`, `SendMail`, `RecordSend` are `dispatchOne`, with a claim
that lapses; `SendMail` may fail before or after the token went out;
`ConfirmIdentity`, `MistakeIdentity`, `ActByLink` are the operations of the person
who opens it; `Resend`, `ReassignTurn`, `VoidActa` those of the office.

### Behind the requests: ImportJobs, MovementHistory, MailOutbox, BackgroundJobs

* `MovementHistory`: the chain of movements of each asset.  `LastMovement` is the
  query of `record` (the latest movement that nobody follows); recording holds
  the asset, so it is one step.  What `verifyAssetChain` would report is
  `HistoryIsOneChain`.
* `ImportJobs`: a job is claimed with a lease, writes its rows in one transaction
  (`BeginRows`, which classifies, and `CommitRows`), then registers the first
  movements in chunks (`SelectChunk` before the locks, `RegisterChunk` under
  them), and finishes.  Every transaction looks at the lease first.  Meanwhile
  `AssetMoves` records a movement of any asset that is there.  `HeartbeatLapses`,
  `WorkerDies`, `FailAbandoned` and `RetryImport` are the ways to lose and repeat a run.
* `MailOutbox`: `ClaimMail`, then one of four ways the SMTP conversation may go,
  then `RecordOutcome`, which does not look at who claimed the mail since.
  `Send`: the server takes the mail and says so.  `SendFails`: it does not take
  it.  `SendFailsLate`: `deliver` (`smtp-client.ts:150`) throws after the server has
  taken it, because the answer is lost or QUIT fails; the row says FAILED and
  the mail goes out again.  `SendHangs`: the server falls silent and `expectCode`
  (`smtp-client.ts:196`) never settles; the dispatcher is lost until
  `HungRestarts`, the row keeps its claim until that lapses.  `doubtful` is
  history: the mails with a late failure, a hung or dead dispatcher, or an
  outlived claim.
* `BackgroundJobs` composes them as the worker of an instance does: imports, then
  mails, one thing at a time; and the notice of an import is queued in the
  transaction that ends it (`FinishAndNotify`, `FailAndNotify`).  A worker whose
  mail hangs does neither any more: `ImportJobsJob.running` stays true.

Abstracted: the contents of rows (a row is the asset it describes, a chunk has
one asset), signatures of movements, addresses and texts of mails.

### FeatureFlags: a module that may be switched off

`flag` is the row of `feature_flag`; `node[i]` what instance i has in memory:
the state it decides by, the failures it counts, whether a probe is out, its
writes and its reloads under way.  `Admit` is the guard, `RequestSucceeds`,
`ProbeFails`, `RequestFails`, `RequestHangs` the interceptor, `AdminSets` the
administrator; a write is begun, runs in the database, and ends in the cache
(`WriteRuns`, `WriteEnds`, `WriteMissed`, `WriteIsLost`).  `NOTIFY`, a
reconnection and the timer are the same thing here: a reload that may come at
any time (`ReloadReads`, `ReloadApplies`).  A write of an instance drops its
reloads under way (`Mutates`), which is what `writeSeq` is for.  Abstracted: one
write of the circuit of an instance at a time; times are numbers, and
`CooldownEnds` says how many of them are past the cooldown; `version` counts the
writes of the row, so that properties can speak of older and newer, and no
action looks at it.

### InventorySchedule and InventoryActs: one inventory, from plan to acts

`InventorySchedule` has a clock of half days.  `Schedule`, `Reschedule` and
`CancelSchedule` lock the inventory; a reminder is claimed, decided and finished in
a transaction that reads the inventory without a lock (`ClaimReminder`, `Decide`,
`FinishReminder`); `StartReads` and `StartSaves` are the two halves of a start.
`InventoryActs` goes on: `ItemReads` and `ItemSaves` are the operations on a
surplus that read, check and later save the whole row; `OperationReads` with
`CloseSaves`, `RequestSaves`, `ApproveAsks` and `ApproveCommits` those on the
inventory; `SetCenter`, `CreateAsset`, `AssignSigner`, `RetryEnqueue` lock; `ActGenerated` is
the callback of the engine; `AssetTransferred` moves a surplus that has become an
asset.  `expected` is the set of cost centers of the assets in scope, fixed from
the start on; it may be empty, since `start` accepts a scope without assets.
`overwritten`, `approved` and `disturbed` are history: which rows a late save took
back, whether an approval has committed (one of an inventory without items
leaves no act behind), which surplus changed while it was being approved or
afterwards.  The statements of one transaction under READ COMMITTED each see
their own state of the database; `ApproveAsks` and `SetSurplus` read everything
in one step, so what others commit between those reads is not in the model.

### AuthLockout and UserSessions: who gets in, and for how long

`AuthLockout` counts the attempts of one account, window by window and lock by
lock (`AttemptAllowed`, `AttemptRefused`, `ClearAttempts`; `CountAttempt` is the
policy).  `UserSessions` adds login, refresh, logout, password changes,
deactivation and the cache of every instance.  None of these runs in a
transaction, so each statement between two awaits is a step of `request[r]`, and
an instance may die between any two.  A refresh token is the number it has in
its family; a password is a version number.

## 3. The runs

| Run | Bounds | Shows |
|---|---|---|
| `signing` | 2 workers, 2 turns, 3 people, 2 envelopes, 1 attempt, a crash at any step | who signs what and in which order (`SignersInv`); closed actas rest on an envelope, stay closed, and their evidence stays as it was (`ClosedIsBacked`, `SettledStays`); the signed PDF is complete |
| `signing_live` | 2 workers, 1 envelope, 2 attempts, crashes while the PDF is stored | a complete envelope settles its acta, and a SIGNED acta gets its PDF |
| `custody_loans` | 2 loans, 2 assets, 3 actas | one open loan per asset; what is ACTIVE rests on the one signed acta of its loan, however often it was rejected, regenerated and undone |
| `custody_mix` | one process of every kind over one asset, in four mixes: holds (loan, transfer, write-off, handover, 3 actas), requests, inventory, edits (2 actas each) | partial checks suffice: what is held is where it was found and a write-off excludes the others (`HoldsAreSound`); ON_LOAN means out in one loan, and the reverse; nothing is left behind by its acta or loan (`FollowersSettle`); custody is kept while lent or counted; an asset comes back as it left |
| `document_requests` | 2 requests of one process, 2 generators, 2 tries, numbers to 3, one death, retry or direct acta | the queue implements `ActaLedger`; files belong to their number; the limit of tries is passed by at most the generators at work; every request is settled |
| `signing_links` | 3 people, 2 turns, 2 links, 2 dispatchers, 2 syncs, 3 tokens, one death, lapse, reassignment or resend | one open link a turn, a link that says SENT has its token in a mail, each act used up one link of its person |
| `background_jobs` | scopes `race` (2 imports that share a row, 2 movements of it), `notices` (one import, one fault before the one that stops the last worker, one doubtful mail), `instances` (2 instances, 2 upsets), `reloads` (1 instance, 2 reloads, 3 upsets) | nothing is imported or registered twice and results count right; movements are one chain; an import ends and is told of, unless every worker waits for a silent mail server; no mail is SENT that did not go out, and none goes out twice unless it is doubtful; no reload goes back behind a write; what people switched off only people switch on; circuits close again |
| `inventory_campaign` | days 0 and 1, 1 reschedule, 1 death, 1 surplus, 2 cost centers, one of them with assets in scope or none, 2 users, 1 late save or late surplus | reminders go out for the dates in force, once, and all that are due are dealt with; a surplus becomes one asset and is on one act, an act has one document, unless a late save took a row back |
| `user_sessions` | scopes `attempts` (threshold 3, time to 9) and `sessions` (1 family, 3 tokens, 2 passwords, 2 instances, 1 death or failed statement, time to 2) | attempts are bounded over any window; a token rotates once, reuse ends its family, a cache outlives a session by its TTL at most; a new password ends the sessions of the old one, but for logins that were under way and an operation that died or failed half way |
| `signing_pdf_names`, `custody_undo`, `signing_links_lost` | one property each | a violation: see section 5 |

**Scopes and mixes.**  Where the product of independent parts is too large, an
MC module fixes in the initial state which parts may act (`mix`, `scope`).
Custody has a mix for each group of processes that look at each other's holds.
In `background_jobs` the imports and the flags share nothing, and the notices
matter for one import: in the race between two, a run that fails and goes no
further stands for a death.  `inventory_campaign` follows an inventory with
reminders until it starts and one without to its acts, since a started one has
no reminders to send.  `user_sessions` follows the cache of one instance while the
other signs people out without telling it: caches never meet.

**Why these bounds.**  Two turns tell "the first", "the last" and "the next"
signer apart; two workers make every race of two handlers, and a third adds
another copy of one of them; two envelopes make the race in which each of two
requests creates its own.  The custody hazards are about *one* asset that two or
three processes want; a second matters for partial returns and disjoint loans,
and `custody_loans` has it.  There is one handover: two of them over one asset,
which their FOR SHARE locks let pass together, are not composed.  Three actas let a delivery acta be rejected and
regenerated twice.  Two generators, one with the request and one with the
sequence, and one cancellation make both the reuse of a rolled back number and
the deadlock.  Two links are a link and its replacement; three tokens let a
replaced token be replaced again while its mail is on the way.  Two imports of
one row and a movement of it are the race at the insertion and the one at the
registration; two attempts make one failure that is retried and one that is not.
A threshold of 3 with time up to 9 covers two locks with growing levels and a
reset.  One death or lapse lets every recovery happen once; a second one repeats
it from a state the model already has.  What is proved (section 4) holds for
every value of the constants and does not rest on these bounds.

**Deadlock.**  Identifiers and events are used up, so the runs with
`CHECK_DEADLOCK FALSE` come to an end that the system, with its next id and next
day, does not have.  The runs of `DocumentSigning` check deadlock.

**Symmetry.**  Workers, envelopes, links, dispatchers, syncs and each kind of
identifier in custody are interchangeable: the specifications treat all alike
and choose none.  Where a liveness property is checked there is no symmetry set;
in two MC modules the first idle one of equal requests begins (`FirstIdle`,
`FirstIdleBegins`).

**Fairness.**  Nothing is asked of people, and owners may refuse for ever.

The jobs do nothing while their feature is switched off, so every liveness
property takes its features as enabled: `document-templates` for
`CollectedIsSettled`, `SignedPdfArrives` and `RequestIsSettled`
(`document-requests.job.ts:17`), `assets` for `ImportEndsAndTells`
(`import-jobs.job.ts:25`), `inventories` for `DueIsSettled`
(`inventory-reminders.job.ts:18`).

* `FairSpec` (signing): a request that has started runs to its end.  The minute job
  (`documents/jobs/document-requests.job.ts`) does not wait for a free worker,
  which is a bound of the model: strong fairness of `RetryLifecycle` and
  `RetrySignedPdfs`.  Storing a PDF may fail, but not every time.
* `RequestFairness`: the job runs every minute and takes the requests in order; a
  generator that lives goes on; a lock that is waited for is granted in turn
  (strong fairness of what waits); the database finds its deadlocks.
* `BackgroundFairness`: a worker that is not hung runs every five seconds and
  minutes pass, so somebody does something while there is something to do or to
  wait for.  Nothing makes a send end, nor an instance restart: a hung worker may
  stay so for ever, and the others take over its imports when the lease lapses
  and its mails when the claim does.  When all of them hang nobody does, which is
  why `ImportEndsAndTells` has `AllHung` as its way out; without it TLC finds
  exactly that behaviour.  The minute job of the documents has no flag to keep:
  a link that hangs ends that tick after its transaction has committed, and the
  next minute starts a new one, so the properties of `FairSpec` and
  `RequestFairness` do not depend on the mail server.
* `ScheduleFairness`: the reminders job runs every minute.
* `FlagFairness`: requests keep coming and are answered, the database answers,
  the timer reloads, time passes.  Strong fairness of `ReloadApplies`: a reload
  takes milliseconds and is not overtaken by a write of its own instance every
  time.  `FlagsSettle` needs the timer (`FEATURE_FLAGS_RELOAD_SECONDS` not 0).

## 4. What is proved

Each theorem holds for every value of the constants, under the assumptions the
module of the component declares (identifiers such as `None` outside the sets
they stand beside, limits at least one) and nothing else.

**DocumentSigningProofs**: `TypeCorrect`, `InTurn` and `Separation`, together
`SignersInTurn` (SignersInv); `Backed` (ClosedIsBacked); `PdfComplete`
(SignedPdfIsComplete); `Final` and `Frozen`, together `Settled` (SettledStays).
`ClosedIsBacked`, for one, is decided on a snapshot that a worker read before it
locked the acta, so the invariant has to say what a snapshot can be.  `IInv` adds:

* `JobsAreReady`: a worker's record holds what its step needs;
* `SnapshotsAreOld`: what a snapshot or a captured turn says was true of the
  envelope and, since envelopes only move away from PENDING, still is;
* `EnvelopesAgree`: an envelope's status and its turns say the same;
* `SignersAreResolved`: an envelope's signers, and those a worker is about to
  write, are eligible and different from each other.

**CustodyProofs and CustodyHoldsProofs**: `CustodyTypeCorrect`,
`CustodyOneOpenLoan`, `CustodyHeldIsAtSource` and `CustodyWriteOffIsExclusive`,
together `CustodyHolds` (HoldsAreSound); `CustodyOnLoanIsOut`,
`CustodyOutIsOnLoan`, `CustodyReturnsAsItCame`, `CustodyOnLoanKept` and
`CustodyCountedStaysPut`; `CustodyActasAreSound` (ActasAreSound) and
`CustodyFollowersSettle` (FollowersSettle).

Those about holds rest on one observation about the code: a process takes hold of an asset in few places (`createWithin`,
`updateItems`, `create`, `accept`), each after it has checked the holds of others
in the same transaction; everything else only lets go.  `LoansShrink`,
`TransfersShrink`, ... say the second, `LoanTakes`, `TransferTakes`, ... the first,
and lemma `Steps` that every step of the system is one or the other, and that a
cost center changes only when the acta of a transfer is signed.  `OnLoanIsOut`
needs also that nothing is received before the delivery and that a loan
remembers lendable statuses (`LoanShape`), that no direct edit writes ON_LOAN
(`EditShape`), and that an asset that stays ON_LOAN stays in its loan (`OutKept`).
`OutIsOnLoan` is the converse: nothing but the reconciliation of an inventory
takes ON_LOAN from an asset that stays out (`OutHeld`).  It is stated for as long
as none is reconciled, which needs that a reconciled one stays so
(`InventoryShape`).
`ReturnsAsItCame` follows from what a step does to the remembered statuses
(`Remembered`).  Those about actas rest on `ActasFit`: a loan has no acta before
its delivery, afterwards it names the one main acta that can be or was signed,
and a queued one replaces it only when it is out of force (`LoanFits`); the other
processes have one acta at most and have ended as it has (`ActFits`).  The one
step for which this is not enough is the cancellation of a write-off, whose
look and whose act are two steps: that it has the row locked in between is
`CancelKnowsStatus`.  `RequestsFollow` ties a request to the one loan it ordered.

**DocumentRequestsProofs**: `RequestTypeCorrect`, `FilesAreOwn`
(StoredIsIssued), `LedgerRefined` (LedgerIsKept: the refinement of `ActaLedger`)
and `TriesLimited`.  The invariant follows the locks: the sequence has at most
one holder, whose number is the next one (`SequenceIsHeld`); a request that is
being generated has one generator and is still queued (`RequestIsLocked`); an
acta that was issued for a request is that of a GENERATED request
(`IssuedIsGenerated`); a generator that has stored its files finds them there
(`StoredIsOwn`).  Without the last, `StoredIsIssued` fails at the commit; with it
the argument is that nobody stores under a number without holding the sequence.
`TriesLimited` adds `TriesLeft`: attempts made plus generators at work on the
request stay below the limit and the number of generators.

**SigningLinksProofs**: `LinksAreSound` (LinkInv) and `ActsUseLinks`
(EachActHasItsLink), for any number of links, turns, persons, syncs and
dispatches.  Each link is sound by itself (`LinkIsSound`: what is open was taken
from nobody and has mistakes left), each dispatch has a token that was issued and
says sent when it was mailed (`SenderIsSound`), and every step but a refresh or a
resend only closes links (`LinksShrink`).

**BackgroundProofs**, the work of the jobs and the flags.

* Imports: `ImportIsSound` (ImportInv), `OneChain` (HistoryIsOneChain) and
  `FinishedStays` (FinishedIsFinal).  The invariant says that a run which has the
  job's row also has its lease (`LeaseOfRun`, `LeaseOfJob`, `LockedHolds`), how
  far a run may be given what the job has recorded (`RunMatchesJob`), that the
  rows a job inserted are those it is the origin of (`JobMatchesRows`), that each
  movement follows the one before it (`Linked`), and that the counter is the
  number of registrations (`CountMatches`).
* The outbox: `OutboxIsSound` (MailInv).  `TwiceOnlyIfDoubtful` is about the past
  of a mail, so the invariant has to count: a mail that nobody recorded was
  claimed once for each fault and once more while its claim lasts
  (`ClaimsAreCounted`), and of a mail that is not doubtful one dispatcher has the
  claim, and what was delivered is what was recorded or is about to be
  (`ClaimedOnce`).
* Both refinements of the worker: `WorkerImplementsImports` and
  `WorkerImplementsOutbox`.  Every behaviour of the worker that imports and sends
  the notices is one of the imports alone and one of the outbox alone, so that
  what is proved of these holds in `BackgroundJobs` (`WorkerIsSound`).
* Flags: `FlagsInvariance` (the inductive invariant), `ReloadsAreNewer` (FlagInv)
  and `ManualStaysOff` (ManualStays), for any number of instances, reloads and
  requests.  Each instance is sound (`NodeIsSound`): it never knows a version
  newer than the row's, its writers do only their own operations, and the reloads
  that still count are not older than its last write.

**UserSessionsProofs**: `AttemptsStayBounded` (AttemptsAreBounded), `AccessIsSound`
(AccessInv) and `OldPasswordsEnd` (OldPasswordEnds), for any number of requests,
sessions and instances, and any policy in which a lock lasts at least as long as
the window, as every entry of LOCKOUT_POLICIES does.  The bound on attempts is arithmetic on sets
of attempts: `OpenFits` says the row counts the attempts of its window, which
began with one of them, and that those which a period of one window could see
together with its beginning are few enough; `LockedFits` that after a lock nothing
is let through for a window or more.  Of sessions, `RequestFits` says what an
operation under way knows once it has read (a cache entry on its way was true
when it was looked up), `FamilyFits` which tokens a session can have exchanged.
`SessionMoves` describes every operation by what it may do to a session, a cache
entry and the request itself; each operation is shown to be one of those moves,
and the moves to keep the invariant.

**InventoryProofs**: `ScheduleIsSound` (ScheduleInv), `RemindersAreCurrent`
(SentIsCurrent), `ActsAreSound` (ActsInv) and `SurplusListedOnce`
(SurplusIsListedOnce), of `InventorySpec`: plan and acts together, without the
bounds of the run on races, transfers and changes of date.

* The reminders: a worker's reminder is pending and nobody else's, and when it has
  decided to send, its dates are still in force, because reschedule and cancel
  wait for it (`WorkerFits`); no dates have reminders before they are given
  (`PlansFit`).
* The acts: `StagedFits` says what an approval that has asked and not yet
  committed holds, against acts that others may have written since; `ApprovedFits`
  what a committed one leaves: every surplus it accounted for is on the act of
  its center and on no other.  The two support each other: an act that the
  approval did not ask for itself was ENQUEUED when it looked, and only an
  approval asks for an act first (`GenerationFits`), so another one had committed.
  Nothing undoes that, because a synchronisation keeps the acts of centers with
  items, and a close that was read earlier and is saved afterwards only goes
  through when no center with items has an act, that is when there is no such
  surplus.  That holds for any scope, one without assets included.
* Whatever is saved over a newer row is in `overwritten`; of the others
  `RegistrationsFit` and `DocumentsFit` say that the row knows what was done.

Only model-checked: liveness (`CollectedIsSettled`, `SignedPdfArrives`,
`RequestIsSettled`, `ImportEndsAndTells`, `FlagsSettle`, `DueIsSettled`), which,
with its ENABLED, is outside what the prover handles.  Every other property of
the runs that pass is a theorem.  Induction over data is not available to the
provers used, so nothing is proved about recursive definitions; the modules have
none.

## 5. Where the code and its texts disagree

Three runs that TLC refutes; `PROJECT.json` quotes the lines.

* `signing_pdf_names`: `requestSignatures` reads the PDF and the signers in two
  unlocked queries; a reassignment in between gives the envelope the old PDF
  and the new signers, so the signed PDF names somebody who did not sign.
* `custody_undo`: `undoDelivery` voids the loan's actas before it locks the
  loan.  If the loan is delivered in between, the delivery is undone and its
  acta lives on.
* `signing_links_lost`: a late sync sets the turns back, its refresh kills the
  link of the signer whose turn it is, and the next refresh makes no other,
  because the person has already had one.

Seen while modelling, without a run of their own:

* `AssetsService.writeOff` looks for open write-offs before its transaction
  (`assets.service.ts:506`); one that is opened in between does not stop it, although
  `assets.controller.ts:345` promises 409 `ASSET_IN_OPEN_WRITE_OFF`.
* `applyLost` (`inventories.service.ts:549`) writes LOST without a guard, also over
  WRITTEN_OFF, which `status-transitions.ts:25` says is final.
* The cancellation of a transfer or a write-off counts the signatures of an acta it
  does not hold (`transfers.service.ts:495`, `write-offs.service.ts:402`) and may void
  one that was signed in between, against what `transfers.service.ts:503` refuses.
* `requestReconcile` and `start` save whole rows that they read earlier
  (`inventories.service.ts:441` and `:180`): a reconciled inventory may lose its
  state, a cancelled one may be IN_PROGRESS.  The properties of reminders leave out
  the inventories that a late start has brought back.
* A send that throws after the mail server has taken the mail (`smtp-client.ts:150`)
  is recorded as FAILED and repeated (`mail-outbox.service.ts:151`): somebody may get
  the same mail, or a second signing link, with nothing crashed and no claim outlived.
* When the mail server falls silent, or closes without an error, after the
  connection is made, `expectCode` (`smtp-client.ts:196`) waits for ever: the time limit
  (`smtp-client.ts:157`) destroys the socket, which raises no `error`, and rejects a
  promise that the connection has already settled.  `ImportJobsJob` then runs no
  import and sends no mail in that instance until it restarts.
* `auth.controller.ts:351` says a session ends "de inmediato"; another instance
  knows it for up to the five seconds of its cache.
* `AssetsService.update` decides what kind of movement an edit is on an unlocked
  read (`assets.service.ts:335`, `:1074`).
* `recordSuccess` and `releaseProbe` act for any request that ends while a probe is
  out, so more than the one trial request of `docs/DEPLOY.md:718-719` may pass.
* `setEnabled` saves only the columns that differ from what it read: a manual
  disable that races an automatic recovery may be lost, against
  `docs/DEPLOY.md:722-723` ("sigue apagado hasta que alguien lo encienda").
  `ManualStays` is about what follows once the row says MANUAL.
* With `FEATURE_FLAGS_RELOAD_SECONDS=0`, a reload for a NOTIFY that is dropped by
  an own write, or two that arrive in the opposite order, leave an instance stale
  (`docs/DEPLOY.md:715`, `:726`); with the timer `FlagsSettle` holds.
* A VOIDED acta may have an open envelope; a handover may change the responsible
  person of an asset that is out after an inventory declared it LOST; a crash
  between a capture and its sync leaves a complete envelope that no job visits.

## 6. Not modelled, and the plan

Most of the repository's lines are not about shared state: formats and rendering
of documents and mails, DTOs and responses, the error catalog, the reading and
validation of spreadsheets, storage adapters, configuration, CLI, migrations and
catalogs that one request edits at a time.  A model of them would repeat them.
That is why the map covers a small share of the code and yet nearly all of what
transactions of several actors do to the same rows.

What is left that has state worth a model, in this order:

1. MFA: enrollment and the single use of codes (the counters are `AuthLockout`'s).
2. Roles: inheritance without cycles, and the permission cache, which expires
   like the session cache.
3. Photos: staged files, their links and the cleanup job.
4. Cost-center placement and the organizational chart: one placement at a time,
   no cycles, a plan that is applied to the tree it was computed for.
5. The outcomes of inventory acts after generation, and corrections of expected
   assets.
6. Event streams to browsers, and depreciation as a function over months.

Every safety and action property of the passing runs is proved.  Theorems left
are abstractions worth stating and refining: the custody modules as one lender
per asset, and a session as a token that is exchanged once.
