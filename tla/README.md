# Verification of OrcAI

OrcAI lets an organisation's members chat with bots that draw on documents and
on metered language models. This directory holds TLA+ specifications of the
parts whose correctness depends on the order of things: what runs at once, what
waits for what, what is lost, repeated or comes too late. TLC checks them on
small instances, and the TLA+ proof system proves the most important facts for
every instance.

Contents: [inventory](#inventory), [plan](#plan), [modules](#modules),
[what is checked](#what-is-checked), [findings](#findings),
[observations](#observations), [what is proved](#what-is-proved),
[what is not modelled](#what-is-not-modelled).

## Inventory

### Quota (`packages/quota`)

*State.* A pool (`quota_pool`: budget, period type, active), its periods (one
open, the others closed), a ledger row per period (budget, reserved, consumed,
remaining) and usage events: one `reserved` event per reservation, joined by at
most one `finalized` or `released` event that ends it.

*Operations.* `reserveQuotaLedger`, `recordQuotaUsage`,
`settleQuotaReservation`, `openQuotaPeriod`, `updateQuotaPool`,
`deactivateQuotaPool`, and around them `startMeteredCall` with its `record` and
`settle`; two jobs that run every five minutes, one rolling periods over and
one ending stale reservations.

*Interaction.* Every metered call (chat turns, titles, summaries, image
descriptions, web searches) runs in a server or worker process that shares
nothing with the others but the database.

*Hard.* Row locks taken in two orders; a wait that outlasts a period; the stale
job against a slow call; usage writes overtaking each other; lost answers and
retries; processes that die holding a reservation; edits of a pool in use.

*Correct when.* The running totals equal the events they stand for; no grant
exceeds what is left; a reservation ends once, and eventually; a call is
charged what it used; the open period has the pool's budget; nothing deadlocks.

### Notification outbox (`packages/notifications/src/outbox.ts`)

A row per mail with a status, an attempt count and a lease. Workers claim the
oldest due row, send, and settle it if the claim is still theirs. *Hard:* leases
that expire while sending, crashes after sending, ten attempts. *Correct when*
only the latest claim settles a row, a row reaches `sent` or `dead`, and a
deduplication key is queued once.

### Preparation (`packages/preparation`, `apps/workers/src/asset`)

An asset is processed, then indexed in every repository it is linked to, and
given metadata. Each stage has a status and a generation or an attempt that
admissions raise and jobs carry; jobs are retried, dead-lettered, or swept when
no job is left. Activity runs say whose work it is. *Hard:* a replaced attempt's
job that still runs; an attach racing completion; the sweep racing an admission;
deletion while a write is in flight. *Correct when* only the current attempt's
job completes or fails a stage, a link of a processed asset is indexed, runs are
told of the end of their own work and of nothing else, and deleted assets leave
nothing behind.

### Link points (`packages/preparation/src/link-points.ts`, `deletion-cleanup.ts`)

The row of a link is in PostgreSQL, its search points are in Qdrant, and no
transaction spans the two. *Hard:* a request that fails half-way, points served
by a completion that does not commit, clean-ups that run twice or late.
*Correct when* an indexed link is found whole and alone, also while it is
indexed again, and nothing is left of what was replaced or deleted.

### Embedding generations (`packages/qdrant/src/generation.ts`)

The active embedding model and its collection; a switch takes the generation
lock exclusively, point writes take it shared. *Correct when* no point is
written to a generation that is no longer active and none is missed by the
reconciler.

### Chat turns (`apps/app/src/lib/ai/turn`, `chat-session`)

A turn reserves a reply row, streams into it, waits for approvals, continues and
settles it. *Hard:* two continuations of one reply, a lease of ten minutes, a
settlement by id, a history read long before it is used. *Correct when* at most
one live turn owns a reply, an approved call runs once, and no reply stays
claimed or empty.

### Authorisation (`apps/app/src/lib/authz`, `effect/services/authz.ts`)

Rows live in PostgreSQL, relationships in SpiceDB; writers lock a scope that may
grow while they look, commit the rows with outbox events, then deliver the
relationships and keep the revision a reader must see. *Correct when* the two
stores agree once delivery is done and nobody keeps access that was taken away.

### The rest

Job queues (`packages/pg-boss`) are the environment of all jobs: at-least-once
delivery, retries, dead letters, singletons. Data export, asset intake, images,
bots, blocks, chats and the catalogue are request handlers of one transaction
each. The web interface, the documentation site and the tests have no protocol
state. `PROJECT.json` lists every component with what is modelled of it, and the
hazards at their lines.

## Plan

Done, in this order: members' budgets first, because every other part spends
them; the outbox, the smallest of the parts that lease work; then the parts
where several stores or several people meet.

1. `RowLocks`, `QuotaLedger`, `QuotaAccount` (what the ledger promises),
   `MeteredCalls` (the processes around it), `QuotaLedgerInv` and
   `MeteredCallsInv`, and three proof modules.
2. `NotificationOutbox` and its proofs.
3. `Preparation`, `StageWork` (what a stage promises) and `PreparationProofs`.
4. `LinkPoints` with the embedding generations and the clean-ups, and its proofs.
5. `ChatTurn` and its proofs.
6. `RelationshipWrites` and its proofs.

Left:

7. Upload runs of several calls and their leases; the lease of a clean-up;
   metadata, which is admitted and fenced as indexing is.
8. Data export, a row with a job of its own.
9. `getUtcPeriodBounds` and `resolveQuotaPool` against reference definitions.

Runs stay within small instances that finish in minutes.

## Modules

Definitions whose comment begins with "A slip" are plausible mistakes. No
action uses them: each is put in the place of the definition after it to show
that a property notices.

### Quota

`RowLocks` has PostgreSQL's row lock modes and their conflict table: a
transaction keeps every lock until it ends, and a statement waits for
conflicting ones.

`QuotaLedger` is one pool. A database session `t` runs one transaction at a time,
kept in `tx[t]`; its locks are in `held[t]`. A transaction has one action per
statement that can wait for a lock, and writes in its last step, which is sound
because it holds the locks of every row it writes until then:

| code | actions |
| --- | --- |
| `reserveQuotaLedger` | `BeginReserve` (pool lock, `openQuotaPeriod`, inactive), then `ReopenPeriod`, `GiveUpReserve`, `RefuseReserve` or `GrantReserve` (ledger lock, clock), `CommitReserve` |
| `openQuotaPeriod` alone | `RollOver` |
| `recordQuotaUsage` | `RecordUsage` |
| `settleQuotaReservation` | `BeginSettle` (event lock), `LockLedgerToSettle`, `CommitCharge` or `CommitRelease` (foreign key lock on the pool) |
| `updateQuotaPool`, with a new budget | `BeginBudgetEdit`, `CommitBudgetEdit` |
| `updateQuotaPool` otherwise, `deactivateQuotaPool` | `PatchPool` |
| an error, a deadlock victim, a lost connection | `Rollback` |

The `ledger` is the sequence of the pool's periods, oldest first; the last one is
the open one. An event's `state` summarises the usage event rows of one
reservation key. A list of steps is its tally: how many requests, how many
tokens. That is all the code compares and charges. The clock is a bounded
counter, and period bounds are constants of which only this is assumed: a
period holds the instant it was opened for. Any session may run anything.

`QuotaAccount` is the same pool without rows or locks: calls hold units of a
period and are charged or released in single steps, and what is left is computed
from the holds. `QuotaLedger!ImplementsAccount` maps one to the other: budgets to
limits, reserved events to holds.

`MeteredCalls` extends `QuotaLedger` with the processes. `client[c]` is what the
process running call `c` has in memory: the resolved mode, the granted requests,
the steps so far, and the usage writes that were asked for, whose head is being
written by the holder of the one-permit semaphore. `record` is `FinishRequest`
and then `StoreSteps`, `StoreNothing` or `DropWrite`; `settle` is `StartSettle`,
then `TrySettle` as often as its answer is lost or its transaction fails, until
`EndSettle`, `FindSettled` or `LeaveSettle`. A call may die at any moment
(`Crash`), or fail to hear that it reserved (`OpensUnheard`). A request that
finishes once its call settles is logged and charged to nobody (`FinishTooLate`).
`Recover` is the stale job, `RollOverJob` the other one, `SetMeteringMode` an edit
of the provider. All of this changes the ledger by actions of `QuotaLedger` only.

`QuotaLedgerInv` has the inductive invariant in named parts, and
`QuotaLedgerProofs` (types, locks and ownership, then rows and grants) and
`QuotaAccountProofs` (running totals, the account) its proofs. `MeteredCallsInv`
and `MeteredCallsProofs` do the same for the processes.
`MCQuotaLedger` and `MCMeteredCalls` define the small instances.

### Outbox

`NotificationOutbox` is the outbox table and its workers. `row[m]` is the m-th
row created; `worker[w]` is what the process draining the table has in memory
between its claim and its settlement, which is a snapshot of the row and the
number of its attempt; `sent[m]` is what the mail server has seen. Workers in
`Late` may miss the deadline. One worker runs `processNextNotification`:

| code | actions |
| --- | --- |
| `enqueueNotification`, `onConflictDoNothing` | `Enqueue` |
| the claiming transaction, `SKIP LOCKED` | `Claim`, `Exhaust` (`Selected`: the oldest due row that no other worker has locked) |
| payload validation | `Reject` |
| `email.send` with `Effect.timeout` | `Accept` (the server has it), then `Succeed`, or `Fail` before or after |
| `settle`, fenced by status and attempt | `Settle` |
| a worker dies, or its settlement fails | `Crash` |
| `cleanupNotificationOutbox` | `CleanUp` |

A timestamp is kept as the time left until then, so `Tick` counts down and the
state space is finite without a last instant. `lte(leaseExpiresAt, now)` becomes
`due = 0`. `MCNotificationOutbox` has its instance and
`NotificationOutboxProofs` its proofs.

### Preparation

`Preparation` is one asset in several repositories: its row, the rows that link
it, the runs and their members, the jobs, the deliveries at work, one save, the
requests that read before they admit, and the sweep. Assets share nothing but the
attempt sequence. A transaction is one action, except where another one can wait
for its locks: a completion holds the asset's row (`completing`), a job that
writes to storage holds it `FOR KEY SHARE` (`writing`), a save holds it `FOR
SHARE` after its read and the member it binds from its start. Those guards are
`RowWritable`, `NobodyWrites`, `MemberRowFree` and `SaveMayRead`.

| code | actions |
| --- | --- |
| `createAssetFromUpload`, `admit` | `Upload`, `UploadRefused` |
| `prepareAssetAgain`, `prepareRepositoryAssetAgain` | `AskAgain`, then `AdmitProcessing`, `AdmitIndexing` or `Refuse` |
| `retryFailedEmbeddings`, `reconcileEmbeddings` | `AskFailed`, `AskReconcile`, then likewise |
| `replaceBlockAssets`, `admitAdded` | `SaveLink`, `SaveReads`, `SaveCommits`, `SaveAborts`, `Unlink` |
| `deleteResources`, `deleteAccounts` | `DeleteAsset`, `DeleteAccount` |
| `startGeneration` | `StartEmbedding` |
| `processDelivery` | `Claim`, `Clear`, `BeginWrite`, `EndWrite`, `BeginCompletion`, `Complete` or `CompletionFails` |
| `vectorizeAsset` | `CheckAsset`, `ClaimLink`, `ReadExtraction`, `CompleteLink` |
| `settleAttempt` | `FailTransient`, `FailFinally` |
| `markExhausted` | `Exhausted` |
| `failStrandedStages` | `SweepReads`, `SweepReadsJobs`, `SweepReadsRun`, `SweepFails` |
| pg-boss, a dying worker | `Fetch`, `Report`, `Expire`, `Vanish`, `Crash` |

`StageWork` is what processing promises whoever asks for it: attempts one at a
time, each of which ends, and one new attempt between all the requests that saw
the end of the last. `ProcessingIsStageWork` says that `Preparation` implements
it. `MCPreparation` has the instances, `PreparationProofs` the proofs.

### Link points and embedding generations

`LinkPoints` is one link's row, the points of each attempt in each generation's
collection, its jobs and recorded clean-ups, and the tasks at work on them. A
transaction on the points holds the link's points lock and the generation lock
shared, and has a list of requests (`todo`) to send to Qdrant; each is an action
(`Requests`), and `RollBack` and `Crash` let the one under way take effect on
none, some or all chunks.

| code | actions |
| --- | --- |
| saves and admissions, as `Preparation` has them | `Link`, `Admit`, `Wait`, `Unlink` |
| `startGeneration`, `maintainCollections` | `StartGeneration`, `MaintainCollections` |
| `vectorizeAsset`, `runAttempt` | `Deliver`, `ClaimIndexing`, `Stale`, `FailTransient`, `FailFinally` |
| `embedChunks`, staging | `BeginStaging`, `CommitStaging` |
| `completeIndexing` | `BeginCompletion`, `CommitCompletion` |
| `reconcileLinkPoints` | `BeginReconcile`, `CommitReconcile` |
| `markIndexingExhausted`, the sweep, clean-ups | `Exhausted`, `Swept`, `CleanUp` |

`home`, the generation an indexed attempt's points are in, is there for the
properties alone. `Preparation` and `LinkPoints` meet in the link's row: the first
has all that changes its status and says nothing of the points, the second
lets the row change whenever the first could and follows the points.

### Chat turns

`ChatTurn` is one chat: its replies in their order, with the state of each call
they ask for and the claim of a continuation, and `turn[t]`, what a request has
read and what it streams. A turn that sends a message is `Load`, then `Refuse` or
`Reserve`, which also closes the calls of the reply that was loaded; a
continuation is `Claim`. Both go on with `Open`, `RunCall`, `AskCall`,
`EndStream` or `EndEmpty`, and `Settle`. `CutOff` ends a stream while a call
runs, `Lost` is a process that dies or a write that fails, and `Lapse` the end of
`CONTINUATION_LEASE_MS`. The answers a user gave (`answer`) and how often a call
was executed (`runs`) are kept to state the properties. A turn's metered call is
the client of `MeteredCalls`.

### Relationships

`RelationshipWrites` is one user's grants on resources in the scope of several
organisations. A write is `Begin` (the organisations it is about, read without
locks), `LockOrganization` one by one in the order of ids, then `StartOver` if
the scope grew, `RefuseWrite`, or `Write` and `CommitWrite`. Its rows and its
events appear with the commit; the events have their seq from before, so they
may become visible out of order. Whoever holds the delivery lock takes a batch
(`StartDelivery`), and each event `Land`s in SpiceDB before it is
`Acknowledge`d; `FailEvent` stops the batch, `CommitDelivery` stores what was
delivered, and `AbortDelivery` loses it, to be sent again. Both may give a request
up while it is under way (`GiveUp`): `Effect.timeout` does not cancel it, and writes
have no deadline of their own. Such a request stays in `lingering`, and may be
carried out at any later moment or never (`LandLate`). `late` has the resources
whose tuple one of them wrote after a newer event, until the next event of the
resource lands. `covers` is what SpiceDB had when it answered with the token stored
for an event. In the instances of `MCRelationshipWrites` the first resource is
granted by nobody and the second by both organisations.

## What is checked

| run | instance | properties |
| --- | --- | --- |
| `ledger_sharing` | 2 calls, 2 sessions, budgets 1 and 2, three periods | totals reconcile with events; the open period has the pool's budget; ended is ended; no lock cycle; the account is implemented |
| `calls_timely` | 2 calls of up to 2 requests, budget 3, the stale job, an administrator who switches between weeks of 2 and months of 3 instants, clock to 3 | stamps lie in their period; settled calls are charged in full; running and settling calls are not recovered; requests stay within the budget |
| `calls_untimely` | 1 call that may outlive the stale age, both modes, both jobs, an administrator, fairness | the charge lies between what was stored and what was used; every reservation ends; periods catch up |
| `outbox` | 2 rows, 2 keys, 2 prompt workers and a late one, 3 attempts, a lease of 3, a deadline of 2, an unreadable payload, fairness | a row's status is true; all attempts are used; no mail has two prompt senders; ended is ended; every mail is sent or given up |
| `prep_safety` | 2 runs, 1 request, 1 repository, 1 worker, 2 generations people ask for, 3 attempts | links follow the file; runs agree with the work; new links are admitted; the unfinished has a job; nothing is stored for the deleted; ended is ended; processing is stage work |
| `prep_liveness` | 1 run that may be deleted while a completion records its metadata, jobs that vanish, embeddings set up late, fairness | stages and runs end |
| `prep_two_failed` | 2 repositories that both fail | violated: failed links are embedded again |
| `link_points` | 2 chunks, 2 workers, 2 generations, 2 attempts, 2 faults, jobs that vanish | an indexed link is served, whole and alone; it stays found; nothing is left behind; writes stay in their generation |
| `chat_turns` | 3 turns, 3 replies, 2 calls, 2 faults | one turn works on a reply; approved calls run once; ended turns leave no claim; answers stay |
| `chat_superseded` | 2 turns, 2 replies, 1 call | violated: a closed call was not run |
| `relationships` | 2 organisations, 2 resources, 2 writes that overlap, batches of 2, 2 faults, fairness | but for late requests, SpiceDB mirrors the grants and delivered stays; grants stay in scope; tokens cover older writes; events are delivered; writes end |
| `late_write` | the same with 1 fault | violated: what a delivered event changed is not changed back by an older one |

*Why the bounds are enough.* The bounds are those at which every action fires and
every plausible mistake that is written down ("A slip") is noticed.

In the ledger every conflict is between two transactions over at most three
rows, so two sessions meet in every order; a third waiting one adds nothing new
to a lock cycle, and the proofs cover any number. Two calls and a budget of
three make the second grant partial, or refused. A clock to 3 sees a
period end before, during and after a wait, twice, which is what `GiveUpReserve`
needs, and a week end inside a month and a month inside a week: calls are booked on
both of two periods that overlap. Two requests make one usage write queue behind
another. In `ledger_sharing` and `calls_timely` tokens weigh nothing;
`calls_untimely` has them.

In the outbox three attempts are the first, one between and the last. The late
worker is the one that comes back, the prompt two are those that must not meet,
and two rows let a key be used again after a clean-up while the other is due.

Preparation needs one run whose work is replaced and one that replaces it, two
generations, an attempt for the admission, one for the save and one for the
asking again. `MaxAttempt` and `MaxSaved` bound only what people ask for and save:
what the code admits by itself is never held back, so nothing is stuck at a
bound. With one worker a slow or dead delivery still meets everything else,
because its job expires and is dead-lettered under it; two deliveries at work at
once are left to the proofs, and to `link_points` where points are concerned.
`RetryLimit` is 0, which makes every second delivery a dead letter;
duplicates come from `Expire`.

Two chunks make a request half done. Two attempts are the indexed and the next;
two workers are the job and the clean-up, dead letter or second delivery it
meets. Three turns are a continuation, one that retries it, and a new message.
Two organisations are the home of a resource and one that added it; a third
would lock in the same order.

Symmetry is used only where calls and sessions, runs and workers, chunks or turns
are interchangeable and only safety is checked.

*Deadlock checking is off* in every run because everything may have ended and
the clocks and sequences are bounded (in the outbox, time never stops).
`NoLockCycle` and `WritesEnd` are the deadlock properties of the system; in
preparation `CompletionFails` is the victim of the one cycle the code has, and
`StagesEnd` shows that it gets there.

*Being in time.* The stale job counts a reservation's age from the reservation, a
call its deadline from when its process knows of it, and the deadline ends the
call's requests but not its settlement. `Timely` therefore assumes two things of
processes, and the clock (`Pass`) waits for nothing else (`Overdue`): that one
knows of its reservation `HearTime` after it is stamped, and that it has settled
`SettleTime` after its deadline. That this is soon enough is not assumed but
follows from `TimelyAssumption`: both fit in the five minutes by which
`STALE_RESERVATION_AGE_MS` exceeds `METERED_CALL_TIMEOUT_MS`
(`call-timeout.ts:2-5`). `NoEarlyRecovery` and `FullCharge` need it; with a stale
age that forgets those five minutes the first fails (`StaleAtTimeout`). Nothing
enforces `Timely` when a process is suspended for that long, so `calls_untimely`
drops it and checks what still holds. In the outbox, workers outside `Late` give up sending at
`DELIVERY_DEADLINE_MS` and settle in the minute the lease lasts longer.
`Effect.timeout` does the first, and closes the connection (`email.ts:102`); the
second holds unless the process or the database stalls. `NoSecondSender` speaks
of prompt workers, everything else of all. In a chat a continuation may outlive
its lease, which is ten minutes where the turn's deadline is thirty: `overran`
records it, and excuses `OneAtATime`; `ApprovedRunsOnce` allows as many repeated
runs of a call as things went wrong.

*Fairness.* The clock advances. In the ledger open transactions end: a
connection answers or is closed. The retries of a settlement run out. The two
jobs are scheduled every five minutes and retried, so a stale reservation, or an
ended period, that is there again and again is taken up eventually (strong
fairness: their transactions may meanwhile wait or fail). Calls themselves are
under no obligation: a call may die, or stay open until the stale job ends it. In
the outbox, a drain that is scheduled every minute claims the oldest due row if a
worker is free; a worker stops sending (the timeout sees to that) and then
settles or dies. Nothing obliges the mail server to accept, or workers to live.
In preparation workers work, pg-boss delivers, expires and dead-letters, the
sweep and the reconciler run on their schedules, and what a request or a save has
begun goes on; a save's read, and the reconciler's, need strong fairness because
others may hold the row or change the links meanwhile. Nobody is obliged to ask
for anything. Relationship writes go on; an advisory lock is granted to whoever
waits for it in turn (strong fairness, as the queue of waiters is not
modelled); the delivery loop comes round every ten seconds and waits end.
`ChatTurn` and `LinkPoints` state no fairness: users come back or do not, and
`NothingIsLeftBehind` says what holds whenever nothing is left to do.

## Findings

`prep_two_failed`: `retryFailedEmbeddings` "embeds every failed link of the active
generation again whose failure re-embedding can help"
(`packages/preparation/src/embedding-reconciler.ts:201-202`), as one
run. If an asset failed in two repositories, the run's member row is proposed
twice in one `INSERT ... ON CONFLICT DO UPDATE` (`activity.ts:88`), which
PostgreSQL refuses, so nothing of the whole request is admitted.

`chat_superseded`: a pending call that a new message overtakes is stored as "Not
run: the user sent a new message instead." (`close-pending-tool-parts.ts:6`). The
new message closes the reply as it was read before its quota was reserved; a
continuation that approved the call meanwhile may have run it.

`late_write`: the delivery lock is "held for the whole delivery, so one deliverer
writes events in seq order" (`authz.ts:220`). A request that was given up, by its
timeout (`authz.ts:161-163`) or with its deliverer's transaction, is not
cancelled and has no deadline (`packages/spice-db/src/service.ts` sets one for
reads only). In the run it lands after its event was sent again and a newer event of
the same resource was processed, and undoes the newer one: with a grant and its
revocation, the user has access back until the next change of the resource.
`SpiceDbMirrors` and `DeliveredStays` are stated of all other resources.

## Observations

What the models show of the code that no doc denies, and that no property
therefore states:

- A write to storage is allowed while its attempt is current, and may land after
  that (`attempt.ts:84-111`): `writeWhileProcessing` does not hold the asset's
  row against a new admission. A slow write of a replaced generation may land on
  what its successor stored and completed.
- A delivery claims its attempt and then deletes what an earlier delivery stored
  (`process-asset-job.ts:147`), which no fence guards. One that stalls between the
  two while a duplicate of it completes deletes the stored extraction of a
  completed asset. Indexing then fails as `missing`, which preparing again repairs.
- A completion records metadata as its run's work (`completion.ts:112`,
  `activity.ts:87-97`). If the run was deleted with its user's account, the insert
  violates a foreign key on every retry, and the file ends failed
  (`CompletionFails`; `prep_liveness` shows that it gets there) although it was
  extracted.
- A provider's metering mode may be changed at any time
  (`apps/app/src/lib/orpc/router/provider.ts:225`) and the open period goes on, so its
  ledger may add tokens to requests, against one budget that the docs describe as
  "the maximum tokens or requests per period" (`administration.mdx:111`).
  `ChargeIsFaithful` shows that each call is still charged in the unit it reserved
  in, and `RequestsStayInBudget` is stated of periods that count requests only.
- A reply settled as paused after a later question was reserved keeps its pending
  calls in the middle of a chat: `closeLastReply` looks at the last reply with
  content only, once.

## What is proved

TLAPS proves each of these for every value the constants may have under their
named assumptions, and for any number of calls, sessions, rows, workers, runs,
repositories, chunks, turns, organisations and writers.

| module | theorem | states |
| --- | --- | --- |
| `QuotaLedgerProofs` | `Invariant` | `TypeOK` and `LedgerInv` hold always |
| | `TypeCorrect` | `TypeOK`: no amount is ever negative, rows and locks keep their shape |
| | `BudgetStaysCurrent` | `BudgetCurrent`: the open period has the pool's budget |
| | `NoDeadlock` | `NoLockCycle`: among any set of transactions, one waits for none of the others |
| | `GrantsCorrect` | a grant leaves reserved and consumed within the budget |
| | `EndsCorrect` | `ReservationsEndOnce`: an ended reservation is final, closed periods take no new ones |
| | `StampsFit` | `StampInPeriod`: a reservation is stamped inside the period it is booked on |
| `QuotaAccountProofs` | `TotalsReconcile` | `LedgerReconciles`: reserved and consumed are the sums of the events they stand for |
| | `LedgerImplementsAccount` | `ImplementsAccount`: the transactions do what an account of atomic operations does |
| `MeteredCallsProofs` | `CallsAgree` | the ledger's invariant and `CallsInv` hold always |
| | `ChargesAreFaithful` | `ChargeIsFaithful`: a call is charged between what it stored and what it used |
| | `RequestsFitBudget` | `RequestsStayInBudget`: a period of requests stays within a budget the pool had |
| | `CallsStampsFit` | `StampInPeriod` again, of calls and jobs |
| | `TimelyInvariant` | with `Timely`: deadlines are near their reservations, and live calls near their deadlines |
| | `ChargesAreFull` | with `Timely`, `FullCharge`: a call that heard its settlement succeed is charged all that finished before it began to settle |
| | `RunningCallsAreSafe` | with `Timely`, `NoEarlyRecovery`: the stale job leaves running and settling calls alone |
| `NotificationOutboxProofs` | `OutboxInvariant` | `OutboxInv` holds always |
| | `SentIsDelivered` | `SentWasDelivered`: a row that says sent was delivered by its latest claim |
| | `PayloadStays` | a row that can be sent has its payload |
| | `AllAttempts` | `GivenUpAfterAllAttempts`: a readable mail is given up after exactly `MaxAttempts` claims |
| | `MailsEnd` | `MailsEndForGood`: what was sent or given up is not reopened or claimed again |
| | `InTime` | prompt workers act on claims that are still theirs |
| | `OneSender` | `NoSecondSender`: prompt workers never send one mail at once |
| `PreparationProofs` | `TypeCorrect` | `TypeOK` |
| | `FileInvariant` | `FileInv`: what anybody has in hand of a link is good only while the file is completed |
| | `LinksFollow` | `LinksFollowTheFile`: no link is ready, at work or failed while its file is processed again |
| | `EndedStays` | `EndedStaysEnded`: an attempt that ended is never changed |
| | `DeletedStays` | `DeletedStaysEmpty`: nothing is stored for a deleted asset |
| | `NewLinksAdmitted` | `NewLinksAreAdmitted`: a link added while the file completes is admitted |
| | `ProcessingImplementsWork` | `ProcessingIsStageWork`: processing is done in attempts, one at a time |
| | `JobsInvariant` | jobs, deliveries and links agree on attempts and embedding generations |
| | `UnfinishedWork` | `UnfinishedHasAJob`: unless jobs vanish, what is unfinished has one |
| | `RunsAgree` | `RunsAgreeWithWork`: runs wait for the present work on their target, alone |
| `LinkPointsProofs` | `LinkPointsInvariant` | one transaction on the points at a time, on the active generation |
| | `WritesStay` | `WritesStayInGeneration`: no write reaches a replaced generation |
| | `SearchInvariant` | rows, jobs, clean-ups and open transactions agree with the points that are there |
| | `IndexedServed` | `IndexedIsServed`: what reads indexed is served, alone and whole |
| | `IndexedFound` | `IndexedStaysFound`: what was indexed is found whole until it is unlinked |
| | `NothingLeft` | `NothingIsLeftBehind`: with nothing left to do, only the indexed points are there |
| `ChatTurnProofs` | `ChatInvariant` | what turns have in hand agrees with the reply rows |
| | `TurnsExclude` | `OneAtATime`: no two turns work on one reply, unless a lease was outlived |
| | `AnswersStand` | `AnswersStay`: an answered call is never asked again |
| | `EndsSettle` | `EndedIsSettled`: without faults, a reply left empty or claimed has its turn at work |
| | `RunsInvariant` | runs of a call, and the turns that may still run it, stay within the faults |
| | `ApprovedCallsRunOnce` | `ApprovedRunsOnce`: only what was approved runs, and once but for faults |
| `RelationshipWritesProofs` | `ScopeInvariant` | what a write checked under its locks still stands when it commits |
| | `GrantsStayInScope` | `GrantsInScope`: nobody grants what is not in its scope |
| | `OutboxInvariant` | events whose writes shared a lock are delivered in order, and what was sent stands, or a request that was given up landed late |
| | `DeliveriesStay` | `DeliveredStays`: what a delivered event wrote is undone by newer events, or by a request that was given up, only |
| | `TokensCover` | `TokensCoverOlder`: a delivered event's token shows the older ones it shares a lock with |
| | `TuplesMirrorGrants` | `SpiceDbMirrors`: with its events delivered, a resource has its tuple exactly while granted, unless its tuple is late |

The properties' names are those of the runs; the theorems that name none state
invariants that were checked on the same instances while they were found.

*Assumptions.* The ledger's: bounds and budgets are natural numbers, and a period
holds the instant it was opened for. The calls': each has a session of its own,
what they ask for is within the bounds, a call times out before it is stale, and
what lies between is enough to hear of a reservation and to settle it
(`SessionsAssumption`, `CallsAssumption`, `TimelyAssumption`). `Timely` is a
hypothesis of three theorems, not an assumption: the code bounds a call's work by
its deadline, but not the time its settlement takes. The outbox's: the deadline is shorter than
the lease, at least one attempt. `RelationshipAssumption`: resources are finitely
many, each belongs to one of the organisations, a batch has at least one event.
The others': bounds are natural numbers, switches are Boolean, and the names for
"none" are not names of something.

*The ledger.* None of its theorems is inductive alone: a committing transaction
writes what it computed from rows it read earlier, so one must know that they are
still as they were. `LedgerInv` says why. A transaction holds the locks of the
rows it has read (`LocksHeld`), and nobody holds a conflicting one
(`LocksExclude`). So at most one transaction is on the pool, at most one writes
a ledger row, and at most one settles a reservation (`OneHolder` and the lemmas
after it). Therefore a transaction's draft stays current (`DraftsCurrent`: its
period is the newest, the periods it opened have the pool's budget), its
reservation stays its own (`CallsOwned`), and the units it is about to grant stay
there (`GrantsCovered`). With `RemainingAddsUp` a covered grant stays within the
budget. `LocksTaken` lists all the locks there are, which makes the
waits-for relation visible: a settlement's wait for the pool never blocks, because
a key share lock does not conflict with "no key update", so only waits for ledger
rows are left, and whoever holds one of those is about to commit or waits for
a row nobody else can have. `StampsFit` adds that no period, in
the ledger or about to be added, starts in the future (`RowsStarted`,
`DraftsStarted`), since the clock only goes on, and that a grant was stamped inside
the period it is about to be booked on (`GrantsTimely`), whose row nobody else
writes until then. The proofs have types first, so that later steps may
compute; then each part of the invariant, one lemma per kind of step; then the
theorems.

*The account.* `TotalsReconcile` counts units: an amount is the set of that many
pairs of its call and a number (`UnitsOf`), so that what is reserved on a period is
the cardinality of a union of sets that do not meet. One call's event changes the
union by its own units (`HeldChange`, `ChargedChange`), and a finite set by as many
elements (`UnitsAdded`, `UnitsRemoved`); what is written to the row changes as much,
because the row is the one that was read (`RowsCount` is inductive with `LedgerInv`).
In particular a settlement never takes more than is reserved, so the code's
`greatest(0, ...)` never bites. `LedgerImplementsAccount` takes each step to the
account: what the account finds taken of a period is what the row counts
(`TakenCount`), its limits are the budgets of the rows (`OpenedLimits`), and a
transaction opens at most two periods and is granted at most what it asked for
(`AllAsksBounded`). Everything but the commits is a stutter there.

*Calls.* Every step of a process is a ledger operation of its session or leaves the
ledger alone, so the ledger's invariants hold here. What a process remembers is
tied to the database phase by phase (`PhasesFit`), and to its session by what the
open transaction is about (`SessionsFit`). Tallies of one call are ordered
(`Within`): what is stored, waits to be stored or is about to be charged is a tally
of its steps so far, and what is about to be charged is none older than what is
stored (`StepsFit`, `TallyFits`), because a settlement that has begun holds the
event's row and nothing is stored meanwhile. Whoever commits the settlement, the
charge lies between the two. A call of requests makes no more than were granted,
so ending it never takes more units than it held; with `LedgerReconciles`, which
shows that these are there, and a grant covered by the pool's present budget
(`BudgetKnown`, `BudgetCurrent`), `RequestsStayInBudget` is kept by every step. That a period
counts requests only can become false and never true again (`OnlyRequestsBefore`).
`TimelyInv` adds the clock: a process knows of its reservation in time, so the
deadline it sets is no further from the reservation than `HearTime` and the call's
timeout, and while the call lives the clock is no further than `SettleTime` from the
deadline. The sum is at most the stale age (`RecoverTimely`), so a stale job settles
only for calls that no longer run, and a call whose reservation has ended ended it
for its own steps.

*The outbox.* `SentWasDelivered` is not inductive: a settlement writes what a
worker learned long ago. `OutboxInv` adds what ties the worker to the row: the
attempt in its hands is one its row has counted (`ClaimCounted`), no other worker
has the same (`ClaimsDiffer`), and what it will record is so (`ClaimTruthful`). A
new claim has a number beyond all that were counted, so it differs; a settlement
that passes the fence has the row's own count, so what it records is true of the
latest claim. `OneSender` needs `ClaimsInTime` besides: a prompt worker is on a
row that is still claimed by it and whose lease is not yet over, so the row is
not due and nobody else can claim it.

*Preparation.* A job, a delivery, a request, a save or the sweep carries an
attempt it read long ago, and may fail or complete it at any time.
`LinksFollowTheFile` survives because every such attempt that is still the link's
own implies that the file is completed (`ClaimsFollow`); a new generation draws
all links a number beyond all that anybody holds (`LinksNumbered`,
`SavingNumbered`), so it takes all their claims away at once; and what a save read
of the file under `FOR SHARE` is still so when it commits (`SavingReads`).
`EndedStays` needs to know besides that the completion under way is of the
present generation and is the only one (`Completes`), and that a link has a drawn
attempt (`LinksDrawn`), so that an admission changes the number whenever it
changes the status. The proof has types first, then one lemma per
action for the claims, then one for the rows. `DeletedStays` needs one more
invariant: whoever is writing to storage writes for an asset that is there
(`WritesForAsset`), because a write checks the attempt, holds its row until the
object is stored, and a deletion waits for that row.

`NewLinksAdmitted` rests on `SavingSaw`: from a save's read under `FOR SHARE` to its
commit nobody begins to complete the file, so either the save sees it completed and
admits its link, or the completion that follows sees the link. `StageWork`'s steps
are read off the few operations that write the asset's row (`AssetMoves`); of the
invariants it takes only that an asset that is not there has no generation
(`NoneBefore`) and `Completes`. `UnfinishedWork` must show that a job goes only when
its attempt is over. That a delivery's last word is true is `JobsFit`: no job is
for a generation to come, and a delivery knows an embedding generation no older
than its link's, the same from its claim on; so one that succeeds leaves its
attempt ended, followed by another, or of a replaced embedding generation, which
the reconciler takes up. An attempt never comes back once it was followed
(`NotAgain`, `LinkLasts`), so what holds of a job stays.

`RunsAgree` is about three records of one fact: the run's member, the target's row,
and the run that a job, a delivery or the sweep carries to tell later.
`AgreeInv` says of every carrier that, while its attempt is current, nobody but its
run waits for the target (`TellsOnly`), of jobs also that their run does (`Owed`),
and that who waits waits alone and for something unfinished (`OneWaits`). The proof
states once what a step may do to a wait (`Moves`: it ends with its attempt or its
run, goes on, or begins with an admission) and shows it of every operation; the
rest follows from attempts never coming back. A save changes what a run is bound to, and
`SavingRun` says why nobody notices: the run was bound to nothing else, and the
link it is bound to is not there before.

*Link points.* A transaction checks that its generation is active when it begins.
It is still active at each request because the switch waits until no transaction
holds the lock (`OnActive`), and one transaction at a time has the link's points
(`OneWriter`). `Numbered` keeps attempts within the sequence.

The other three need one invariant, `SearchInv`, because its parts lean on each
other. The row fixes what tasks there may be (`TaskFits`, `IndexingFits`): a
current attempt has a job, or its link asks for a replaced generation and nothing
was written since, so that giving an attempt up leaves a job, or nothing to clear.
A transaction carries the requests it is still to send, any of which may fail after
some of its chunks. So there are two kinds of facts about them. What all of them
will have brought about is stated as "a request for it is left, or it is so"
(`CompletionFits`, `Covers`); what none may disturb is a condition on each request
left (`KeepsIndexed`, `KeepsStaged`). A request that took effect on some chunks
preserves the second kind, one that took effect on all establishes the first
(`EffectOnPoints`); a rollback and a crash need only the second.
`IndexedStaysFound` then holds because some attempt is whole and no request left
names it but to serve it, or an attempt is all there and is served next (`Stands`).
`NothingIsLeftBehind` is a debt: when nothing is unfinished, the collection is
clean or a job or a clean-up is still owed (`DebtsKept`), and the reconcile that
ends the last one deletes all that must go (`ReconcileCovers`).

*Chat turns.* `OneAtATime` rests on rows: a new reply is empty until its turn ends
(`NewReplies`), a continuation can only claim a reply with content and nobody
else's live claim, and until a lease ends too early a continuation at work has the
claim (`Claimed`). `ReservedInOrder` makes a reserved reply one that nobody works
on. That there is a last held reply is shown by the well-foundedness of the
natural numbers.
`AnswersStand` holds even of turns that overlap: a call that a turn at work asks for
is new (`CallsNumbered`), so no row and no other turn knows of it (`AskedByOne`),
and nobody can have answered it when the turn stores its reply.
`EndedIsSettled` is inductive with `ChatInv`.
`ApprovedRunsOnce` is a balance (`RunsCovered`): the runs of a call, the turns that
may still run it, and one more if a coming turn may take it up, are at most
one more than the faults. A turn that takes a call up has it from one reply
(`OneReplyPerCall`) in which its answer is what the user gave (`AnswersAgree`); what
it settles no later turn takes up; and where a turn is lost, cut off or overruns, so
that the call can be taken up again, a fault pays for it.

*Relationships.* A grant is checked against the scope, and the scope may be
changed by another write before it commits. Both must hold the lock of the
resource's home organisation, which is always in scope (`HomeInScope`); locks
exclude each other (`LocksExclude`); so what a writer checked stands
(`CheckStands`), and with it the commits keep `GrantsInScope`.

The other three are about events whose writes had a lock in common, which *cross*.
While an event is open, the only newer ones that cross it are those of its own write, because that
write has the locks (`OwnEvents`). A batch is the oldest undelivered events in
order, which needs ranks in finite sets (`DueIsOldest`), and leaves none out that
a later one of it crosses (`BatchFits`). So an event is sent and delivered after the
older ones it crosses (`SentInOrder`, `ProcessedInOrder`), its token shows them, and
what was sent for a resource stands, or a newer committed event changed it
(`SentStands`), even where a delivery is lost and made again, but for the resources
in `late`: a request that lands when SpiceDB knows nothing newer of its resource
leaves what its own, newest event asks for (`LateEvents`). Last, the newest
committed event of a resource asks for what its grants ask for (`Latest`), and a
resource without events has neither grants nor a tuple (`Untouched`); with
`SentStands` that gives `SpiceDbMirrors`.

*Only model-checked:* liveness, which is out of the prover's reach, and the three
properties that fail (`FailedLinksAreRetried`, `WrittenInSeqOrder`,
`ClosedCallsDidNotRun`). Every other property of the runs is a theorem.

## What is not modelled

*Quota.* Several pools at once (every row and lock belongs to one pool; a call
resolves one pool first), audit rows, prices and costs, group assignments and
coverage, the list limits of the jobs (400 and 500), and the rarer PostgreSQL
behaviours below row locks. Amounts are unbounded in the code up to 2^53; the
instances are far from it.

*Outbox.* Rendering, recipients, error texts and the wake-up message; the delay
before a retry is any up to a bound rather than an exponential one.

*Preparation.* What files contain and how they are extracted; several calls of one
upload run and their leases; metadata, which is admitted and fenced as indexing
is, but for the run it needs; the totals shown to people.

*Link points.* A request to Qdrant is assumed to end with the process or
transaction that sent it. The reconcile the sweep asks for is not tried again, as in the code.
Uploads that arrive after a deletion, the lease a clean-up is held with, and
clean-ups of objects in storage are left out. Liveness is not checked here:
the fair graph is too large, and `NothingIsLeftBehind` covers the ends.

*Chat turns.* What the SDK does with a call cut off while it runs is external.
Keeping uploads, calls the client runs itself, several calls of one step,
citations, titles and the summary are left out.

*Relationships.* Operators'
moves of dead events, unreadable payloads, membership and ownership, several users
and the several tuples of one event are left out. Retrying after a PostgreSQL
deadlock is not needed where locks are sorted.

*Everything else* listed under [The rest](#the-rest): single transactions, object
storage, presentation. `PROJECT.json` says why for each part.
