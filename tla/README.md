# A formal model of the StarPass backend

StarPass sells time-limited passes to the content tiers of creators. Passes are
minted by a Soroban contract on Stellar; this backend (NestJS, Prisma on
PostgreSQL) sells some passes itself, renews them, follows the contract's events
and serves the result. This directory holds TLA+ modules of the parts of it in
which state, concurrency and failure meet, the TLC runs that check them on small
instances, and TLAPS proofs of the most important theorems for every instance.

Source paths below are relative to the repository's `src/` directory.

## 1. The system

### Components, their state and their operations

| Component | State | Operations that change it | What makes it correct |
|---|---|---|---|
| **Passes: sales** (`passes/passes.service.ts`) | `Pass`, `EarningsRecord` rows | `giftPass`, `purchaseBundle`, `mintPass` | money recorded = passes sold; all or nothing; a trial closes its tier; the right payer |
| **Passes: tier change** (same file) | `Pass.active`, `supersededBy` | `changeTier` | one pass never becomes two; the chain of successors is sound; the remaining value is kept |
| **Passes: expiry and renewal** (same file, `passes.scheduler.ts`) | `Pass.active`, `autoRenew`, `RenewalAttempt` rows, charges on chain | two hourly crons, `toggleAutoRenew` | every charge is accounted for; a success is one new pass; overlapping runs do not collide; expired passes get closed |
| **Fans: deletion and export** (`fans/fans.service.ts`) | `Fan` timestamps, the fan's and the user's rows | `requestDeletion`, `anonymizeFanData`, `permanentlyDeleteFan`, `requestDataExport` | the first request stands; nobody is erased unasked; what is erased stays erased; one export a day |
| **Indexer** (`indexer/indexer.service.ts`, `upsertFromChain` of tiers and passes) | `IndexerCheckpoint`, `Tier`, `Pass`, `EarningsRecord`, `User` rows, the job map in memory | polling, `startReindex`, `startReplayHistory`, four event handlers | the rows are a projection of the events; nothing behind the checkpoint is lost; replays are harmless |
| **Stellar client** (`stellar/stellar.service.ts`, `common/rate-limiter.ts`) | circuit breaker, rate limiter, the records in `txStore` | the queries by `withRetry`, `isHealthy`; `renewPass` by `execute`, `submit` and `poll` | the breaker says what the last answers were; a renewal is charged once; records are true |
| **Tiers** (`tiers/tiers.service.ts`) | `Tier`, `TierContentKey`, `TierContent` | `bulkCreate`, `upsertFromChain`, `reorderTiers`, `createTierContent`, `rotateTierContentKey`, `unlockContent`, `getFanEncryptedContentKey` | key versions do not collide; content can be decrypted; access ends with the pass; an order is one request's |
| **Creators** (`creators/creators.service.ts`, `scheduler.service.ts`) | `Creator`, `Block`, `ContentSchedule`, `ApiKey` | registration, profile edits, blocks, scheduled content, API keys | a schedule is activated once and announced once to those who hold a pass |
| **Analytics** (same file, `tiers.service.ts`) | none: computed from `Pass` | `getRevenue`, `getAnalytics` of creators and tiers | figures shown beside each other agree |
| **Webhooks, notifications** | `WebhookConfig`; rooms and mail | delivery, one call per hook; output | a removed hook hears only of what was being announced at its removal |
| **Cache** (`common/cache`) | Redis keys | interceptor, invalidation | what is shown is not staler than its lifetime |
| **Authentication** (`auth/`) | `User`, `Session`; signed tokens | login, refresh, logout | access ends soon after its session |
| **Reports, admin** | `Report` rows; flags of a creator | a report, the daily limit; resolve, verify, feature | the limit holds but for requests that race |
| **Search, categories, GraphQL, health, metrics, dev** | counters | reads only | — |

### How they interact

All components share one PostgreSQL database; that is the only lasting state.
Requests, crons, the poll timer and re-indexing jobs are asynchronous functions
of one Node process: each may be interrupted at every `await`, and every other
one may run there. Prisma's interactive transactions run at PostgreSQL's default
isolation (Read Committed): a statement sees what has been committed, an update
takes its row's lock until the transaction ends, and nothing that was merely
*read* is protected. Renewal calls the chain from inside such a transaction.
The chain reaches the database only through the indexer; the two name passes
differently (a sale by the API invents an `onChainId`), so the two halves below
meet in the tables `Tier` and `Block` and are modelled separately, the active
flag of a tier being an input of the first half.

### What is hard

* **Check, then act.** `changeTier`, `giftPass`, `purchaseBundle` and
  `requestDeletion` validate rows that another request may change before the
  write; several of the writes are unconditional.
* **A remote call inside a transaction.** A charge takes up to thirty seconds;
  Prisma ends the transaction after five. The charge may succeed, fail, or be
  submitted with an outcome nobody sees; the process may die at any point.
* **Overlap.** The crons do not wait for their previous run, and the two of them
  fire at the same minute and want the same rows.
* **At-least-once events.** The poller fetches its checkpoint's ledger again, jobs
  fetch whatever range an administrator asks for, and workers interleave.
* **Failures that look like answers.** `getContractEvents` returns `[]` on error.
* **Shared memory.** Callers of the Stellar client share a breaker, a limiter and the map of
  transaction records, and go on after every `await` with what they had read.
* **Several statements, no transaction.** Erasing an account, handing out a key, activating a
  schedule and caching a profile are sequences of statements that others interleave, a restart
  cuts short, and foreign keys refuse or cascade.

The complete list, each at its line with the properties it is covered by, is
`hazards` in `PROJECT.json`.

## 2. The modules

```
PassTable            shared tables and rules     EventProjection   abstract: what the
  PassPurchase       giftPass, purchaseBundle                      indexer promises
  PassTierChange     changeTier  (Proration)     Indexer           poller, jobs, handlers
  PassRenewal        auto-renewal, mintPass        IndexerProofs   rows, earnings, checkpoint
  FanDeletion        requestDeletion             MCIndexer         small instances
    PassLifecycle    the composition, properties
      MCPassLifecycle       small instances
      PassLifecycleProofs   types, links, closed passes, earnings
        PassRulesProofs     charges, value, forks, trials, bundles, figures
      PassAnalytics         the figures computed from these rows

UserSessions         login, refresh, logout      TierCatalogue     creation and order of tiers
  FanErasure         export, deletion, sales       TierContent     keys, content, tokens
    Accounts         the account of a wallet         ContentSchedule  activation and notices
      AccountsProofs what erasure and tokens           CreatorContent   the composition
                     keep to                             MCCreatorContent
                                                         ContentProofs  order, keys, tokens, notices
ProfileCache         profile and its copy
  PartnerAccess      webhooks, API keys
    CreatorDesk      with the reports            PassCharge        abstract: what a renewal
      DeskProofs     copies, hooks, limits                         relies on
StellarRpc           breaker and rate limiter    TxSubmission      execute, poll, txStore
  StellarRpcProofs   breaker and overrun           TxSubmissionProofs  the client's promises
```

### The pass lifecycle

`PassTable` declares the rows as variables. Time is counted in days from 1, so
that 0 is a null timestamp; a pass is its index in `passes` (rows are never
deleted here), so that 0 is a null reference. Four fields are history:
`via`, the handler that created a row; `from`, the pass it replaces; and two counts of rows that say when the
handler had looked: `found`, when it found the pass it replaces open, and `seen`, when it read the fan's prior
passes. They say of a row whether its request overlapped another, which no row of the database tells. The
module also holds the rules every sale shares (`TrialSpent`, `SoldPass`), the
row updates both replacing handlers make (`Replace`), and the one-statement
handlers: `DeactivateExpiredPasses`, `ToggleAutoRenew`, blocks, the indexer's writes
to the active flag. `locked` is the set of rows updated by an open transaction; a
statement that updates such a row waits.

Each other module adds one handler and the requests it has in progress, a record
per slot, as `purchase[w]` or `run[r]`:

* `PassPurchase`: `GiftRead` and `BundleRead` are the reads before the
  transaction; `BundleMint` is one turn of the loop inside it, which reads the
  committed passes; the commits make the rows visible together with the earnings
  records. `PurchaseFails` is any failing statement and a restart. The two reads of
  a handler, tiers and blocks, are one step: the commit looks at neither again,
  so the later of them can be taken for both.
* `PassTierChange`: `ChangeRead` is everything before the transaction, with the
  arithmetic of `Proration`; `ChangeCommit` writes unconditionally, as the code does.
  Prices are whole units and the division is exact; the code's floating point
  could differ by one day where the quotient is an integer.
* `PassRenewal`: a renewer goes idle → loop → begun → charged → minted → loop, or
  through failed and recorded, the catch block. `begun` is the first update of the
  transaction, which takes the lock. `ChargeSucceeds`, `ChargeFails` and `ChargeUnseen`
  are `renewPass` as its caller sees it; `UnseenSettles` is the ledger deciding later.
  `RenewalTxExpires` is Prisma's time limit, which the run notices
  only at its next statement (`RenewalFindsTxClosed`). `RunLost` ends one run at any
  point; a restart, which ends them all, is several of these.
  The renewed row has `autoRenew` at the schema's default, `false`, because
  `mintPass` does not copy it. An admin secret is assumed to be configured: without
  one the code charges nothing and makes up a hash. The random `onChainId` of a new pass
  is assumed to be unique.
* `FanDeletion`: the check, then the transaction.

`PassLifecycle` lets the steps interleave; an empty set of actors leaves a
component out. It states the properties.

### The indexer

The chain is a constant `Log` of events that becomes visible as `tip` moves.
`PollBegin`, `PollFetch`, `ProcessEvent`, `PollSave` are `processNewEvents`; `JobFetch`, `JobNextLedger`,
`JobDone` are the loop of a job, whose every turn fetches *all* events from its ledger on.
A worker (the poller or a job) holds a page and what its handler
has read. `handlePassMinted` is split where others can interfere, between its reads
(`PassMintedRead`) and its write (`PassCreated`, `PassUpdated`, `PassRefused` for the unique
index or a spent trial); the other handlers are one upsert. The reads
themselves are one step. `seen` is history: the passes that had rows (`Stored`) at the look-up. `PriorRows` counts rows that came from the chain.
`EarningsWritten` is the insert `upsertFromChain` does not await. Event values have the shape the
code's tests use. A job that replays a period is modelled from its
ledgers on; the search for them is in the plan. A first poll with checkpoint 0
asks for events from ledger 0, which an RPC node may refuse: that is the `"rpc"` fault.

`EventProjection` says what the indexer promises and not how: a row appears only for a
pass that the contract has minted, with its fan, and never
vanishes or changes hands. `Projection` in `Indexer` is the refinement mapping.

### The Stellar client

`StellarRpc` is `withRetry` over `RateLimiter.acquire`. Time is kept as *ages* (ticks since a stamp was
taken, up to the window), so that it never ends and the states are finite. `AcquireWait` and `AcquireWake` are
the sleep in `acquire`, after which the caller takes a slot without counting again. `QueryAnswered` and
`QueryFailed` are the two ends of an attempt; `OnceAnswered` is `isHealthy` and the fee event,
which take a slot but leave the breaker alone. In `hasValidPassOnChain` a slot stands for two
requests; the model counts slots.

`TxSubmission` is `renewPass`. A hash is a pair of call and attempt; the ledger (`Apply`, `Expire`, `OtherTx`) is external and
applies a queued transaction with the next sequence number or never. `Ask` takes the node's answer, which may
be old when `AnswerSuccess`, `AnswerFailed` or `AnswerPending` acts on it; `AnswerLost` is a query that throws. `SubmitFails` covers
every other error, also one after which the node has queued the transaction, and a
sequence error whose text the client does not recognise. `order` is the order of
insertion of the shared map, from which `renewPass` takes the *first* success
(`FirstSuccess`). `PassCharge` is what `PassRenewal` assumes of all this.

### Tiers, content and schedules

`TierCatalogue`, `TierContent` and `ContentSchedule` share the rows of one creator's tiers and a set of
requests; each request serves one operation once, so that their number is the bound, and an answered
request forgets what no property speaks of. `ReorderUpdate` is one update
of Prisma's batch transaction and takes a row lock; `ReorderDeadlock` is PostgreSQL ending one of two
transactions that wait for each other. `ReadKey` is the look-up that content creation and key
rotation share, `RotateKey` and `CreateContent` the writes. `KeyAsked`, `KeyFound` and `KeyHanded` are the three
reads of `getFanEncryptedContentKey`. A content token counts its ticks; `gone` is the history that
says how long its fan has been without a pass. `RunStart` to `RunEnds` are `activateDueContent`,
whose clock is read once, at its start: a pass that expires while it goes on still counts
(`late`). The batch of due rows is taken in any order. Passes are input here: each goes through sold, expired and closed.

### Accounts

`UserSessions`, `FanErasure` and `Accounts` follow one wallet. Rows have ids that are never used again, so that a
statement that names an old id meets a foreign key or matches nothing. `EraseFan` and `EraseUser` are
the two statements of `permanentlyDeleteFan`: a pass makes the first one throw
(`Pass.fan` restricts), earnings records go along (`EarningsRecord.fan` cascades), and
so do, with the user, sessions, the creator row and a fan row that was made in between. `Bought`, `Gave` and `ChainFan`
are the upserts by which sales make rows again. The guard accepts an access token by its
signature and age only (`Accepted`).

### The creator's desk

`ProfileCache` has the profile as a version number and its copy in Redis with an age; `GetRow` and
`GetStore` are the miss path of the interceptor, `UpdateRow` and `UpdateDrop` the edit and the
invalidation, `EditQuietly` the edits that forget it. `crossed` is history: an
invalidation fell between the read and the store. The application imports the cache module nowhere; it is modelled as its
own tests set it up. `PartnerAccess` adds webhooks and API keys: an announcement lists the hooks and calls them one by one
(`Send`), while others register and remove. `listing` and `heard` are history: the announcements that had still to call a hook at its
removal, and the calls it got afterwards. `CreatorDesk` the daily limit on
reports.

`PassAnalytics` computes the figures a creator is shown from the rows of `PassLifecycle`, so that they
are checked on every set of rows that sales, changes and renewals can make. Time is counted in whole days: everything
happens at midnight, where the code puts the edges of its intervals (`creators.service.ts:408`). What is bought or
expires *within* a day is not in the instances, so that an interval that counts an edge by the hour is not told from one that counts it by the day.

### External

PostgreSQL's locks, Prisma's time limit, the contract and the RPC node are not in
this repository. They are modelled from how the code uses them (`locked`, `Unlock`,
`RenewalTxExpires`, `UnseenSettles`, `CloseLedger`, `Apply`, `ReorderDeadlock`) and marked `external` in the map.

## 3. The runs

| Run | Asks | Answer |
|---|---|---|
| `sales` | Two overlapping purchases (gifts, bundles) beside tier changes, over tiers of two creators who share a chain id, one tier with a trial that may be withdrawn: do money and passes match, when is a pass sold beside a trial, is a bundle as many tiers as ids? | the books and bundles are right; beside a trial only if the request had looked before the other was committed; 1 608 000 states |
| `renewal` | Two overlapping renewal runs, charges that fail or are unseen, transactions that time out, runs that are lost, fans blocked meanwhile: is every charge explained, every success one pass, does everybody get on? | yes, with fairness, 9 900 states |
| `together` | One actor of every kind and a sale they all want, over three days: are links sound, when does a pass become two, does anything reopen what another closed, is the value of a pass as sold kept, and do the figures that creators are shown agree with the rows and the books? | yes, and a pass becomes two only by overlap; 668 000 states |
| `indexing` | Poller and a job over a tier's whole life, with a restart: is everything indexed, does no sale earn twice, does every job end? | yes, with fairness |
| `indexing_faults` | Poller and a job, failing calls and statements, full pages, a trial, a block, a restart, an unknown creator: is what is stored still a projection, and when is a second pass stored beside a trial? | yes; only if neither worker saw the other's row; 816 000 states |
| `rpc` | Two callers interleave in retries, breaker and limiter: what does an open breaker mean, how much is sent past breaker and limiter, does every call end? | as stated, with fairness, 243 000 states |
| `submission` | Two renewals compete for one account's numbers, answers are late or lost: is nobody charged twice, are records and answers true, does the client implement `PassCharge`? | yes, 251 000 states |
| `content` | Three requests or scheduler runs of any kind: do keys, content, tokens, notices and order stay consistent, and does everything end? | yes, with fairness, 292 000 states |
| `accounts` | Three requests of any kind on one account beside sales: does deletion do what was asked, and no more? | yes, 745 000 states |
| `desk` | Four requests of any kind around one creator, Redis and the database failing once: how stale is a profile, what does a removed hook still hear, does the limit on reports hold? | as stated, 760 000 states |
| `renewal_missed`, `erased_earnings` | Does the code do what its documentation says here? | no: section 6 |

**Bounds.** Actors: two of a kind where two of a kind is the question (purchases,
renewal runs), one elsewhere; every race in these handlers is between a read
and a write of one request and one write of another, which two requests show.
Two fans are needed for gifts only. Two tiers are the least with a
trial and a plain one, a cheap and a dear one; `sales` has a third, of another creator and with the first one's chain id, so that
a bundle for two ids may find two tiers of one id. `MaxSales` and `MaxPasses`
leave room for a sale, its replacement and one more, so that chains of
replacements arise (in `sales`, for a trial, a change and a sale beside it). `MaxSales` bounds the requests as well as the rows: a purchase begins
only where its rows could still be added. `together` has one sale, whose pass is then wanted by a change and by a run on each of three days,
and expires or not between them, by its tier; `MaxNow` lets a pass be sold, expire and be renewed; `MaxAttempts` is one
scan per pass *and run in progress*, so that two runs overlap on the same
pass. In `renewal`, which has liveness, the table must never be full, or the bound alone would hold a run at its commit: one sale, due on the third
day or the fourth, the last, and its renewals by two overlapping runs, due after that, are the three rows of `MaxPasses`. A ledger more than the log's last event changes nothing for the indexer; a log has the
fewest events that let a tier be opened, sold and closed and a fan buy twice.
Two callers have the code's three attempts and its threshold of five, so that only the failures of both
open the breaker while retries are under way; a limit of one in a window of two ticks makes waiters wake together. Two
renewals with three attempts and two foreign transactions give every order of numbers, and two polls
outlast or miss the ledger's decision. The figures are checked for a period shown by the day and one
shown by the week, a week being two days. In `content`, `accounts` and `desk` a request is any
operation, so that three of them (four at the desk) are every pair of overlapping
operations before or after a third; one fault falls between any two statements. Lifetimes are the smallest
that differ: a token outlives a tick and not two, cooling off is longer than a request takes.
Purchasers are symmetric in `sales` (`PurchaserSymmetry`), which has no liveness. Deadlock checking is off: at
the bounds everything may be done.

**Fairness.** `Fairness` of `PassLifecycle`: a renewal run's next statement is executed if the
process lives and it is not waiting (weak fairness of `RenewalStep`), and the
cron's update gets its turn (strong fairness: it may wait for a lock
again and again, but PostgreSQL queues waiters in order of arrival, and the
cron comes back every hour). No request is assumed to be made and no remote
outcome to be favourable. `FairSpec` of `Indexer`: the poll timer and an awaited call go
on (weak fairness of each worker). Nothing is assumed of the unawaited earnings record, of restarts
or of the chain. `StellarRpc`: timers fire and an awaited call is answered or fails
(weak fairness per caller, and of the clock, since the sleepers count on it). What `TxSubmission` promises is safety, and
needs none. `CreatorContent`:
some statement in progress is always answered (weak fairness of all of them together), which is why
`EveryRequestEnds` says that work in progress always runs out and not that each request is served first.

`EveryRunEnds` and `ExpiredGetsClosed` hold because a row lock is always given back: by
a commit, a rollback, the time limit or the loss of the run.
`EventuallyIndexed` and `CheckpointCovers` hold for a client whose calls do not fail and
pages that are not full; section 6 says what happens otherwise. `EveryCallEnds` of `StellarRpc` holds because
attempts and sleeps are bounded, though slots are given to whoever wakes first.
`EveryRequestEnds` rests on PostgreSQL ending one of two transactions that wait for each other (`ReorderDeadlock`, external);
what it asks of the code is that whichever way a request ends, by an answer or by an error, it gives its rows back.

## 4. The proofs

All theorems hold for every value of the constants that satisfies the named assumptions of the module, which are types and
finiteness; where a theorem needs more, its hypothesis has a name and section 5 says what happens without it.

| Module, assumption | Theorem | What it states |
|---|---|---|
| `PassLifecycleProofs` (`TableAssumption`, `RenewalAssumption`) | `TypeCorrect` | `[]TypeOK` |
| | `ClosedForGood` | `ClosedStaysClosed` |
| | `SupersededSound` | `[]SupersededConsistent` |
| | `BooksSound` | `[]BooksRight`: `EarningsMatchSales` and `PayerIsOwnerUnlessGift` |
| `PassRulesProofs` (the same; `AnalyticsAssumption`) | `ChargesExplained` | `[]ChargesAccounted` |
| | `SuccessIsRenewal` | `[]SuccessMeansRenewed` |
| | `ValueOfSoldPassKept` | `SoldPassKeepsValue` |
| | `ForksNeedOverlap` | `[]ForkedByOverlapOnly` |
| | `TrialRuleSound` | `[]TrialClosesTier` |
| | `BundleSoldWhole` | `BundleWhole`, for finitely many tiers |
| | `FiguresSound` | `[]FiguresAgree` |
| `IndexerProofs` (`IndexerAssumption`) | `IndexerTypes` | `[]TypeOK` |
| | `EarnedOnceSound` | `[]EarnedOnce` |
| | `ProjectionImplemented` | the refinement of `EventProjection` |
| | `TrialSharedByOverlapSound` | `[]TrialSharedByOverlapOnly` |
| | `CheckpointCoversSound` | `[]CheckpointCovers`, if `Undisturbed` |
| `TxSubmissionProofs` (`SubmissionAssumption`) | `ChargedOnceSound` | `[]ChargedOnce` |
| | `TruthfulSound` | `[]ClientTruthful` |
| | `ChargeImplemented` | the refinement of `PassCharge` |
| `StellarRpcProofs` (`RpcAssumption`) | `BreakerSound` | `[]OpenMeansFailures` |
| | `NoWayBack` | `OpenForGood` |
| | `OverrunSound` | `[]OverrunBounded` |
| `ContentProofs` (`ContentAssumption`) | `OrderSound`, `KeysStaySound` | `[]OrderOfOneRequest`, `[]KeysSound` |
| | `TokensEndSoon`, `NoticesStayRight` | `[]AccessEndsSoon`, `[]NoticesRight` |
| `AccountsProofs` (`AccountAssumption`) | `ErasedForGoodSound`, `AccessEndsSoonSound` | `[]ErasedForGood`, `[]AccessEndsSoon` |
| | `ExportsSpacedSound`, `NobodyErasedUnaskedSound` | `[]ExportsSpaced`, `NobodyErasedUnasked` |
| `DeskProofs` (`DeskAssumption`) | `CacheSound`, `RemovedHookSound`, `ReportsSound` | `[]ProfileFresh`, `[]RemovedHookFades`, `[]ReportsBounded` |

*The inductive invariant.* `TypeOK` alone is not inductive: a commit writes a row that an
earlier step built and closes a pass that an earlier step chose. `TypeInv` adds `RequestsSound`:
a change in progress names an existing pass and its owner, a run past its
first statement works on an existing pass, and the row in its
transaction is for that pass and its fan. It also adds that the table
respects its bound, which makes the index of a new row a legal one. That the requests stay sound although the table changes under
them rests on what *every* step does to the table, `TableStepOK`: rows keep their fan, origin and predecessor (`RowsKept`), none is
reopened, and links are made to new rows only (`LinksSound`). Each component has a
lemma that its steps preserve `TypeInv` and satisfy `TableStepOK`; `TypeInvStep` puts
them together, and `ClosedForGood` and `SupersededSound` follow from it and `TableStepOK`.

*The charges.* `ChargesCovered` is `ChargesAccounted` pass by pass, with the runs that are settling a pass counted by
`Cardinality(Settling(p))`. `SettlingMoves` says how that number changes when one run moves; every step is then
`Balanced`: what it adds to the charges of a pass it adds to the outcomes that are told or to the runs that will tell them.
A run that is lost is one fewer settling and one more orphaned. `SuccessCounted` is an equation between
two counts: only `RenewalCommit` adds to either, and it adds one to both (`RenewalAdds`; every other step adds
rows of another origin).

*What a change gives.* `SoldPassKeepsValue` is about the step that commits, but the days were computed when the request began,
perhaps days before. The invariant `FullTerms` says that a pass that no change has made lasts exactly its tier's duration, so that the
rest of the proof is the arithmetic of rounding down.

*Forks and trials.* Neither theorem has a hypothesis about who overlaps whom; the history says it instead. `ForkInv` says of each
change or run in progress, with `found` or `listed` as the number of rows it had looked at: whatever has replaced its pass since then is a later row
(`OpenSince`), and a pass that has been replaced is closed (`ReplacedClosed`), so that a request that finds it open has nothing
before it. A commit may then add a second successor, but only one that had looked before the first was there. `TrialInv` says the same
of sales: among the rows that were there at a look-up none speaks against the row that was built from it, be it still in its transaction (`RowsLookedSound` for the committed ones).
A tier change makes no such look-up, which is why the rule is about bundles and renewals.

*Bundles.* The look-up selects tiers by the ids and compares the numbers, so what is built has as many rows as ids were asked for, on
different tiers that have one of these ids; `BundleWhole` follows, as the loop takes each tier once and the commit
adds all rows or none. That *every* id is covered needs ids that no two creators share, and is false otherwise (section 6).

*The figures.* A figure is a count or a sum over the rows, `SumFunctionOnSet` of the community modules. The library's induction
theorems cannot be used by these provers, but a first-order argument takes their place: if a fact about the sums over subsets of a finite set failed,
there would be a least subset for which it does (`LeastSet`, from the well-foundedness of `<`), and one element less
gives the contradiction. In this way `AdderAdds` shows that the recursive function behind the fold exists, `SumTakes` that any element may
be added first, `SumSplits`, `SumCarried` and `SumOfClasses` that sums split, follow a one-to-one map, and count by classes.
`DaysAddUp` is counting by days; `ChurnMeetsRetention` the sizes of two disjoint sets; `RevenueExplained` carries the sum over the earnings records to the
passes they were made for, one to one by `EarningsMatchSales`. `GrowthShowsActive` needs that the last bucket reaches today, which is
rounding up, and that no pass is dated in the future: `DatedInv`, which says so also of the rows and dates that requests and runs
hold before they commit.

*The earnings.* Both parts are about every step, so `StepBooked` shows that each one adds a
set of records that is `Booked`: one record for each new pass that was sold and not a trial,
with the right payer, and none for others. `BooksKept` shows that such a step preserves both,
because rows never change their owner, origin or trial flag (`RowsKept`). The payer of a gift needs
one more fact, `GiftsGiven`: the request in progress was checked not to be a gift to oneself.

*The indexer.* `WorkInv` adds to `TypeOK` that a worker's page is part of what was emitted and that the row and tier that a handler has
read are still there, because the table only grows (`TableSteps`). `EarnedInv` is `EarnedOnce` pass by pass,
with the record that is pending. For the refinement each step either leaves rows and log alone, or announces, or
adds one row whose event the worker is at. `TrialInv` says that what a look-up
saw is remembered truly: the passes in a row's or a reading's `seen` are stored and stay (`SeenStored`, `ReadKept`), so that a row which makes a trial, or
follows one, was written by a worker that had not seen the other.
`CoverInv` says that what lies behind the checkpoint, and what the poller has passed on its page, is in the
tables, and that the page reaches the ledger that will be saved.

*The submission.* That a call is not charged twice rests on `LastAttemptOnly`: a transaction or a record exists for the
last attempt of a call only, and not before that attempt was submitted, since only a refused sequence number leads to
another attempt. With `SeenIsTrue` (an answer on its way is still true, because the ledger does not take a decision
back) and the client's truthfulness it is inductive (`TxInv`). Most steps are one of two shapes, `QuietStep`, which
leaves ledger and records alone, and `RecordingStep`, which writes the call's own record. For the refinement every
step of a call is a `CallStep`: it ends the call or not, as a success only if its transaction was applied, and the
ledger's `Apply` is the charge, of a renewal that `LastAttemptOnly` shows not to have been charged before.

*The breaker.* `CountsFailures` says what the counter is: the number of failures at the end of the answers, although
the history forgets all but the last `Threshold`; `OpenAtThreshold` says when the breaker is open. Together they are
inductive and give `OpenMeansFailures`. `NoWayBack` needs only that every caller's record has its fields
(`CallsShaped`) and that no step but the beginning of a call changes what kind of call it is.

*The limiter.* How much can a window hold when sleepers do not count again? The invariant `LimiterInv` is a statement for each stamp in it: those
sent since, and the sleepers that are ready to send, are fewer than the limit and one request for each caller and
tick since then. It holds because nobody sleeps less than a tick. An attempt to prove a bound
without the callers had failed before, and TLC showed why on an instance with a limit of one: the bound is now the right one. `LateInv`
adds what each caller may still send to what it has sent since the breaker opened.

*Content.* `OrderInv` relates each row to the transaction that holds it (`LocksHeld`): without what open transactions
have written, the rows are in the committed order (`CommittedOrder`), which the old values of a rollback restore. `KeysInv` says that the versions of a tier are
the numbers up to one more than its rotations, so that the unique index refuses all but one of those that
overlap. `NoticesInv` says of every schedule how many notices each holder has, and of a run that it has itself
activated the row it is working on. `AccessInv` compares the age of a token with the time without a pass, `AccessEndsSoon` follows.

*Accounts.* Since ids are given out once (`CallSound`: what a request has read is below the counters), an id that was
erased stays gone, and a statement that names an id either meets the row that was read or none. So each
request's reading is either of a row that is gone or still as it was, and only the ages grow. `NobodyErasedUnasked` follows from that step by step.

*The desk.* `HookInv` counts, for each removed hook, the calls it has heard and the announcements that have listed it and not called it yet: together they are at most
`listing`, since an announcement that begins later does not list it and each one calls it once. `CopySound` says of the cached entry, and `ReadingSound` of every response that is being computed, for how long
its version has been replaced. `ReportsCounted`: those in progress past the check, and the rows, are fewer than the limit and the
greatest number in progress at once.

*Left to TLC.* Liveness (`ExpiredGetsClosed`, `EveryRunEnds`, `EventuallyIndexed`, `JobsEnd`, `EveryCallEnds`, `EveryRequestEnds`) under fairness is beyond the
proof system. All other properties that the passing runs check are theorems.

## 5. Hypotheses worth knowing

* `ForkedByOverlapOnly` does not say that a pass never becomes two. Neither handler that replaces a pass tests in its transaction
  that the pass is still open, so two overlapping changes, or a change and a renewal, both replace it (`src/passes/passes.service.ts:1143`).
  It does say that nothing else has that effect: not expiry, deletion, the switch or a change and a renewal one after the other.
  `SupersededConsistent` holds for every interleaving.
* `TrialClosesTier` and `TrialSharedByOverlapOnly` likewise: two purchases, or two workers, that look before either writes each find no
  prior pass (section 6). A tier change asks nothing about trials, and the rule does not speak of the rows it makes; nor of gifts, which are never trials by
  the code and are given whatever passes the recipient has.
* Deletion is requested by one request at a time in `together`; two that overlap both
  pass the check at `src/fans/fans.service.ts:123` and the second replaces the timestamp.
* Tier ids are unique across creators in every instance but `sales`. In the database `onChainId` is unique
  per creator only (`prisma/schema.prisma`), and `mintPass` and `purchaseBundle` look a tier up by
  that id alone: with a shared id a renewal may land on another creator's tier, and a bundle
  may be refused, because the query returns more tiers than ids, or sold with two tiers of one id in place of
  two ids, because only the numbers are compared (`src/passes/passes.service.ts:754`). `BundleWhole` is what is left of the promise, and is proved for
  shared ids too.
* `ExportsSpaced` measures from the last export that was answered before another began. Two exports that overlap both pass the check (`src/fans/fans.service.ts:190`) and are
  both answered: the property and its theorem do not keep them apart.
* `CheckpointCovers` is checked and proved (`Undisturbed`) without failures, trials and blocks, for a log in which a pass comes after its
  tier, and with a page limit not below the log's length. The call has a fixed
  limit of 100 events and no cursor (`src/stellar/stellar.service.ts:361`): what a full page leaves out
  is behind the checkpoint when the poll ends.
* It also exempts creators who register with the API after their tier was created: the
  event is dropped (`src/indexer/indexer.service.ts:109`) and not seen again.
* `OpenForGood` speaks of an open breaker with no query under way, which is what a lasting outage leaves
  behind: `withRetry` refuses before it would ask, so nothing can close the breaker again.
* `AccessEndsSoon` (both of them), `ExportsSpaced`, `ProfileFresh` and `ReportsBounded` state the bound that the code gives, with
  the requests that race in it, not the one that the words "5 per day" or "24 hours" suggest.

## 6. Where the code and its documentation part

Two of these are runs with `expect: violation`; the trace is in TLC's output.

1. `renewal_missed`: the expiry cron fires at the same minute as the renewal cron and closes the
   passes that the latter lists only while active (`src/passes/passes.service.ts:331`).
2. `erased_earnings`: `permanentlyDeleteFan` deletes the fan, and the earnings records of the gifts the fan
   has paid for go along by the foreign key, although "Transaction records are retained for
   financial compliance" (`src/fans/fans.controller.ts:68`).

These are seen in the models' behaviours, or in the code while modelling it, and have no run of their own:

* *Passes.* With one chain id shared by the tiers of two creators, and another id whose tier is withdrawn, `purchaseBundle` finds as many
  tiers as ids and sells the bundle without one of them (`passes.service.ts:754`; `onChainId` is unique per creator only, `prisma/schema.prisma:148`), although
  it says "@throws {BadRequestException} If any tier IDs are invalid or inactive." (`:741`). Two overlapping purchases of one fan each read no prior pass, and the fan has two trials on the tier
  (`passes.service.ts:805`). `changeTier` measures what is left from the *tier's* duration and the pass's
  `purchasedAt`, so that a converted pass gains days when changed again (`:1119`). A renewal run that listed a pass before its fan asked for deletion
  charges afterwards (`:993`). A block set between a purchase's check and its commit does not stop it (`:771`).
  `mintPass` announces the sale before its transaction commits (`:303`).
* *Indexer.* A failed `getEvents` is an empty page, and the checkpoint moves over it (`indexer.service.ts:71`). Processing a trial's event again
  gives the pass the chain's expiry (`passes.service.ts:473`). A job that replays a tier's creation after its end
  offers the tier again until the job reaches that end. An earnings record that is not awaited is lost by a restart (`:438`).
* *Stellar client.* The breaker never closes again once it is open and idle. `renewPass` may return another renewal's
  hash (`stellar.service.ts:515`); `ClientTruthful` shows that it is at least one that succeeded.
* *Tiers.* `PATCH /creators/:id/tiers/order` passes the user's id where the service expects the creator's, so a creator with tiers is always
  refused (`creators.controller.ts:108`); the model has the service's behaviour for the right id. After a rotation a fan is handed the newest key with content
  of the older one (`tiers.service.ts:557`). A tier first seen by the indexer never gets a content key. The event
  for new tiers is emitted on updates as well, against the comment at `:217`.
  A fan with two passes on a tier is told twice of scheduled content.
* *Accounts.* A fan with any pass cannot be deleted at all, for the foreign key refuses, though `docs/GDPR_DELETION.md` says that passes are kept and the fan deleted. If the
  second statement fails, the user is left without a fan and the retry finds no fan. The second statement also takes a
  creator row and a new fan row of the same wallet along. Access tokens (seven days) outlive logout and deletion. Nothing
  schedules anonymisation or deletion. A failed export costs its day, for the timestamp is set first.
* *Desk.* Category edits, verification and featuring leave the cached profile; `GET /tiers` is cached under one key
  whatever its query (`cache.interceptor.ts:15`). `getRevenue` and `getEarnings` count trials and changed passes at the full price;
  a fan who changes tier is counted twice in the growth chart, because a replaced pass keeps its expiry. `ApiKey` and `Report` have no model in `schema.prisma`,
  and `ReportsModule` is not imported by the application.

## 7. Not modelled, and why

Queries, metrics, GraphQL, search, categories, health and mail change no state the properties are about.
Validation of inputs, signatures, cryptography, formatting and logging are left out; the inputs
are those that pass validation. `checkAndNotifyExpiringPasses` is called by nothing, and members
have no route. Requests that name no tier change nothing and are left out. The in-memory cache of analytics,
the average duration and the list of top tiers are left out of `PassAnalytics`. The
search for a ledger by time (`findLedgerForTimestamp`) is in the plan.

## 8. Plan

The passes came first, then the indexer, the Stellar client, and the services around fans and creators. Next:

1. **`LedgerSearch`**: `findLedgerForTimestamp` (binary search over ledgers, a failed call read as "too
   late"), against a reference definition, with a proof of the loop invariant; then the replay job from its start.
2. **The order of announcements and commits**: `PartnerAccess` started from the transactions of `PassPurchase` and `PassRenewal`.
