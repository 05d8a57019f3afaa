# sauceDUST in TLA+

sauceDUST collects images of an imageboard (Danbooru), embeds each with one or
more models and answers "where is this picture from".  A control node owns
PostgreSQL and the search index; any number of worker nodes download, embed and
submit.  What is hard about it is bookkeeping: every post must be collected
once, by whatever node is up, through crashes, reclaims, retries and an
operator's interventions; what the tables say must be what is in the index; and
the machinery around it (limits, batches, paths, bots, settings, updates) must
neither lose anything nor stop.

This directory holds TLA+ modules of it, TLC runs over small instances and TLAPS
proofs for all instances.

## 1. Inventory

| part | source | state | hard about it | module | what makes it correct |
|---|---|---|---|---|---|
| Range leases | `internal/adapter/postgres/lease.go`, `nodes.go`, `ranges.go` | `crawl_ranges`, `backfill_before_id` | workers of several nodes, leases that expire while held, a token that falls on release | `RangeLease`, `CrawlLedger` | no id lost, one accepted report per lease, closed rows are true and final |
| Retry queue | the same files | `crawl_post_retries` | no renewals, no node in the fence, enqueue over a running row | `RetryQueue` | a success means stored and is final; everything settles |
| Catch-up | `internal/app/crawler.go`, `danbooru.go` | `high_watermark_id` | all nodes on one watermark without a lease; pages cut by `-limit` | `Catchup` | no silent gap below the watermark |
| Crawler limits | `internal/app/crawler.go`, `crawler_capacity.go`, `ingest_capacity.go`, `capacity.go` | the `-limit` counter, two cached counts | cancel while others work; counters read before they are used | `CrawlBudget`, `Capacity` | stops at the limit, a refusal costs no range an attempt, refusals end |
| Fleet | `internal/app/fleet.go` | `nodes` | a node judged dead still works; two registrations; late grants | `NodeLife` | a punctual node is alive, leases left behind come back |
| Ingest | `internal/app/ingest.go`, `postgres/images.go` | `images`, `image_vectors`, the index | four stores written in turn, no transaction across them | `Ingest` | the index is backed up, marks are true |
| Submission by HTTP | `internal/adapter/httpapi/client.go`, `server.go` | attempts in flight | repeats beside an attempt still running | `HttpIngest` | accepted means stored |
| Indexer, limiter | `internal/app/indexer.go`, `adaptive.go` | shared batch, slots, debt | goroutines, a channel outside the mutex, a cancel | `Indexer`, `Limiter` | each post reported once, slots conserved |
| Danbooru client | `internal/adapter/danbooru` | slots of time, a cursor | shared clock, penalties; posts appear while paging | `RateLimiter`, `PageScan` | the rate holds, a range is read completely |
| Network paths | `internal/adapter/netpath`, `postgres/stats.go` | path per host, probes, ECH cache | racing requests, a line that changes | `NetPath` | a blocked path is left |
| Embedding worker | `python/worker` | queue, futures, a count | one task for all, the batch window | `Batcher` | every request is answered |
| Flat index | `internal/adapter/flatindex` | two files, slot count | torn and failed writes, several processes | `FlatIndex` | codes and ids stay paired |
| Search | `internal/app/search.go`, `flatindex/scan.go` | query cache | parallel scan and merge, two rankings, a cache | `Search` | nothing nearer is missed |
| Coverage | `postgres/ranges.go` | `crawl_ranges` | report and plan are two transactions | `Coverage` | gaps are holes, and are filled |
| Model registry | `postgres/nodes.go`, `cmd/saucedust/wire.go` | `embedding_models`, snapshots | every process works with what it read at its start | `Models` | one model per collection |
| Re-embedding | `internal/app/reembed.go` | a cursor | interruptions, submissions beside it | `Reembed` | every thumbnail becomes searchable |
| Telegram bot, its host | `internal/app/bot.go`, `cmd/saucedust/bot_host.go` | offset; token, file, running bot | crashes, lost replies; a file written in steps, outside the lock | `Bot`, `BotHost` | everyone answered, the last token in effect |
| Console | `internal/adapter/httpapi/console.go`, `auth.go`, `config/webfile.go`, `cmd/saucedust/webops.go` | settings in four places, one job, the account | merge, files saved in steps, restart by exec, racing requests | `Console`, `WebJobs`, `Account` | what was accepted starts, nothing saved is undone |
| Self-update | `internal/release`, `httpapi/update.go` | the executable | two downloads under one name, failures midway | `Update` | the executable is whole |
| Qdrant, thumbnails, worker client, CLI, installer, config, web | `adapter/qdrant`, `filestore`, `embedworker`, `cmd`, `internal/config`, `web` | files, an external service | - | - | see section 7 |

Interactions.  Nodes never talk to each other: PostgreSQL rows are the shared
state, and a worker node's submissions reach `Ingest.Submit` over HTTP.  `Fleet`
and `Crawler` of one process run beside each other; `IndexBatch` calls the
limiter, the embedding worker and the sink; requests of all of them take a path
and, to Danbooru, a slot of the rate limiter; the console calls the same store
methods as the workers, at any time, and restarts the process.

## 2. Plan

Written in this order:

1. `CrawlLedger` (abstract), `RangeLease`, `RetryQueue`, `Catchup`, `Ingest`, with
   proofs about three of them;
2. what feeds and bounds the crawl: `Limiter` and `Indexer` (with proofs),
   `Coverage`, `CrawlBudget`, `Capacity`, `RateLimiter`, `PageScan`, `NodeLife`,
   `NetPath`, `Batcher`;
3. what is stored and found: `HttpIngest`, `FlatIndex`, `Search`, `Models`;
4. the services: `Bot`, `BotHost`, `Reembed`, `Console`, `WebJobs`, `Account`,
   `Update`.

5. the rest of the proofs: the refinement of `CrawlLedger`, the retry queue, the
   rebuild, the stores of images, and the parts of `MCCrawl` and `MCServices`.

Left:

* the proofs of liveness, which the prover cannot do (section 5);
* the sign-in's sessions and lockout, and the installer's steps.

## 3. The modules

Every module keeps the source's names for its operations; one action is one
database transaction, one locked section or one call that may fail, and what lies
between two of them in the code lies between two steps here.  Ghost variables are
declared as such.

### Leases: RangeLease, CrawlLedger, RangeLeaseProofs, LedgerProofs

| code | model |
|---|---|
| `crawl_ranges` | `rows`, a record per id; `ready` is `ready_at <= now()`, `stale` is `leased_at < now() - 30min` |
| `backfill_before_id`, id sequence | `before`, `nextRow` |
| goroutine of `runBackfill` | `pc[w]`, and `lease[w]`, the `domain.CrawlRange` it holds |
| `reuseRange` | `Reuse`, `NothingToReuse`; `ORDER BY attempts, id` is `Precedes` |
| `splitAtFloor` | `Split`; conflict and unique violation are `Abandon` |
| `carveRange` | `Carve`, `NoWork` |
| `processRange`, `finish`, `finishOrRelease` | `Finish`, `Release`, `Wake`, `Abandon` |
| `renewWhileWorking` | `Renew` |
| `Register`, `Run`, `sweep`, `shutdown` | `Start`, `Reregister`, `Sweep`, `Shutdown`; `Crash` is the environment's |
| `ResetRange`, `ResetExhaustedRanges`, `RetryFailedRanges` | the same names, in `OperatorNext` only |

`SKIP LOCKED` lets concurrent acquisitions take different rows: their serial
order is the order of the actions.  A sweep takes several dead nodes in one
statement; here one after the other, which is a finer order.  `crawled` is a
ghost: the ids some worker dealt with to the end, whether its report was
accepted or not.  `CrawlLedger` is what the backfill promises: ids are handed out
once, from the newest down, and stay owed until crawled.  `KeepsLedger` shows that
`RangeLease` implements it (`owed` is the union of the open rows).

`NodeLife` is the process around it: registration, verification, the tasks that
start beside each other, beats, shutdown, sweep; of a lease it keeps only the
owner, and time only since the last beat.  A statement in flight when a process
ends is taken to be answered before the node's next start.

### Retries, catch-up: RetryQueue, Catchup, RetryQueueProofs

`items[p]` is the row of post `p`; a node leases a batch (`LeaseRetries`), tries
one item (`Try` is `PostByID` and `index`) and writes the outcome (`Settle`).
`saved` and `stopped` are the `-limit` counter of a process and its cancel;
`OthersReserve` and `LimitReached` are the other workers of that process.  The
operator's `ResetRetryQueue` and `RetryPendingQueue` are in the steady part only:
the first also reopens retries that succeeded (section 6).

`Catchup` takes the calls of `catchupOnce` in their order, with `bootstrap` before
the first.  Four ghosts say what became of a post below the watermark: `kept`,
`queued`, `dropped` (the queue refused it), `jumped` (a bootstrap moved over it);
`cut` are those `-limit` left out.

### Limits: CrawlBudget, Capacity

`CrawlBudget` is `reserve`, `release` and `noteLimitReached` of one run: the
backfill workers' shares of one counter, the cancel by the first to see it full,
and what each does to its range then.  `Capacity` has both gates of `MaxIndexed`:
`atCapacity` of a node and `checkRoom` of the central node, each with the count it
remembers for a while; the centre counts the batch in.

### A node's work: Limiter, Indexer, WorkerProofs, Batcher, NetPath

`Limiter` is the channel of slots with its debt: `Acquire`, the two halves of
`giveBack`, and `SetLimit` slot by slot, as the channel operations run without the
mutex.  `Indexer` EXTENDS it: one goroutine per post (take, download and embed,
give back, append, perhaps flush), the senders' semaphore, the last flush, and a
context that may end anywhere.  The limiter is also a specification of its own
(`LimiterSpec`), and `Indexer` implements it.

`Batcher` is one event loop: what lies between two `await`s is a step, and a future
that was resolved wakes its request only later.  Requests are not cancelled: the
server does not cancel a handler whose client left.

`NetPath` is one host: candidates, attempts, what is remembered, `Probe` by an
operator, the table of probes the next process starts from, and the ECH cache.
What a request has left to try is a set; `lead` is the path `order` puts in
front, and the others follow as the options list them (`Turn`).
Which paths get through is the environment's and may change.

### Fetching and planning: PageScan, RateLimiter, Coverage, Models

`PageScan` is `PostsInRange` with posts that appear meanwhile and entries `fetch`
leaves out.  `RateLimiter` is `wait`, `penalize` and the repeats of `get`, over
ticks.  `Coverage` compares `CoverageGaps` (neighbours in the order of their upper
ends) with the set of ids no row has, and lets two operators plan at once.
`Models` names a vector by model, size and weights, and follows it from the
worker that made it through the checks of `Submit` and of the index.

### Storing and finding: Ingest, HttpIngest, FlatIndex, Search

`Ingest` has submissions as a sequence of calls, a rebuild beside them, each ending
at any point (`Fail`, `RebuildFails`); an index entry is there or not.
`LoseIndex` is the index's storage deleted or its kind changed between two runs.
The ghost `lost` keeps the marks set before and not cleared since.  `HttpIngest`
is one post submitted by two nodes with different vectors, each attempt going on
at the centre when its client has given it up: here values matter.
`FlatIndex` has the two files as sequences of slots with what is synced, a writer,
readers, failed and partial writes, process deaths and power cuts.  `Search` takes
a query through cache, parallel scan, rescoring and ranking while images are
stored; a vector is a number, its code half of it.

### Services: Bot, BotHost, Reembed, Console, WebJobs, Account, Update, ServicesProofs

`Bot` is the loop from an offset on and Telegram's side of it, with calls that fail
and replies that arrive although their call failed.  `BotHost` is `Set` and `Run`
around the token, its file and the channel `wake`.  `Reembed` is a run page by
page with its three writes, beside submissions and rebuilds.  `Console` has
`.env`, the environment, the file and the running configuration; `WebJobs` has the
two jobs.
`Account` is `handleSetup`, `handlePassword`, `writeAdminFile` and `EnsureAdmin`;
`Update` is `Check`, `saveDownload` and the restart.

All four files the console writes go through a temporary one that every request
shares, and no lock is held: opened and emptied, written, renamed, or removed when
the rename fails.  Each of these is a step, and each may fail.  A request that
opened the file goes on writing to it after another one renamed it.  `Account` and
`Update` number the inodes; in `BotHost` and `Console`, whose files are written in
one call, `fd` and `webFd` say by which name the file a request has open goes now
(`"tmp"`, `"file"`, or `"none"` once another took its place), and two ghosts,
`crossed` and `collided`, say that two requests had it open at once.  What may come
of that is in the model, an empty or broken file included, and a start that cannot
read it is refused.

### The harnesses

`MCCrawl`, `MCImages`, `MCFleet`, `MCSettling`, `MCWorker` and `MCServices` check
several modules that share no variable: a variable `part`, chosen at the start,
says which one moves, and the others stay in one initial state.  The state space
is the sum of those of the parts, every property is checked as if alone, and each
part keeps its own fairness.  A property of a harness is the conjunction of the
named properties its component modules state (`Paced` is `RateHolds` and
`PenaltyHolds`, with `RateTypeOK`), each under its `part`.  Where a part is bounded (posts, time, calls) it
stutters at its end, so that a deadlock of another part would show in `MCCrawl`
and `MCImages`.  `MCRangeLease` does the same with two instances of `RangeLease`.

## 4. The runs

| run | question | bounds |
|---|---|---|
| leases | fencing, coverage, truth and finality of rows, the ledger; and what is left of fencing and coverage with different floors and an operator's resets | 2 nodes, 3 workers (two share a node), ids 1..3, sizes 2 and 3, 2 attempts, 3 rows; operated: 1 worker each, ids 1..2, two floors |
| crawl | Catchup and RetryQueue with `-limit`, PageScan, Coverage, RateLimiter, NetPath, Models | 2 nodes; 3 posts, pages of 2; 2 retries, 2 attempts; a scan of 5 ids; gaps within 5 ids, 2 operators, sizes 1 and 2; 2 callers, 4 ticks, burst 2; 3 paths, 2 requests, one change of the network, one restart; 2 model ids, 2 sizes, 2 weights, 2 changes |
| images | Ingest, HttpIngest, FlatIndex, Search | 2 posts, 2 models, 2 submitters; 2 nodes with 2 attempts each; 2 images, 3 slots, 2 writers and a reader; 5 slots searched by 2 scanners |
| node_work | Indexer over Limiter, Batcher, NetPath, CrawlBudget, Capacity | 3 posts, batches of 2, 1 sender, limits 1..2; 3 requests, batches of 2, 2 preparing; 3 paths, 2 requests; 2 workers, 3 ranges of up to 3 posts under a limit of 4; 3 images in the index, batches of 2 |
| fleet_work | liveness of ranges and catch-up | 2 nodes, 1 worker each, ids 1..2, two floors; 4 posts |
| leases_return | liveness of retries; NodeLife | 2 nodes, 2 posts, batches of 2; a beat per step, a timeout of 2 |
| services | Bot, BotHost, Reembed, Console, WebJobs, Account, Update, and that HttpIngest ends | 2 updates, 2 faults; 2 setters, 2 tokens; 3 images, pages of 2; 2 saves of 2 browsers, 2 starts, edits of `.env` or failed steps; 3 requests of 2 browsers; 3 downloads of 2 requests, two writes each |
| retry_limit, catchup_cut, ingest_settled, ingest_lost, node_register | five disagreements (section 6) | 1 or 2 nodes, 1 to 3 posts |

What the passing runs show, by property:

* leases: `Exclusive` (one accepted report per lease), `IdsAreAccountedFor` (none
  lost, none in two rows, none closed uncrawled), `ClosedForGood`, `KeepsLedger`
  (refinement), `OperatedFence`;
* crawl: `NoOtherGaps`, `RetriesAreFenced`, `RangesAreComplete` (scan, gaps, fills),
  `Paced`, `PathsAreHonest`, `VectorsKeepToOneModel`;
* images: `IndexIsBackedUp`, `MarkedIsIndexed`, `SettledIsBackedUp`,
  `RebuiltIsComplete`, `DeliveryIsTrue`, `FilesKeepPairs`, `SearchFinds`;
* node_work: `SlotsConserved`, `ReportAddsUp`, `CallsReturn`,
  `WindowIsForTheAnswered`, `SettlesOnAnOpenPath`, `LimitsAreKept`, `LimitsEnd`;
* fleet_work: `RangesSettle`, `CatchesUp`;
* leases_return: `SucceededMeansStored`, `PunctualIsAlive`, `WorkComesBack`;
* services: `UpdatesAreAnswered`, `EveryoneIsAnswered`, `TokenTakesEffect`,
  `FilesHoldUnlessCrossed`, `RunsLeaveNothingOut`, `ThumbsBecomeSearchable`,
  `ConsoleHolds`, `UpdatesGoForward`.

Why these bounds are enough.  The hazards of the leases need two workers of one
node, one of another, a row that was split, and an attempt that was given back:
all of that happens with 3 rows and 2 attempts.  Pages of 2 of 3 or 4 posts give
two overlapping pages and a page cut in the middle.  A batch of 2 of 3 posts
leaves a rest that only the last flush can send; with a limit that moves between 1
and 2 a slot is in use when the limit shrinks.  Two browsers, setters, requests or
operators are what the races at a lock, a file or a table need, and a third call
shows what they leave to the next one.  Three slots hold an append behind one that
failed.  Every bound is a CONSTANT named as one; each guards the action that uses
it up, and the other actions go on.

Symmetry is used in `leases`, `crawl` and `images`, which have no liveness.
Deadlock is checked in these three and not in the others, where a finished batch,
a settled queue or an idle service may rightly stop.

### Fairness

Each module says what the code's scheduling gives: goroutines that can take a step
take it (their loops poll on tickers), every call has a timeout so work on a
range, a retry, a page or a request ends, the clock moves so leases expire, delays
pass and remembered counts age, and a process that is down is started again.
Crashes are absent from, or bounded in, the steady specifications: with endless
crashes nothing settles.  An index that stays full is absent from `RetryQueue`'s: it
gives every lease back for as long as it is full.  `Abandon` and `Forget` stay
possible, so progress does not rest on statements that succeed.  Strong fairness
occurs twice.  A goroutine of `IndexBatch` that waits for the mutex or a place in
a channel gets it though others come and go, which is what Go's mutex and channels
do.  In `Reembed`, an operator who sees images missing starts the run again and
rebuilds once in a while: an assumption about people, named there.

## 5. What is proved

TLAPS, for all values of the constants that satisfy the modules' assumptions.
Each invariant that had to be found was checked by TLC before it was proved.

* `RangeLeaseProofs`.  `TypeCorrect`, `FencingIsExclusive` and
  `ClosedRowsAreFinal` of `Spec` (no operator).  `Exclusive` alone is not
  inductive: a release lowers the row's attempts, so the next lease gets a
  number that was used before.  The invariant `IInv` adds that the token of
  every lease held is at most the row's attempts, that two workers that hold a
  lease on one row have different tokens, and that a lease lies on a row in use
  within `1 .. Latest - 1`.  Most actions are "mild" (they neither give out a
  lease nor touch tokens or bounds) and share one lemma, `MildStepKeepsIInv`;
  reuse, carve, split and release have their own.  `NoIdIsLost` is of
  `OperatedSpec`: whatever an operator resets and however floors differ, an id
  the frontier has passed is crawled or in an open row.  A late split can raise
  or lower a row another node has split, and a report closes it over whatever
  bounds it has by then; `CoverInv` says that a row's ids outside a holder's lease
  are accounted for in open rows that end further down.
* `LedgerProofs`.  `TableAccountsForIds` (`IdsAreAccountedFor`) and
  `LeasesKeepLedger` (the refinement of `CrawlLedger`, step by step).  Both assume
  `UniformFloors`, one `backfill_min_id` for all nodes: with two, rows do overlap,
  which is why the run's second instance has two and `NoIdIsLost` needs none.
  `LedgerInv` is the property with what carries it: rows lie above the
  frontier, a lease being worked on has its row's bounds, and one about to be
  split has either those or the bounds from before another worker did the same
  split (`LeasesMatch`).
  `OperatedFenceHolds` is of the run's second instance.  `OperatedProofs` is
  `RangeLeaseProofs` for that instance's constants and variables, so `NoIdIsLost`
  and the lemmas under it hold of it once `OperatedAssumption` has said of these
  constants what `RangeLease` assumes; `SameActions` shows that `Operated` and
  `OperatedProofs` name the same steps.
* `RetryQueueProofs`.  `RetriesAreExclusive` and `SuccessIsFinal` of `Spec`:
  neither node nor worker is in the fence, so all rests on `TokensOnce`, that no
  two nodes hold leases on a post with one token, and on no token being ahead of
  the row's attempts (`NoLeaseAhead`): a release takes an attempt back, but only
  its holder's, who drops the lease with it.
  `SuccessMeansStored` assumes `Limit = 0`, the default; with a limit it is false
  (run `retry_limit`).  It holds with the operator's resets too.
* `SettlingProofs`.  `PunctualNodesLive`: while beats are in time the row is no
  older than the process believes (`RowKeepsUp`), and `NothingIsLeft` says that
  in its loop a node holds nothing an earlier run was granted.
* `ImagesProofs`.  `IndexAlwaysBackedUp`, `SettledAlwaysBackedUp`, `MarksAreTrue`
  (only marks older than a loss of the index can be false): the invariant says
  what each call in flight has already written.  `RebuildIsComplete` adds
  `OwedIsAhead`: what a rebuild still owes lies on its page or behind its cursor.
  `DeliveryHolds`, of repeated requests: an attempt that goes on at the centre has
  written what its place in the handler says, and unless attempts of two nodes
  crossed, those that have saved are of the node whose vector is kept
  (`OneNodeAtATime`), so a mark means that backup and index agree.  `FilesHold`,
  of the flat index: an append under way has its codes on disk before it writes ids
  (`Appending`), a writer appends behind all that was acknowledged
  (`AckedBelow`), and unless an append failed the ids are a prefix of the codes,
  on disk too (`IdsFollow`).
  `SearchesFind`, of a search: what a goroutine keeps of its part is sound, slot by
  slot (`Sound`, `KeptIsSound`): as many as wanted, and none of the others nearer.
  A slot that a part dropped therefore left as many as wanted behind, none farther,
  so it is not among the nearest of all (`NearestOfAll`); and the parts leave no slot
  out (`PartsCover`).  In an order of a finite set an element's place is the number
  of those before it, and no place is free or taken twice (`PlacesAreTaken`); so an
  original which few enough images outscore keeps a place among the matches
  (`OriginalIsMatched`, which images stored meanwhile cannot take from it), and the
  hit that has none before it is exact if any is.  `scanRange` is a recursive
  function: that it exists and that it keeps `Sound` both come from least
  counterexamples.
* `WorkerProofs`.  `ImplementsLimiter` (every step of `IndexBatch` is one of the
  limiter's or leaves it alone), and from it `SlotsAreConserved` and
  `PushFindsRoom`: the branch of `giveBack` that drops a slot is dead.  `SlotInv`
  adds that limit and debt together never exceed the channel's size, which is why
  the two unlocked steps cannot overfill it.  `ReportsAddUp`: `ReportInv` says that
  a post is in one place at a time (waiting, in a goroutine, in the shared batch,
  in a sender's hands, in the report) and what the loop has passed is in one of
  them.
  `PartsAreTyped`, of all that `MCWorker` composes: every slot a goroutine holds is
  one it has taken and not given back, so the limiter stays typed whoever moves it;
  of the batcher, each waiting request is in the queue or the batch, once
  (`EachOnce`), and `inflight` counts these and the answered ones that still sleep
  (`InflightCounted`); of the paths, a request that was carried still has the path
  in hand it will remember, and looks ECH up at ECH's turn only (`Standing`).
  `LimitsHold`: what the workers have in hand is summed by a fold over their set.
  The library's induction cannot be used, so its facts come from least
  counterexamples: a sum over all subsets exists (`SumsExist`), and when one hand
  changes the total changes by as much (`TotalMoves`).  The rest is that whoever ends
  the run has seen the counter full (`StopMeansFull`), that a worker which does not
  cut its range has all of it as its share (`ShareFits`), and of the two gates that a
  remembered count is never ahead of the store (`IsPast`) and work taken by one had
  room for a whole batch (`TakenWithRoom`).
  `WindowOpensForTheAnswered` follows from the count: a batch that is not full has
  emptied the queue, so what `inflight` exceeds it by sleeps on an answer.
* `CrawlProofs`, of the parts of `MCCrawl`.
  `GapsAreKnown`: the invariant adds what each node has in hand: its page is the
  interval right above the watermark it has read, and from `queueing` on every
  post of an uncut page is accounted for.
  `RequestsArePaced`: callers leave in another order than they took their slots, so
  the invariant keeps the slot each request left with; slots lie an interval apart,
  none later than its request and none earlier than it by more than the grace,
  and requests of a stretch of time are counted by dividing their slots.
  `ModelsAreKeptApart`: what a process read at its start still fits the registry
  (`ReadingsFit`), a collection in use was opened for its model
  (`CentralHasOpened`), and a model of the list a sync is at is active
  (`SyncInForce`).
  `PathsStayHonest`: what a request has still to try and what refused it make up all
  paths, and whoever looks ECH up is at ECH's turn.  Here the paths are the three of
  `netpath.go`; requests, changes and restarts are any number.
  `RangesAreRead`: a scan has found each post of the range above its cursor exactly
  once, and whatever is published lies above the range; a page is the upper part
  of what is left, so no post is passed over.  For the planning, while one size is
  in use a gap an operator has read is, at any later time, still a hole or filled
  with exactly the rows this operator would make (`SeenGapsFit`), and two gaps read
  at different times are one or share no id (`SeenGapsApart`); with that a second
  fill adds nothing.  The walk over neighbours finds the holes (`GapsFound`) for any
  number of disjoint rows.
  `RetriesStayFenced`, of the queue: `QueueProofs` is `RetryQueueProofs` for its
  constants and variables, its invariant and its step lemma hold there under
  `QueueAssumption`, and `SameQueue` shows that `Queue` and `QueueProofs` name the
  same steps.
* `ServicesProofs`, of the parts of `MCServices`.
  `BotAnswersWhatItConfirms`: a batch lies without a gap right above the offset, and
  a bot that was not cancelled has answered all it has passed (`AnswersCounted`,
  which also counts answers against bots and lost replies).
  `ConsoleFilesAreTrue` joins three files.  Of `telegram.json`: a call alone with it
  finds its own writing in the temporary file, and its own token in the file until
  the memory follows (`OneSetter`), so without a crossing a start can read it.
  Of the executable: while downloads do not overlap the one under way owns the
  temporary file, whose pieces are its release up to what it has written
  (`OneDownload`).  Of `web-admin.json`: the request under way bears the last
  number, and what it has written and renamed holds its secret (`OneRequest`);
  whoever set up the account has left it in the file (`OwnerHasFile`), so no start
  takes a second setup.  `O_CREATE` takes a free inode in the model, so the two
  invariants also count the inodes in use (`InodesSuffice`, `SheetsSuffice`).
  `ProgramGoesForward`: nothing that is on its way to be the executable is older than
  what runs, and a promised restart finds a newer release (`PromiseIsOnDisk`).
  `OneBotPolls`: only the loop starts a bot, and not before the last one has ended.
  `ReembeddingIsComplete`: below the cursor a run has left only images that are in
  hand, skipped or done (`InHand`).  `SavedSettingsHold`: the environment the process
  runs with, and what `.env` says, would start it alone; whatever the two files hold
  is startable on any configuration, or a text no start can read (`FilesStartable`),
  and the second is not in the file as long as saves did not meet (`OneSave`); a save
  made while nothing waits for a restart writes what the accepted ones amount to
  (`SavesAdd`).

Assumptions.  Those of the modules say what the code's flags and constants allow.
`ModelsAssumption` says of what is loaded that a process makes one vector per
model id: `service.py:74` keeps backends in a dict by id.  `QueueAssumption` and
`OperatedAssumption` repeat, for two instances, what their modules assume.
`CrawlBudgetAssumption` says that a run has finitely many workers.
`SearchAssumption` says that there are finitely many submissions, that vectors and
hashes are numbers, and that the worker hashes every picture it embeds
(`service.py` answers with both); of the three limits, that an answer is no
longer than the matches asked for, and these no more than the slots scanned for.

Only model-checked: the nine properties of liveness (`RangesSettle`, `CatchesUp`,
`WorkComesBack`, `CallsReturn`, `SettlesOnAnOpenPath`, `LimitsEnd`,
`EveryoneIsAnswered`, `TokenTakesEffect`, `ThumbsBecomeSearchable`): TLAPS does no
fairness.  Every other property of a passing run is stated by a theorem.

## 6. Where the code and its words differ

Five runs end in a counterexample; PROJECT.json quotes the lines.

* **catchup_cut**: posts cut by `-limit` are below the watermark after the next
  start, because `bootstrap` raises it at every start.
* **ingest_settled**: a retried post whose vectors are saved but not indexed
  counts as existing and succeeds.
* **ingest_lost**: a rebuild after the index was lost restores nothing that was
  marked indexed.
* **retry_limit**: a retry that `-limit` trims away is finished as succeeded.
* **node_register**: the second registration of a run takes back leases its own
  crawler has just been granted.

The following was met while modelling.  Where an exception is stated in a property
("unless ..."), TLC finds the counterexample as soon as the exception is removed.
A claim TLC refutes although no run is listed for it is kept as a definition of
its module, named here in brackets.

Leases and retries.
* `ExhaustedRanges` (`postgres/ranges.go:41`) asks for status `failed` only.  A row
  on its last attempt whose holder let it go without a statement stays `running`
  while its node lives: `Candidate` does not take it, and no list or reset names it.
* `ResetRetryQueue` ("puts dead retry items back", `ranges.go:102`): no statement
  writes the status `dead`, and the other arm, attempts >= 5, also matches rows
  that succeeded on their fifth attempt.
* A shutdown's `ReclaimOwnLeases` can run before an acquisition in flight commits
  (`fleet.go:170`); the sweep or the expiry then brings the lease back.
* Two operators who fill one gap with different sizes make overlapping rows
  (`ranges.go:184`, `FillNeverOverlaps`); with one size they do not
  (`OneSizeKeepsDisjoint`).
* `PostsInRange` ends at a page shorter than asked for: a full page that loses an
  entry without an id ends the scan early, and the range is closed.
* Posts reserved by a worker that another one cancels are not processed, so a run
  with `-limit` may store fewer than its limit (`crawler.go:484`,
  `LimitIsProcessed`).

Storing.
* `IndexBatch` keeps only the first error of its flushes: a 500 before an
  "index full" hides the second (`indexer.go:176`).  A batch that waits for a
  sender grows past `SubmitBatch`, "the most that is sent at once" (`indexer.go:52`,
  `SubmitBatchIsTheMost`).
* `Submit` writes images before it notices an unregistered model (`ingest.go:116`).
  After an attempt that stored everything but timed out, the repeat can be refused
  because the index is full now.
* A failed append of the flat index leaves codes without ids; a shorter one after
  it pairs codes with ids of others (`collection.go:67`, `138`): hence "unless an
  append failed" in `PairedUnlessAnAppendFailed`.
* Old slots of images embedded again use up places among a scan's candidates.
* `SaveQuery` keeps the old vector of a query (`images.go:487`): after the model was
  registered anew with another size cached queries fail, with other weights they
  answer for the old ones.

Models.
* Weights are never compared (`wire.go:105`, `SameWeights`).  A worker that runs
  one model more than it was verified for has every submission refused with 409
  (`nodes.go:241`, `VerifiedIsAccepted`).
* A model registered again under its id with another size leaves both sizes in
  `image_vectors`, and a rebuild stops there.  An unknown kind becomes "copy" and
  takes down the real copy model; two copy models in `models.json` take down each
  other, as each is a transaction of its own.

Network and worker.
* A failed ECH lookup, also of a request that was cancelled, is cached as "no ECH"
  for an hour.  A late answer over a path that is closed by now replaces a newer
  choice until the next request.  A path that answers the headers and cuts the
  body counts as good and stays preferred.
* The batch window of the embedding worker is meant for requests on their way
  (`service.py:99`), but `inflight` counts a request only once it is queued.  So
  the window opens only over requests that have their answer and have not woken
  up yet (`WindowIsForTheAnswered`).

Services.
* `WriteWebFile`, `writeTelegramFile`, `writeAdminFile` and `saveDownload` each use
  one temporary name for all requests, and nothing locks them.  Two updates at
  once: the first to finish renames the file the other has emptied and is still
  writing; the executable is incomplete, the restart fails (its error is dropped) or
  runs it, and if the second download breaks the service cannot start again.  Two
  setups or password changes at once leave the file with one's and the memory with
  the other's, or, with a crash between, an empty file `EnsureAdmin` refuses.  Two
  `Set`s leave one token in the file and another in memory, also when the second
  fails: it wrote into the file the first had renamed (`bot_host.go:67`).  Two saves
  of settings leave the one that was refused in the file, under the one that was
  accepted (`webfile.go:224`).  Both may leave an empty or broken file: the next
  start then ends with its error (`serve.go:87`, `wire.go:68`), and there is no
  console to repair it.  The page disables its button while an update runs; another
  tab does not know.
* A token saved as JSON null is tried with the running one and stored as none.  An
  exec keeps the environment, so an edit of `.env` is not seen by a restart from the
  console.  Every save stores all fields.  A restart ends a running job silently.
* No file is synced before its rename (a power cut is modelled for the flat index
  only).

## 7. What is not modelled

* SQL text, JSON, images and vectors as data, logging, metrics.
* Qdrant (an external service behind one HTTP call each; what `Ingest` relies on is
  there), the embedding worker's client and the numerics behind it, TLS
  fragmentation and the ECH protocol, the guard of addresses.
* The thumbnail store: each file is named by its image and written by `CreateTemp`
  and rename; its failures are only logged.
* The installer, the setup and the other commands: one sequential run each against
  the operating system.  Of the configuration only what the console saves.
* Sessions and the count of failed logins: maps under one mutex.
* Routing, reports and the web pages.
* Cancelled requests of the embedding worker, and windows of zero or less.
