# A TLA+ development of the pump.fun indexer

The repository is a NestJS service that collects the trades and token creations of one Solana program. It hears of
transactions in four ways, stores their events in PostgreSQL, and adds the trades up per user. BullMQ queues, Redis
locks and timers hold these parts together, and nearly everything of interest happens between two `await`s. This
directory models that: TLA+ modules for the components, TLC instances that check them, and theorems that TLAPS
checks for all values of the constants.

All line numbers below are those of `src/src/service/scan.service.ts` unless another file is named.

## 1. The system

### Data flow

```
 chain ──onLogs──▶ listenerLog ──queue──▶ saveDataBucketWithDistributedLock ─┐
       ──slots──▶ refreshBlockNumber ▶ solana_slot ▶ sendTask ─queue▶ parseBlock ─┤
       ──history─▶ dealPfHashTask ▶ pf_tx_id ▶ sendParsePfHashTask ─queue▶ dealParsePfHashTask ─┤
                                                                                 ▼
 Dune ──▶ dealPfCreateFromDuneTask ──────────────▶ user_token           saveDataBucket
                                                                     pf_trade, pf_create
                                                                                 │
                                        mergeTrade, mergeTradeClip, mergeToken ◀─┘
                                                user_trade, user_token, config
```

Several processes may run the same code. They share PostgreSQL, Redis and nothing else.

### Components

| Component | State it keeps | Operations | What is hard | What makes it correct |
|---|---|---|---|---|
| **Trade merge** (`initMergeTrade` and its loops 605-637, `mergeTrade` 642-740, `mergeTradeClip` 743-794) | `pf_trade.status`, `user_trade`, the cursor in `config` | three endless loops, two kinds of transactions | transactions that overlap, absolute UPDATEs of values read earlier, opposite lock orders, ids that become visible out of order | each trade is counted once, in one step with its status; flags are earned; transactions end |
| **Signature parsing** (`sendParsePfHashTask` 401-434, `dealParsePfHashTask` 436-465) | `pf_tx_id.status`, jobs, two locks | send a page, run a job, un-awaited status update and unlock | stalled jobs, locks that outlive their calls, answers that are lost, failed jobs that block their id | a row of status 1 has its events; the queue is bounded; everything parsable is parsed |
| **Log ingestion** (`listenerLog` 579-599, `saveDataBucketWithDistributedLock` 523-541) | jobs, a lock per bucket | hear, add, lock, save, unlock | the lock doubles as "already saved", so a run that was cut short hides the job from its successor | nothing is lost silently |
| **Block scan** (`refreshBlockNumber` 92-115, `sendTask` 366-381, `parseBlock` 159-176) | `solana_slot`, jobs | add new slots, send a page, parse a slot | timers that overlap with themselves, skipped slots, events that another path stored first | no gap, done slots have their events, every slot is scanned |
| **Backward crawl** (`initMergePfHashTask` 892-928, `recursionMergePfHashTask` 930-935, `dealPfHashTask` 936-995) | `pf_tx_conf.before_tx_id`, `pf_tx_id` rows | one page per transaction | several processes and ranges, a COMMIT whose answer is lost | the cursor leaves nothing behind; duplicates have a reason; ranges end |
| **Redis lock** (`redis.service.ts` 128-192) | a key with a time to live | `lockOnce`, `lock`, `setTTL`, `unLock` | expiry while the holder works, one uuid for all calls of a process | a call loses its key by running out of time, or to a call of its own process that did |
| **Insertion-ordered map** (`redis.service.ts` 225-270) | a sorted set and one key per entry | put, remove | two scripts that read a sorted set from opposite ends | every entry is delivered once |
| **Token merge** (`mergeToken` 796-890) | `user_token`, cursor in `config` | one transaction per page | overlap with itself in another process; absolute UPDATEs next to the import's INSERTs; a user with two rows; an early return inside an open transaction | the amount of a user is exactly what was counted and imported |
| **Dune import** (997-1061, `axios.service.ts`) | `user_token`, cursor in `config`, a cached key | one page per request, without end | a result that grows, a key that is replaced, a page with a user that has a row; an early return, or an empty page, leaves the transaction open | a row is imported once, and in the end, unless the import is blocked |
| **Event parser** (`dto/event.parser.ts`, `dto/common.dto.ts`, `parseLogs` 117-157, the IDL `pump.ts`) | none | `dealLogs`, `handleLogStr`, `parseLogs`: logs to rows | the parser does not follow calls: whether a data line is pump's is guessed from the lines next to it; two decoders with their own layouts | what is taken was logged near pump, nothing pump logged is missed or repeated, both decoders read the same bytes |
| **Dynamic configuration** (`dynamic.config.service.ts`) | a cache of `config` | refresh, get | filled once, as its timer is off | values are not older than the last refresh |
| **Scheduling** (`task.service.ts`), **worker** (`worker.service.ts`) | none | timers; dispatch of jobs | - | - |
| HTTP surface, bootstrap, logging, debug helpers | none | - | - | - |

At this commit all timers of `task.service.ts` and all controller routes except `/health` are commented out: an
operator switches parts on by uncommenting them. The models take what runs, and how often, from those commented calls.

### What the repository does not contain

* **The schema.** `synchronize` is false and there are no migrations. That `pf_trade` has a unique key which a second
  insertion of the same event violates follows from the handling of `duplicate key` (452, 534); that `user_trade` has
  one row per user from the code that updates by address. Whether `pf_tx_id.tx_id` or `user_token.user_adr` is unique
  is not visible at all, so `HashCrawl` and `TokenTable` check both.
* **External systems**, modelled by what the code relies on (these definitions are marked external in the map):
  PostgreSQL at READ COMMITTED with row locks and deadlock detection; Redis as a store of keys with a time to live
  and atomic scripts; BullMQ, where a job id that exists is not added again, a failed job is retried, a job whose
  worker stalls is handed out once more and fails the second time; Solana's RPC service, where finalized data does
  not change and any call can fail.
* **The pump program and the runtime that writes logs.** The logs of `parseTx2` show the form: pump logs an event right
  after a call to itself, and a data line of it nowhere else. Failed transactions are filtered before parsing.
* **Dune's query.** Its result is taken to have one row per user and to grow at its end.
* **A handler for unhandled rejections.** On Node 20 a rejected promise that nobody awaits ends the process;
  `slotQueue.add` at 592 is such a promise, and `LogIngest` models its failure that way.

## 2. Modules

| Module | Models | State and actions |
|---|---|---|
| `TradeLedger` | what the merge promises: a trade is recorded once and counted at most once | `recorded`, `acct`; `Record`, `Count` |
| `MergeTrade` | the merge, one action per SQL statement | the committed tables (`status`, `acct`, `accounts`, `flagged`, `cursor`) and, per loop, the program counter and the local variables of its transaction. `Begin`, `Query`, `Find`, `UpdateUser`, `InsertUsers`, `MarkTrades`, `UpdateCursor`, `CommitTrade`; `ClipSelect`, `ClipMark`, `ClipFlag`, `CommitClip`; `CommitBucket` is another path that saves a bucket; `Fail`, `DeadlockVictim`, `Restart` |
| `HashParse` | sending and parsing recorded signatures, one action per `await` | rows, stored transactions, job states, two locks, what each worker and sender does next, and the un-awaited calls (`fixes`, `unlocks`) as sets of pending work |
| `LogIngest` | the live path | notifications, jobs, the bucket lock, what each worker does next. `excused` is a history variable: the transactions the code may lose; `orphans`, another, holds those whose lock a fault left behind |
| `SlotScan` | the three functions of the block scan | the slot table, jobs, and the local variables of each overlapping call. `foreign` is a history variable: the transactions that another path stored |
| `HashCrawl` | the crawl of past signatures | rows per signature, the cursor of each range, the task each process is at |
| `RedisLock` | one lock and its callers | the key's value and time to live; `lost` is a history variable: the calls inside whose key has expired, or was deleted by a call of their process |
| `LinkedHash` | the two Lua scripts of the ordered map | the sorted set, the content keys, and what was delivered |
| `RedisService` | both on one store of Redis | a behaviour is about a lock or about the map, which share no key |
| `EventStore` | what the paths that store events promise: an event is stored once, in the step that marks its unit of work or before it | `events`, `marked`; `Arrive`, `Save`, `Confirm`. `HashParse` implements it: a unit is a recorded signature. A slot is marked in the step that stores its events and in no other, which `SlotScan` states itself (`SavedTogether`) |
| `UserTokens` | the tables that the next two share | whether there is a unique index, which config rows exist, `pf_create.status`, the `user_token` rows of each user |
| `TokenMerge` | `mergeToken` (796-890) | the cursor and, per process, the locals of its one call. `Begin`, `Query`, `Find`, `Commit`, `MergeFails` |
| `DuneImport` | the import (997-1061, `axios.service.ts`) and the key that `DynamicConfigService` caches | the page number, the cache, the size of Dune's result, the locals of each loop. `Refresh`, `StartImport`, `ReadConfig`, `FetchPage`, `InsertPage`, `RotateKey`, `Execute`, `ImportFails` |
| `TokenTable` | both on one table, with restarts | their composition |
| `BorshLayout` | the layouts of `common.dto.ts` and of the IDL | none: where each field is read from, and whether a short payload throws |
| `EventParser` | `dealLogs`, `handleLogStr`, `formatStr`, `parseLogs` | none: operators from a log to rows |
| `ProgramLog` | how a log comes about: programs call each other, write and return; it may be cut off | the call stack, the log; who wrote each line, who called pump and what it logged are history. `Invoke`, `WriteText`, `WriteData`, `LogEvent`, `Consume`, `Return`, `Truncate` |
| `ParserFixtures` | the two logs of `parseTx2`, line by line | further initial states of `ProgramLog` |
| `MC...` | one instance of each | sizes and the shape of the data |
| `...Proofs` | theorems about `MergeTrade`, `HashParse`, `LogIngest`, `SlotScan`, `HashCrawl`, `RedisService`, `TokenTable`, `ProgramLog` | see section 4 |

Conventions:

* A **transaction of one INSERT or of statements nobody can see between** is one action; the merge, whose statements
  block on each other's row locks, has one action per statement, and its writes appear at `Commit...`.
* **Fields are places.** What a field decodes to is its first byte and its length, so two decoders agree exactly if they
  read the same bytes. A payload is its discriminator, its size and its strings.
* **Accounts are bags of trades.** `user_trade` holds sums; a bag has the same sum exactly if nothing was lost or added
  twice, so the bag shows what a test on sums would have to be lucky to see. Likewise, an amount of `user_token` is a bag
  of creations together with the imported row it started from.
* **A job** is `none` (no key), `waiting`, `active`, `delayed` or `failed`; `owner` is the worker whose token holds it.
  A worker that lost its job goes on and reports to nobody, as BullMQ's stalled check has it.
* **Faults** (`Fault`): an error, a lost answer, a stall or a crash. `MaxFaults` bounds them in TLC's instances; the proofs
  hold for every bound. Lost answers are modelled where they matter: the effect happens, the caller sees an error.
* **Names** are those of the source where it has one (`InitMergePfHashTask`, `DealPfHashTask`, `LockOnce`).
* **Variants** (`...Late`, `...Unguarded`, `...Always` and the like) are mutations of the definition that follows them.
  No specification uses them; they show that a property would notice the bug they stand for.

What is abstracted: amounts and addresses (a trade is its id), log texts (a line of another program that the parser
passes over is a text line), the order of trades within a transaction,
the two event kinds (`pf_trade` and `pf_create` are filled by the same transaction, and a duplicate in either rejects it),
paging of `findBy` results, and logging.

## 3. What the runs check

CHECK_DEADLOCK is off only where the program really comes to rest.

| Run | Bound | What it shows |
|---|---|---|
| `merge_serial` | 5 trades, the last behind a gap of a page of ids, 2 users, 4 transactions in 2 blocks, a sandwich that is split over two pages, pages of 2 rows, all three loops, 2 faults | As long as no two `mergeTrade` transactions overlap: status 1 means counted (`StatusOneIsCounted`), nothing is counted twice (a part of `SerialInv`), the merge refines `TradeLedger`, a page at rest is merged in the end (`PageIsMerged`). A trade whose bucket commits after the cursor passed its id is never counted (`BehindCursorIsFinal`), and a page whose rows were all counted or clipped before the merge reached it, or whose ids do not exist, ends the merge, whatever is behind it (`StallIsFinal`) |
| `merge_overlap` | the first 4 trades, the clip loop and the token loop, which both become merge loops after one round (615-637), 2 faults | What survives overlap: counted trades have left status 0 and belong to their user, only users with a sandwich are flagged; of the open transactions one can always go on or is in a cycle of waits that the database breaks (`NeverStuck`), and every transaction ends, deadlocks between the two lock orders included |
| `merge_lost` | the first 4 trades, the merge loop and the clip loop, without faults | **Violation**: two overlapping merges read the same account and write absolute sums; a trade has status 1 and is in no account. `PfTrade.ts:33` says 1 means counted; `RedisKeys.MERGE_TRADE_LOCK`, which would prevent this, is never used |
| `hash_safe` | 2 rows with one signature, 2 workers and 2 senders in 2 processes, pages of 1, 1 attempt, 2 faults | `DoneHasData`, the refinement of `EventStore`, and the bound on the queue while no send outlives its lock (`BacklogBounded`) |
| `hash_live` | 3 rows, the middle one unparsable, 1 worker, 1 sender, pages of 1, 2 attempts, 2 faults | Every parsable row is parsed, with the exceptions the code makes: its job or one that is read before it failed for good, or unparsable rows fill the page. Once they do, the rows behind them wait for good (`PoisonIsFinal`) |
| `log_ingest` | 2 transactions, 2 listening processes, 2 workers, 2 attempts, 2 faults | A transaction that was heard of is saved or still in the queue (`NoSilentLoss`), and is settled in the end (`HeardIsSettled`), unless its add was rejected, Redis failed at its lock, its job was stolen from a slow worker, or a run of it met the lock that a crash or a failed unlock had left behind. Crashes before the lock, crashes whose lock expires before the next run, failed saves and lost answers are no exception |
| `slot_scan` | slots 1, 2 and 5 (3 and 4 are skipped), interval 1, 2 overlapping refreshes, 1 sender, 2 workers, 2 transactions in slot 1, 1 fault | No gap; done slots have their events; what `parseBlock` stores of a slot it stores together and with its mark, or not at all (`SavedTogether`); every final slot is added unless the scan stalls, and every added slot is parsed unless it or an older one is stuck; both exceptions are final |
| `crawl` | 6 signatures in 4 blocks, pages of 2, 2 processes, 2 ranges that share a page, 3 faults, with and without a unique index | The cursor leaves nothing behind, and neither does a crawl that ends (`FinishedIsCrawled`); a signature has two rows only after a fault, with two processes or in two ranges; each range is crawled, or, with the index, a crawl is stuck until its process restarts |
| `user_token` | creations 1, 2 and 4 (3 was rolled back) of 2 users, 2 processes, one of which imports, pages of 2 ids and of 2 rows, a result that grows to 2 rows, 1 fault, with and without a unique index and each config row | As long as no two `mergeToken` calls overlap, the one row of a user is exactly what was counted and imported (`AmountIsExact`). A user with two rows, or a page with nothing to count, stops `mergeToken` for good (`JamIsFinal`); rows that the result gains on a page that was already fetched are never imported (`SkippedIsFinal`), and every other row is, unless the import is blocked (`ImportedOrBlocked`) |
| `event_parser` | pump and 2 other programs, calls 3 deep, 2 lines of text or data of others, 12 lines; an event of each kind, a copy of a trade, a stub and a near miss by others; the logs of `parseTx2` | What `dealLogs` takes was written by pump or a program that called it (`TakenIsNear`); every event of pump becomes one row, in order, or the parser throws on a line of another program (`PumpEventsFound`); `parseLogs` finds the first of these trades and reads the same bytes (`ParseLogsAgrees`) |
| `redis_service` | lock: 3 calls, two of them in one process, time to live 2, 2 retries, 2 faults; map: 3 keys, 4 puts, no range | Of two calls inside, one has lost its key, by expiry or to a call of its own process that had lost its key before (`Exclusion`); every `lock` ends. Every put is delivered once unless it expired or was replaced. The two share no key: a behaviour is about one of them |
| `linked_wrong_end` | the map with range 1 | **Violation**: with a range, `linkedHashRemove` returns the oldest entries and removes the newest |

Why these bounds are enough to mean something: each instance is the smallest in which the case its properties are about
occurs. Pages of two rows make every trade the first or the last of a page; a sandwich is split over two pages, so that
the clip update empties one that the merge has not reached, and a trade behind it, and behind a gap of ids, shows the stall; the clip and token
loops turn into merge loops after one round, so two merges do overlap; two rows of
one signature make two jobs compete for one lock; a second fault lets a failure follow a failure (a crash after
a lost answer). Three calls in two processes show what one
uuid for all calls of a process does. With a page of one row the second row only enters the queue when the first has left it, which is what
bounds and starves at once. Two skipped slots are the whole range of a refresh with interval 1. A shared page of
two ranges is the smallest collision of two crawls, and a block of three on pages of two is split wherever the crawl ends. A result of two rows on a page of two can be fetched with one of
them. Twelve lines hold a call of pump by another program, pump's call of itself, an event and a data line of the
caller. Every property has a mutant, a plausible bug in the code it is about, that TLC finds under the same configuration.

What is left out for the sake of the state space: in `slot_scan` a second sender, so that two sends that overlap are covered by
the theorems about any number of senders, not by `DoneOrStuck`; in `hash_safe` two workers of one process, which
`DoneRecordsHaveData` covers, as its `NodeOf` is any function; in `redis_service` a range of the map, with which the two
properties of the map are false (`linked_wrong_end`).

Type invariants are not run: they are proved (section 4).

### Fairness

Fairness is assumed of what the program or its environment schedules again and again, never of failures or of luck:

* timers fire again (senders, refreshes), loops go on, an `await` returns: weak fairness of each call's next step;
* a waiting job is handed to some worker: strong fairness of taking it, as a worker is busy in between;
* the statements of the merge: strong fairness, since PostgreSQL queues the waiters of a row lock, so that a waiter
  is not overtaken forever; deadlocks are broken by the database (`DeadlockVictim`);
* backoffs, locks and stalled jobs run out: weak fairness of time;
* the chain grows (`Finalize`);
* the import's loop goes on, and the refresh of the cache, which the start of a process calls, is run. Nobody has to start
  an import, execute Dune's query again or replace its key.

Nothing makes another path store a transaction, nothing makes BullMQ drop a failed job (it does so only when a later
one fails), and a fault never has to happen.

## 4. What is proved

TLAPS checks these for all values of the constants that satisfy each module's `ASSUME`: any number of processes,
workers, rows and faults.

| Theorem | Statement | Argument |
|---|---|---|
| `MergeTradeProofs!TypeCorrect` | `Spec => []TypeOK` | one step per action |
| `CountedSettled` | `Spec => []CountedIsSettled` | strengthened by what each transaction has read: an account value read earlier only holds settled trades (`SettledInv`), since settled is for good |
| `FlagsEarned` | `Spec => []FlagSound` | `FlagInv`: a user that a clip has picked has a sandwich in the table, and rows are never deleted |
| `MergeNeverStuck` | `Spec => []NeverStuck` | `IdleInv`: a loop without a transaction has no locals, so rows are locked by open transactions only. An open transaction that cannot go on awaits another (`WaitsOrProceeds`), and among finitely many that all wait, one of those that awaits the fewest, directly or not, is in a cycle (`LeastElement`, `CycleExists`) |
| `TransactionsDescend` | every step leaves an open transaction alone, or leaves it fewer statements to come | a page is a part of an interval, so its accounts are finitely many (`PagesAreFinite`), and every `UpdateUser` takes one of them; every other statement is passed once |
| `SerialInvariance`, `SerialStatusOneIsCounted`, `SerialCountedAtMostOnce` | `SerialSpec => []...` | `SerialInv`: while a merge runs alone, the cursor and the accounts it read are still the committed ones (`TransactionIsolated`), so its absolute writes are increments. `StatusOneIsCounted` alone is not inductive: a commit preserves it only if the accounts read are current and every user of the page was written |
| `SerialImplementsLedger` | `SerialSpec => ImplementsLedger` | every commit of a merge is `Count`, of a bucket `Record`, everything else stutters |
| `SerialBehindCursorIsFinal` | `SerialSpec => BehindCursorIsFinal` | only trades of the page after the committed cursor change an account |
| `SerialStallIsFinal` | `SerialSpec => StallIsFinal` | a row that was counted or clipped never gets status 0 again, and a merge of such a page ends before it writes the cursor |
| `HashParseProofs!DoneRecordsHaveData` | `Spec => []DoneHasData` | `DoneInv` adds that a pending un-awaited update is for a signature whose events are stored |
| `ParsingImplementsStore` | `Spec => ImplementsEventStore` | a save is `Save`, an update of the status `Confirm` by `DoneInv`, another path `Arrive`, everything else stutters |
| `QueueIsBounded` | `Spec => []BacklogBounded` | `BacklogInv`: as long as none has outlived its lock, one send at most is at work; what it counted is still an upper bound on the queue, and a page has at most `TaskSize` records (`OldestSize`, by a least element of the naturals) |
| `PoisonStays` | `Spec => PoisonIsFinal` | `SaveInv`: a process saves only parsable records; a full page of others does not depend on what is recorded behind it (`OldestKept`) |
| `LogIngestProofs!NothingLostSilently` | `Spec => []NoSilentLoss` | `LossInv`: as long as a transaction is not excused, one worker at most is at it and owns its job (`SoleRun`), and a lock without such a worker was left behind by a fault, or means that it is stored |
| `SlotScanProofs!TableHasNoGap` | `Spec => []NoGap` | `ScanInv`: what a refresh read is a prefix of the slots after its start, and everything below the start was known when it began; two overlapping refreshes either collide on an id or extend each other |
| `DoneSlotsHaveEvents`, `StuckStaysStuck`, `StallStaysStalled` | `[]DoneHasEvents`, `StuckIsFinal`, `StallIsFinal` | the first by `SavesAreAtomic`. `QueueInv`: only known slots are in the queue; a stalled refresh that was begun earlier cannot add a slot either |
| `SavesAreAtomic` | `Spec => []SavedTogether` | `SaveInv`: what another path stored is stored. A save needs that none of the block's events is stored yet, and slots share no event (`SlotsAreDisjoint`); `DoneSlotsHaveEvents` follows |
| `HashCrawlProofs!CursorComplete` | `Spec => []CursorIsComplete` | `CrawlInv` extends it to the tasks of all processes, which may be behind or ahead of the stored cursor; a page has no holes (`PageIsInterval`) |
| `FinishedCrawlsAreComplete` | `Spec => []FinishedIsCrawled` | an empty page means that nothing is older (`EmptyPageIsEnd`, by the newest of the older ones), and a page that ends in a block not beyond the end of the range has passed all that is (`TaskEnds`); what is recorded stays so |
| `CrawlsEnd` | a page that was not rejected or lost takes the crawl to an older signature or ends it | a page before `b` is not empty unless nothing is older than `b` |
| `StuckStaysStuck` | `Spec => StuckUntilRestart` | rows never go away; only a process that runs has tasks |
| `NoDuplicates` | `Spec => []DuplicatesExplained` | `FreshInv`: undisturbed, every task is at its cursor, and what is recorded is covered by a range that has passed it |
| `RedisServiceProofs!LockExcludes` | `Spec => []Exclusion` | a call inside that has not lost its key is of the process whose uuid the key holds, and of its calls inside there is one such at most (`Holds`, `Covered`); a step of the map does not touch the key (`ServiceLockExcludes` is the property of the composition) |
| `AttemptsAreBounded` | a call of `lock` makes at most `maxRetryTimes` + 1 attempts | each attempt raises `retryTimes` or ends the call, and nothing lowers it |
| `MapDeliversOnce`, `MapLosesNothing` | with no range, `Spec => []DeliveredAtMostOnce`, `Spec => []NothingLost` | `MapInv`: each member of the sorted set stands for the last put of its key, which was not delivered, and the content is that put's unless it expired; a put that is not a member's was delivered, replaced or has expired |
| `TokenTableProofs!AmountsExact` | `Spec => []AmountIsExact` | `ExactInv` adds what a call that runs alone relies on (`Isolated`): what it found is not counted, and the row it read of a user is still the first, unchanged one: the import only appends |
| `JamStays` | `Spec => JamIsFinal` | rows of a user never go away; no call that is before its `Find` gets past it |
| `SkippedStaysSkipped` | `Spec => SkippedIsFinal` | an importer holds only rows of the page it is at (`RowsOfPage`), and every page under way is beyond a skipped row |
| `ProgramLogProofs!TakenNear` | `Spec => []TakenIsNear` | `NearInv`: behind a success of pump runs its caller, pump, or nobody (`SuccessInv`), callers of pump on the stack are remembered (`CallersInv`), and the program that wrote the last line, if it is data, still runs (`DataInv`), so a line of pump next to it makes it pump's or its caller's. The property alone only speaks of complete logs |
| `PumpEventsAreFound` | `Spec => []PumpEventsFound` | `EventsInv`: the data lines of pump are the events it logged, each behind a success of pump (`DataByInv`, `EmittedInv`), so the parser takes them all (`PumpIsTaken`). After each line the bucket has one row of each event up to there, unless the parser has failed on a line of another program (`BucketMatches`). `dealLogs` and `EventsOf` are functions that recur over the log: `RecursionExists` shows, by the least length for which there is none, that such functions exist, and the other lemmas unfold them one line at a time |
| `ParsersAgree` | `Spec => []ParseLogsAgrees` | without a disguised line `parseLogs` takes the lines of pump's trades and no others (`CandidatesArePump`); the events begin with the trade of the first of them (`FirstTrade`); both layouts put its fields at the same bytes (`TradeOffsets`, `StructOffsets`) |
| `EncodedLengthIsBase64Length` | the base64 of a payload is as long as base64 makes it | arithmetic |
| `TypeCorrect` of every proof module but `ProgramLogProofs` | `Spec => []TypeOK` | one step per action |

The assumptions are those the modules name. Besides the types of the constants and that `None` is not a value of the sets it
is added to: in `HashCrawl`, that there are finitely many signatures and that older signatures are in older blocks; in
`MergeTrade`, that there are finitely many loops (the code has three); in `ProgramLog`, that what pump logs is well
formed: an event of its IDL, a trade of the size of the struct, told from the payloads of others (`PayloadAssumption`).
The theorems about the map assume `Ranges = {0}`, no call gives a range; with a range they are false (`linked_wrong_end`).

Only model-checked is all liveness (`TransactionsEnd`, `PageIsMerged`, `ParsedOrFailed`, `HeardIsSettled`, `ScannedOrStalled`,
`DoneOrStuck`, `RangeIsCrawled`, `LockEnds`, `ImportedOrBlocked`), which is out of the prover's reach. Three of
them are proved as far as safety goes: for `TransactionsEnd`, that an open transaction can always go on, or the database ends
one (`MergeNeverStuck`), and that none goes on without end (`TransactionsDescend`); for `RangeIsCrawled`, that a crawl goes back
with each page (`CrawlsEnd`) and has recorded its range when it ends (`FinishedCrawlsAreComplete`); for `LockEnds`, that the
attempts are bounded (`AttemptsAreBounded`). What remains there is fairness. Every invariant and every action property of the
passing runs is proved.

## 5. What a reader should know about the code

Some of the properties are about losses the code really has; they hold because they state the exception:

* a scan stops for good when all slots of a range are skipped (`StallIsFinal`);
* a slot with an event that the log listener stored first is never done, and enough of them stop the scan (`StuckIsFinal`);
* rows of failed transactions stay at status 0 and fill the sender's page (`PoisonIsFinal`);
* a bucket whose run was cut short between lock and save is dropped by the next run if that meets the lock left behind (`NoSilentLoss`);
* a trade that commits behind the cursor is never counted (`BehindCursorIsFinal`);
* a page in which every row was clipped before the merge reached it, or a gap of a page of ids, stops the merge for good (`StallIsFinal`), and
  likewise `mergeToken` (`JamIsFinal`), which a second row of a user, such as the import inserts next to it when there is
  no unique index, stops as well;
* rows that Dune's result gains on a page that was fetched when it was not full are never imported (`SkippedIsFinal`);
* a data line that a program logs next to a call of pump is taken for pump's (`TakenIsNear` says by whom it can be written);
* with a unique index, a crawl whose answer to COMMIT was lost retries one page until its process restarts (`StuckUntilRestart`).

## 6. Plan, and what is not modelled

Done: `MergeTrade` with `TradeLedger`, then `RedisLock`, `HashParse`, `LogIngest`, `SlotScan`, `HashCrawl`, `LinkedHash`;
`UserTokens`, `TokenMerge` and `DuneImport` with their composition `TokenTable`; `EventStore` and its refinement; the event
parser; and the proofs.

Open, in this order: the compositions of `HashCrawl` with `HashParse` (a signature that is recorded is parsed in the end) and
of the three ingestion paths on one `pf_trade` instead of `StoreElsewhere`; and the connection pool.

Not modelled:

* **The connection pool.** An early return (802-804, 1019-1022) or an empty page (1027) leaves a transaction open. What the
  next user of the connection then joins depends on the pool and the driver, which are not in the repository. In
  `TokenTable` such a round changes nothing and locks nothing.
* **Which trades a clip should count** (772), and users whose sandwich is committed late (777): no comment or test says what is
  intended. `FlagSound` states the direction that is clear.
* **Column types** (689): sums are bags, so that digits lost above 2^53 are not seen.
* **The unique key of `pf_trade`** (452): the events of one transaction are stored together or not at all in every model.
* **A log that was cut off.** The lines that are lost are unknown to the parser and to every property about it.
* **Contents of fields.** Wrong values in a well-formed event are pump's affair.
* **The imports of trades and clips** (1063-1207), all timers of `task.service.ts` and most routes are commented out. The
  models take how often the other functions run from those comments.
* **Redis wrappers** that are one command each, the client's connection, the HTTP surface with its filters and interceptors,
  bootstrap and logging, `tradeList` and `saveTrade`: no state of their own, or a single read or insert.

## 7. Running it

```
tlc -workers 2 -config MCMergeTradeSerial.cfg MCMergeTrade
tlapm MergeTradeProofs.tla
```
