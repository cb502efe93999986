# Verification of txTheRipper

txTheRipper follows an Ethereum archive node, extracts from every confirmed block
the transactions and the accounts ("topics") they touch, stores them in
PostgreSQL and notifies subscribers. This directory holds TLA+ modules of its core, the TLC
configurations that check them, and TLAPS proofs. `PROJECT.json` maps every
definition to the lines it models, lists the hazards of the code with the properties about
them, and gives each property a plausible bug that it notices.

    tlc -config SynchronizeCrash.cfg Synchronize.tla      # any .cfg with its module
    tlapm SynchronizeProofs.tla

## 1. Inventory

| component | source | state | operations |
|---|---|---|---|
| Synchronization cycle | `application/sync.js`, `extractBatch.js`, `importPg.js`, `finalizeBatch.js` | the global `txQueue`; files in `derived/tmp`; tables `transactions`, `topic` | `synchronize`: extract the blocks past the sync point, convert, import with psql, move the sync point |
| Flags and counters | `db/application_data.js` | rows `block_sync`, `last_block_scanned`, `transactionId`, `working`, `pause`, `mode`, `init_sync_1..5`, `kickstart:*` | getters and setters; each catches its own error and returns `undefined` |
| Main loop | `ripper.js`, `utils/events.js` | web socket, `deBounce` of its closure, pending timers, `onlyOnce` | block listener, `doSynchronize`, reconnection, `cleanup` on signals, listener of `close` |
| Batch conversion | `convertBatch.js`, `convertChild.js` | redis keys `ripper:contractCache`, `ripper:child:*`; part files | split, one child per part, put together |
| Topic extraction | `utils/txUtils.js` | none | addresses out of a trace |
| Start-up | `ripper.js` `init`, `initialInit` | pid file, rows `init`, `mode`, `block_sync` | first initialization, mode check, one process at a time |
| Kickstart | `ripper.js` | rows `kickstart:*`, the marks | import numbered SQL files |
| Partitions, indexes, popular addresses | `db/init.js` | the schema, `contract_cache`, `indexId` | `initPartitions`, `initIndexes`, `assignPopularAddresses` |
| Export | `cli/exportData*.js` | a height file, the SQL files | writes what kickstart reads |
| Subscriptions | `application/subscriptions/*`, `db/subscriptions.js`, `db/redis.js` | cache of subscribed accounts, sockets, redis channels | route a block's data to subscribers |
| CLI | `application/cli/*` | none of its own | pause, unpause, nuke, export, the menu of subscriptions |
| Contract cache, extras, external readers, logging | see `PROJECT.json` | none of their own | single queries, reports |

How they interact. A block event of the node starts a handler; the handler
reads `working`, and when it is clear calls `synchronize`, which reads it again and
sets it. The cycle talks to the node by RPC, to subscribers through the router
while it reads blocks, to redis and child processes while it converts, and to a `psql` child
that runs the whole batch as one SQL transaction. The operator talks to
it through the row `pause`, written by the CLI (another process) or by the signal
handler. Everything durable is a row of PostgreSQL, and the rows are
written by separate statements.

What is hard, and what makes each part correct:

* **Cycle.** The scan mark, the archive together with the id counter, and the sync point are three separate
  commits. Anything may fail between them, psql may outlive its
  parent or report failure after it committed, and a failed query looks like a
  missing row. Correct means: no hole below the sync point, each block once, ids in block
  order and unique, nothing of a reorganized chain, and progress.
* **Main loop.** The flags are read and written with queries; other handlers run in between, and
  `deBounce` does not keep them out. Correct means: one cycle at a time, announced by
  `working`; a pause or signal ends the process, and between cycles.
* **Conversion.** Slices and results travel through redis or files, which workers of a dead parent
  share with those of the next; every redis call swallows its error, and the cached address table survives the
  database it was read from. Correct means: every stored topic stands for the account that was meant, in its
  place; no batch is short; the parent never waits for a worker that will not end.
* **Start-up, kickstart, export.** Some twenty statements over files and tables, most of which log an error and
  go on, and any of which may be the last one. Correct means: one process at a time, a mode that is kept and vouches for its first block,
  no hole and no block twice after an import, byteIds that fit the address cache, marks of indexes that exist.
* **Subscriptions.** A list that is cached for an hour while the menu changes the table, timers that are set by every
  query, listeners that outlive their connections, traces whose items interleave, nest and fail. Correct
  means: exactly the accounts a transaction touches are announced, to exactly those who registered, as often as they did.

## 2. Modules and plan

| order | module | what | status |
|---|---|---|---|
| A | `Synchronize` | one cycle after the other, with faults, crashes and restarts | done |
| B | `Ledger` | what a collection of processed blocks promises; refined twice by A | done |
| C | `SynchronizeProofs`, `SynchronizeLedgerProofs` | every safety property of A, and the two refinements | done |
| D | `RipperMain`, `MCRipperMain` | block handlers, deBounce, reconnection, signals over the two flags | done |
| E | `RipperMainProofs` | mutual exclusion, the announced cycle, the pause request | done |
| F | `ConvertBatch`, `ConvertBatchProofs` | split, workers, redis, merge; killed parents, dying workers | done |
| G | `Startup`, `StartupProofs`, `StartupArchiveProofs` | init with crashes, mode, pid file, kickstart, export, partitions, indexes, nuke; the second module of proofs has what concerns the archive | done |
| H | `Topics`, `TopicsProofs`, `Subscriptions`, `SubscriptionsProofs` | extraction against a reference definition, the cached list, listeners, delivery | done |

How they compose. `Subscriptions` extends `Topics`: the topics it routes are those the algorithm extracts.
`Synchronize` has the conversion as one step by its promise, which is what `ConvertBatch` checks (`Translated`,
`NotMunged`); `Startup` has a cycle as three steps, between which it may be killed, by what `sync_exact` and `sync_crash` establish of them;
`RipperMain` has only the flags of the cycle and takes the handlers apart. The modules that a theorem is about use no `RECURSIVE`
operator; the algorithms fold. Every invariant and every action property that a run checks, and both refinements, are proved as well.

## 3. Synchronize

One variable per row of `application_data` that the cycle uses, the table
`transactions` as a set `rows` of `[id, block, fork]`, and the locals of the
functions of a cycle. `pc` is the place between two awaits that touch shared or durable
state; every action is the code from one such place to the next, with its early returns.

| actions | code |
|---|---|
| `NewBlock`, `CheckPause`, `Plan` | head of `synchronize`, with the flag accesses of `doSynchronize` |
| `ExtractBlock`, `Commit`, `PollPause`, `LastCommit` | one round of the loop of `extractBatch`, `commit`/`commitMem`, the pause check, the commit after the loop |
| `Convert` | `convertBatchAccounts`, by what it promises: same entries, same order |
| `ReadTransactionId`, `InitTransactionId`, `PsqlCommits`, `PsqlFails` | `importTransactionsToPg`, `addDb` and the SQL file |
| `FinalizeRead`, `Publish` | `updateAppData` |
| `CleanupSync`, `LastPause`, `Close` | the way out of a cycle and of the program |
| `Grow`, `Reorg`, `Pause`, `PowerFail`, `Kill`, `Orphan*`, `Start` | the node, the operator, crashes, a psql whose parent was killed, the next start |

`Faults` says which kinds of failure an instance has and `MaxFaults` how many in a
behaviour: a failed query (`query`), a failed import (`psql`), an import that
commits and reports an error (`report`), RPC, trace and worker errors, a
reorganization, a pause, a power failure, a kill. A swallowed error is modelled
as what the caller sees: a getter returns undefined; a setter may or may not have stored.

Abstractions. A block has one transaction or none. The select, update and select of
a setter are one step, and `doSynchronize` with the head of `synchronize`
is one step (`RipperMain` takes it apart). The height of the node never
decreases; a reorganization replaces up to `MaxReorg` of its last blocks. At most
one orphaned psql at a time. `JSON_TX_FILE_MAX` counts transactions. Disk mode and
RAM mode differ in where the queue is kept, not in what is imported. The mode
"pruned" is "sync" with another `FirstSync`. Index builds and `checkPartitions` are not
here. The flags are reset at start, the default (`DEV_STOP_FLAGS_ENABLE` unset).

### Runs

Bounds of all of them: `FirstSync = 1`, heights up to 7, two confirmations, so that
blocks 2 to 5 are synced; a commit every two blocks and a limit of one entry, so that a
batch ends over the limit, under it, and at both kinds of last block; block 4 is
empty. That gives several batches in one behaviour, full ones, short ones and one with a trailing empty
block. Two or three faults put a second one into the recovery from the first.

| run | question | result |
|---|---|---|
| `sync_exact` | Without crashes, is the archive exact? `IndexedOnce`, `IdsFollowBlocks`, `UniqueIds` under failing imports, RPC and worker errors, reorganizations, pauses | holds |
| `sync_crash` | Is there ever a hole (`SyncedIndexed`), does the cycle implement `Ledger` (`ArchiveIsLedger`), does every confirmed block get synced (`EventuallySynced`), does a pause stop the program (`PauseEnds`), with crashes, orphans and imports that fail or lie | holds |
| `sync_faults` | With every kind of fault: types (`TypeOK`), nothing off the canonical chain (`Canonical`) | holds; deadlock is allowed because a swallowed `setBool('working', false)` stops the program until a restart |
| `sync_subscription` | In subscription mode, is a block ever skipped (`SyncedRouted`, `FeedIsLedger`) | holds |
| `sync_duplicates` | Is a block indexed once across a power failure? | **violated**: a crash after psql's COMMIT and before `setInt('block_sync')` imports the batch again, under new ids |
| `sync_id_reset` | Are ids unique when one query fails? | **violated**: a failed `getInt('transactionId')` restarts the counter at 0 |

The two violations and those of section 4 are the `findings` of `PROJECT.json`.
`sync_exact` leaves out what the first refutes, `sync_crash` what `query` and `trace`
faults refute by design (a swallowed trace error drops the block's transactions, a failed read
moves the sync point to 0 or nowhere).

Fairness: weak fairness of the cycle (the event loop runs it), of psql (it ends), of the growth
of the chain and of `Start` (the operator restarts the program); strong fairness
of `NewBlock(tip)`, because the handler may be busy or down in between and may be
given a block that is not the newest, but not for ever. No fairness of any fault.

## 4. RipperMain

Here the flags are accessed one query at a time and several handlers are under
way; a handler's `pc` names its next access. `Block`, `Bounced`, `TimerFires`,
`Return`, `Reconnect` are the listener of `setUpWsProviderAndGo` with its timers;
`Look` to `LastPause` are `doSynchronize` and `synchronize`, the inside
of a cycle reduced to `extracting` and `importing`; `Close` and `Exit` the listener
of `close`; `Signal` to `ExitLocal` the signal handler `cleanup`. A timer of a
closed socket only touches that socket's `deBounce` and is dropped.

Two things are chosen at the start. `prompt` says whether a behaviour lets a handler start, or an
index build end, while another handler is between its look at `working` and its claim.
With `prompt` FALSE the interleavings are not restricted. `prompt` TRUE is the
case the code relies on, a database that answers faster than block events follow each other.

`faulty` is the set of places of the code where something may fail, any number of times. Every accessor of
`application_data.js` swallows its error, so that a setter may leave its row as it was and a getter may answer
`undefined`, which each caller takes for TRUE or FALSE in its own way; and a conversion may hang (section 5). `Faults` says which sets
an instance looks at; the proofs are about all of them. Each property names the places that must work for it, and no more:

| property | does not stand a failure of | because |
|---|---|---|
| `OneCycle`, `CycleIsAnnounced` | the claim (`sync.js:51`), and needs `prompt` | the cycle goes on with `working` clear, and a later handler finds it so |
| `PauseHeld` | `markPaused` | `cleanup` goes on, finds a cycle, and waits for it with no pause set |
| `ExitHappens` | the six places of `Needed`: `markPaused`; the first look at `working` and at the pause in a cycle; the conversion; the release of `working`; the clearing of the flags at a start | the request is not there, no cycle gets to see it, or no cycle ends. TLC refutes it for each of the six alone |

Everything else may fail: `MCFaults` has, for the safety properties, all places but the claim and `markPaused` at once, and for
`ExitHappens` all but those of `Needed`.

Bounds: two handlers, one pending timer, two sockets. Two handlers are what every
race here needs. Deadlock is allowed: with both handlers in a conversion that hangs, the program really stops.

| run | question | result |
|---|---|---|
| `main` | `TypeOK`; with the provisos above, one cycle at a time and an announced one (`OneCycle`, `CycleIsAnnounced`), a pause that is not lost while `cleanup` waits (`PauseHeld`), and a signal that ends the process (`ExitHappens`) | holds |
| `main_overlap` | Do the flags exclude without `prompt`, when nothing fails? | **violated**: both handlers look before either claims |
| `main_exit` | Does an exit ever cut into a cycle, when nothing fails? | **violated**: `cleanup` reads `working` clear and lifts the pause; a handler claims in between, sees no pause, and is cut off |

`ExitHappens` also shows that the event `exit`, which `cleanup` waits for and nothing emits, is not
needed: some cycle sees the pause and exits.

Fairness: weak fairness of every handler, that is, each of its awaits ends unless the conversion is hung, of the timers, the signal handler and `Start`; blocks keep
coming. `IndexEnd` has strong fairness, only because `prompt` may disable it while other handlers pass by.
Reconnections and signals may never happen.

## 5. ConvertBatch

The variables of `convertBatchAccounts` (`queue`, `addressCache`, `out`, the offset `at`), one process per
slice, and what they share: `cached` is the redis key `ripper:contractCache`, `store` holds the slices and results (redis keys
`ripper:child:*`, or files), `table` is `contract_cache`. A transaction is its one topic; the byteId of an account
is its place in the table.

| actions | code |
|---|---|
| `Begin`, `Lookup`, `LookupFails`, `ConvertAll`, `Clear`, `Deploy` | `convertBatchAccounts` up to the workers, both ways (`USE_MULTI_THREADS`) |
| `AllExited`, `OneFailed`, `Collect`, `Combined`, `Import` | `Promise.all`, the loop that reads the results, the check of the length, the caller |
| `Boot`, `Look`, `LookAgain`, `Reinsert`, `Translate`, `Die` | `convertChild.js` between its awaits |
| `Kill`, `Start`, `Nuke` | the parent dies and its workers do not; the next start; the CLI's nuke, which leaves redis alone |

`config` is chosen once per behaviour: the number of threads, redis or files, and two facts about the environment. `steady`: redis answers and
keeps what it is given, and a worker can write its file. `flushes`: somebody flushes redis with every nuke of the database. A property that needs one of them
says so.

| run | question | result |
|---|---|---|
| `convert` | Are topics ever mixed up, between slices, jobs, or a dead parent's workers and the next one's (`Translated`, given `flushes`)? Are there more workers than threads (`FewWorkers`), results of the wrong length (`NotMunged`)? With `steady`, does a worker or the parent wait for ever (`NoHang`, `WaitEnds`)? | holds |

Bounds: two batches of three entries that differ in every place, and the empty one; 0, 1 and 3 threads, which give the parent alone, the
division by zero with its single slice, and two slices of unequal length; a cache of one of two accounts; one fault,
which may be a kill that leaves the first job's workers beside those of the second.
Deadlock is allowed: without `steady` the program may hang, which is the point. Fairness: the event loop runs the parent (`Proceed`), and each worker is a process of its own.
None for `Start`, `Begin` and the faults.

What the provisos hide is real. Without `flushes`, `Translated` fails: byteIds of a
table that is gone are stored. Without `steady`, a worker whose first look misses the cache and whose second
look finds it never parses it, throws, and is kept alive by its redis connection, as is one whose file cannot be written;
`Promise.all` waits for it for ever.

## 6. Startup

`init` of `ripper.js` statement by statement: `at` is the place of the process that is in, `pc` says of every process whether it is off, about to check the pid
file, about to write it, or in. `app` is `application_data`; a row of the archive is `[block, id, codes, kicked, late]`, where `codes`
says with which table of byteIds it was written, `kicked` how often it was kickstarted, and `late` tells the rows an orphaned psql commits
from those of the cycle that does the same blocks again.

| actions | code |
|---|---|
| `StartProcess`, `CheckPid`, `WritePid`, `Kill` | the pid file |
| `InitTables`, `InitDefaults`, `CheckMode`, `CheckInit` | `initTables`, `initApplicationDefaults`, the mode |
| `InitBlockSync`, `MarkInit`, `FirstBlock`, `StoreMode` | `initialInit` |
| `InitPartitions`, `PopularAccounts`, `InitIndexId`, `AssignAddresses`, `AssignAfterText` | `db/init.js` |
| `KickstartCache`, `KickstartBegin` to `KickstartEnd` | `kickstartCache`, `kickstartData` |
| `ResetFlags`, `LookFlags` | the end of `init` |
| `ExtractBatch`, `ImportBatch`, `FinalizeBatch` | a cycle: the counter is read and the sql file written, with the byteIds of the cache `redis` has (`AddressCache`); psql; the mark |
| `Synchronize` | a cycle without rows (mode "subscription", no sync point) |
| `OrphanCommits`, `OrphanEnds` | a psql whose parent was killed |
| `IndexBuild`, `IndexMark`, `Pause`, `PauseExit` | `initIndexes`, the pause |
| `Unpause`, `Nuke`, `ExportBegin`, `ExportFile`, `ExportEnd`, `ChangeMode` | the operator: CLI, export, `.env` |

`odd`, chosen once, is the one kind of disturbance a behaviour may have: kills that end psql too (a power failure); kills that
leave the psql of an import running (`orphan`); an operator who nukes the database and leaves redis as it is (`stale`); a psql that fails; queries that
fail; two processes started at the same moment (`race`); an export in the middle of a chunk (`ragged`);
`DEV_STOP_FLAGS_ENABLE`; a missing `PRUNE_DEPTH`; and `unclean`, an operator who kickstarts or exports data that
does not belong to the database. Every property names the disturbances it does not stand, and is checked under all
others. So each one states what a guarantee of the set-up rests on.

| property | does not stand | because |
|---|---|---|
| `OneProcess` | `race` | the pid file is read and written in two steps |
| `ModeKept`, `ModeVouches` | a failed query (`ModeVouches` also `unclean`) | a failed read of `init` or `mode` looks like a first start |
| `NoHole` | `psql`, `query`, `ragged`, `unclean` | a kickstart file that fails is logged, and the next one moves `block_sync` past it |
| `Decodable` | `stale` | `convertBatchAccounts` takes the cache from redis, which outlives the database |
| `Decodable`, of kickstarted rows | `psql`, `unclean`, `race` as well | the check of `kickstart:cache` (ripper.js:272) lacks its `await` and stops nothing |
| `LoadedOnce` | `kill`, `orphan`, `devStop`, `psql`, `query`, `unclean`, `race` | `kickstart:import` and `block_sync` are stored after the rows are committed |
| `IdsClash` | `query`, `orphan` | a failed read of `transactionId` starts it again, and a late commit sets it back; and it says only what is left: a kickstart never sets `transactionId`, so that blocks indexed later take ids of kickstarted ones |
| `IndexesBuilt` | `psql` | `execSqlFile` resolves whatever psql says |
| `CacheFilled` | `psql`, `query`, `kill`, `orphan`, `devStop` | the `indexId` that is found again is text; `id += 1` appends to it, and psql rejects the file |

One run, `startup`, checks them and `TypeOK`; all hold. Bounds: two processes (symmetric; enough for a race), heights up
to 5 with partitions and export chunks of three blocks, so that there are files, a chunk that reaches past the sync point,
and blocks past the last partition; two indexes; two tables of byteIds, one from before a nuke; one fault.
Deadlock is allowed: an operator may leave everything down, and a program in the command line interface waits for a person.
Only safety is stated, since almost every promise of progress fails by design under a disturbance.

That `race` breaks `Decodable` and `LoadedOnce` was found by their proofs and is beyond the two processes of the run: one
passes the check of the pid file to kickstart and stalls before its write; another one, that passed with it, initializes the
database, indexes blocks and is gone; the first goes on and loads files on top of that.

Abstractions. A block has one transaction; a file of an export therefore has rows, and one without rows stands for none. Which accounts are popular is a file. `checkPartitions` is called without a
height and adds no transactions partition: imports past the last one fail (`Commit`, `ImportBatch`).
Queries that fail within a cycle, but for those of the counter and the mark, are left to `Synchronize`; only the psql of an import can be orphaned, not
one of a start; and the operator nukes the database when no such psql is left. Two processes that are in at once are not followed any further. The export child takes a chunk while it begins below
`block_sync`; when the rest does not fill a file, `extractData` calls itself without end, and `ExportEnd` is the operator who
interrupts it.

## 7. Topics and Subscriptions

`Topics` is `extractTopicsFromInputData` as folds over the items of a trace, and `Touched`, what a reader of the trace would say. The word of an
input is one of the accounts or something else: the hex test of `decodeInputData` is abstracted to that. `Select` is
what `SelectSeq` is, as a fold, which the provers can open. `IsTrace` is what the node gives.

`Subscriptions` has the table that `cli/subscriptions.js` edits (`rows`), the list of `accounts.js` with its timers
(`acctSubs`, `timers`, `refreshing`), the block that is routed (`trace`, `todo`, `sent`), and the sockets
(`conn`, `lookups`, `listeners`).

| actions | code |
|---|---|
| `CreateProfile`, `Add`, `Drop`, `SetEnabled` | the menu |
| `ProcessBlock`, `Answer` | `router.data`, `process` and `deliver`; the first block asks for the list |
| `Timeout`, `Refresh` | the `setTimeout` of `poll` |
| `Connect`, `Disconnect`, `Ask`, `SetListener` | `socketServer.js`, `ipc.js`; the profile is looked up by a query |
| `Restart` | the process dies and comes back |

| run | question | result |
|---|---|---|
| `subscriptions` | Is everybody on the list told of exactly the transactions that touch the account (`Complete`, `Sound`), once per registration (`Once`)? Do the timers multiply (`Timers`)? Is a stale list renewed (`Refreshed`), and does routing end (`RoutingEnds`)? | holds |

A message is sent when it is handed to the socket or to `redis.publish`, which swallows its error. One block is routed at a time: two cycles that
overlap (section 4) could both ask for the first list.

`Complete` compares what is sent with `Touched`, so that it checks the extraction and the delivery together. Its provisos
are the code's: a block whose query failed goes unannounced (`missed`), and `SUB_TYPE_ACCOUNT` must be set. The comment at
`socketServer.js:28` has `SUB_SUSPEND_ALL` the other way round; unset, it starts no server and still routes. An error of `setListener`
goes to `message.client`, who is nobody (`ipc.js:44`).

Bounds: two accounts, one subscribed to; three traces in which calls nest and fail, inputs hide addresses, groups
interleave, and creates fail; two profiles, one client that may register twice and disconnect with a lookup under way; two changes of the table, one failed
query. One client is enough because nothing relates two of them.
Fairness: queries are answered, whether they succeed or fail, and timers fire; a database that never answers (`accounts.js:10`) holds the routing up for good. None of the menu, the blocks or the clients.

## 8. Proofs

For every value of the constants that satisfies the assumptions of the modules
(`Confirmations >= MaxReorg`, `CommitEvery > 0`, `FileMax > 0` and types; any number of handlers, processes, workers, clients).

| theorem | states | further assumptions | argument |
|---|---|---|---|
| `TypeCorrect` | `Spec => []TypeOK` | none | `TypeInv` adds `CursorOK`: the loop variable stays at or below the confirmed top and is a number whenever the loop runs. Without it the extracted block might lie outside the chain. |
| `AlwaysCanonical` | `Spec => []Canonical` | none | `CanonInv`: the queue, the batch psql has, the orphan's batch and the rows all lie `Confirmations` below the head and carry the canonical version; a reorganization reaches no deeper. |
| `IdsAreUnique` | `Spec => []UniqueIds` | no `query`, no `kill` faults | `IdInv`: no row's id is above the counter, and the batch under import starts at the counter plus one. A failed read or an orphan breaks exactly that. |
| `ArchiveHasNoHole` | `Spec => []SyncedIndexed` | sync mode, no `query`, no `trace` faults | `IndexInv`: while a cycle extracts, the queue has the blocks from the sync point to the cursor; when it finalizes, those up to the scan mark are rows; crashes keep the rows and the sync point. |
| `NobodyMissesABlock` | `Spec => []SyncedRouted` | no `query`, no `trace` faults | `RouteInv`, the same with notifications, in both modes. |
| `EachBlockOnce`, `IdsInBlockOrder` | `Spec => []IndexedOnce`, `Spec => []IdsFollowBlocks` | no `query`, `kill`, `powerFail`, `report` faults | `ExactInv`: the queue is strictly ordered and lies past the sync point, the rows do not, until the batch is committed; `CommitOrder` puts the two together. A crash before `block_sync` breaks the second part, which is the finding of `sync_duplicates`. |
| `ArchiveImplementsLedger`, `FeedImplementsLedger` | `Spec => ArchiveIsLedger`, `Spec => FeedIsLedger` | those of `ArchiveHasNoHole`, `NobodyMissesABlock` | `BoundInv`: the sync point never goes back; `BatchInv`: a batch is a whole range from the sync point it began at, an orphan's from an earlier one. An import is then a `Process` of the ledger or a stutter. |
| `FlagsExcludeWhenPrompt`, `CycleAnnounced` | `Spec => []OneCycle`, `Spec => []CycleIsAnnounced` | `prompt` and a claim that is stored, inside the properties; any other failures | `FloorInv`: one handler at most decides, one at most holds the floor, none holds it while another has seen the flag clear, and the holder's flag is set. Lemma `FloorKept` reduces each action to what it does to its own handler. |
| `RequestStands` | `Spec => []PauseHeld` | a `markPaused` that is stored, inside it; any other failures | `PauseInv` extends the claim to the state before `cleanup` reads `working`. |
| `MainTypeCorrect` | `Spec => []TypeOK` | none | `TypeOK` is inductive. |
| `ConversionTypeCorrect`, `ArchiveIsTranslated`, `NeverMunged` | `[]TypeOK`, `[]Translated`, `[]NotMunged` | `flushes`, inside `Translated` | `IInv` follows the data: a slice in the store, a result, what is put together and what is archived each stand for the same stretch of the queue (`StoreMeans`, `OutMeans`, `Archived`), every copy of the cache agrees with the table (`CachesSound`), and what belongs to a job not yet deployed is untouched (`Unused`), which is what keeps a dead parent's workers apart. |
| `NobodyHangs` | `[]NoHang` | `steady`, inside it | `Supplied`: while the parent waits each of its workers has its slice, and the cache is in redis. |
| `OnlyOneProcess` | `[]OneProcess` | not `race`, inside it | `PidInv`: whoever is past the check is alone but for the one that is in, and the file names that one. |
| `MarkedIndexesExist` | `[]IndexesBuilt` | not `psql`, inside it | `IndexInv`: between a build and its mark the next index is the one that was built. |
| `StoredModeVouches` | `[]ModeVouches` | inside it | `ModeInv`: a stored mode implies `init`, hence that no `initialInit` is under way before its last step; and no file or row, however it got there, is of a block before the first transaction. |
| `StartupTypeCorrect` | `[]TypeOK` | none | `TypeInv`: the places of a start and the rows they rely on (a kickstart has its index file, a build an index that is missing). |
| `ModeIsKept`, `IdsOfTheIndexed` | `[]ModeKept`, `[]IdsClash` | inside them | `KeptInv`: past the check of the mode, the stored one is that of the environment or none. `ClashInv`: the ids of rows indexed here differ and lie below the counter, those of a batch on its way to psql between the counter and what it will be. |
| `CacheIsFilled` | `[]CacheFilled` | inside it | `FilledInv`: the counter of the byteIds is stored one step before the table, so that no start finds it without the table. |
| `ArchiveIsDecodable` | `[]Decodable` | inside it | `HereInv`: redis has the table of the database or nothing, and a row that is indexed, queued for psql or left to an orphan is of that table. `CodesInv` ties the rows to the cache, the files to the index file beside them, and a kickstart to that one; `WhereInv` says that who kickstarts found nothing and is alone. That failed for `race`, see section 6. |
| `ArchiveHasNoHole` (of `StartupArchiveProofs`) | `[]NoHole` | inside it | `HoleInv`: the files together hold every block up to the end of each, and what has been loaded is every file that is off the list, so that loading the least brings the archive, which had no hole, to that file's end without one. `BatchInv` says of a batch that it goes on where the archive ends, `BeginInv` of `initialInit` that it starts where it says. |
| `BlocksLoadedOnce` | `[]LoadedOnce` | inside it | `OnceInv`: the files yet to load lie past all that is in the archive, each past the one before; a kickstart begins on an empty archive, or on one whose kickstart has ended. `OwnInv`: a batch lies past the sync point until it is imported. |
| `WorkersAreFew` | `[]FewWorkers` | none | By an injection of the slices into the threads: slice `k` begins at `k` times the divisor, and the divisor is rounded up. |
| `ExtractionIsExact` | for every trace, one transaction per hash that counts, with exactly `Touched`, each account once | `IsTrace` | After `k` items, the group of a hash has the parties of its items among them and the first input that names anybody; see below. |
| `SubscriptionsTypeCorrect`, `NoticesAreSound`, `NoticesAreOnce` | `[]TypeOK`, `[]Sound`, `[]Once` | none | `SentInv`: each message is due to its trace, to a listener, and to the requests of its client. `SocketInv` counts those: of a client's requests each is under way, or has made one listener, or none. `BlockInv`: what waits to be routed is right about the trace. |
| `AllAnnounced` | `Spec => Complete` | none | `BlockInv`: until a query fails, all of the block waits. `MessagesComplete` is the delivery, `ExtractionIsExact` the extraction; the steps that do not route change what `Complete` wants unchanged. |
| `TimersAreBounded` | `[]Timers` | none | `TimerInv`: while there is no list, or somebody waits for it, every timer is owed to a failure. |

Every inductive invariant was checked by TLC before it was proved. `Traces` are assumed to be traces, and no client to be called "redis", which is
how `Subscriptions` names that receiver; `None` is no value it could be taken for.

Induction over data. What a fold computes for every sequence is proved without the library's induction theorems: `FoldExists` gives the
intermediate results of a fold as a function of the length that is folded, and `NatSet` says that a set of naturals with 0 and the successors of its members has
all of them. Each fold of the model gets a lemma of that form (`BusyFold`, `ElementsFold`, `GroupFold`, ...), from which a claim about the first `k`
elements is carried up to the whole.

Only model-checked: liveness (`EventuallySynced`, `PauseEnds`, `ExitHappens`, `WaitEnds`, `Refreshed`, `RoutingEnds`), which rests on fairness and ENABLED and is out of
this prover's reach.

## 9. Not modelled

* **Audit and popular-account tools** (`extras/`): run by hand beside the program; they write nothing the other components read but `topAccts.json`. What the
  audit asserts, one row per hash, is `IndexedOnce`.
* **External database readers, logging, timers, dates, formatting**: read-only or output.
* `convertChildOld.js` and `subscriptions/subscriptions.js`: required by nothing.
* **The connection pool** of `db/common.js`: its state is that of the library; what its callers see, undefined after an error,
  is modelled.
* **The framing on the unix socket**: two JSON messages that arrive in one chunk are answered with "Invalid JSON"; no
  state comes of it.
* **Lookup queries** (`db/topic.js`, `transactions.js`, `contractCache.js` in part): single statements without state.
* **Data**: memory limits, the text of SQL and the contents of transactions are abstracted away, and so is the temporary file of disk mode, which
  is written again from the same queue.
