# A TLA+ verification of monetarium-explorer

monetarium-explorer follows a monetarium node: it is told of new blocks and
reorganizations, writes them to a stake database and to PostgreSQL, and serves
pages and APIs from these databases and from caches. This directory holds TLA+
modules that model the part of the program that decides *what is written, in
which order, and what a reader or a restart then finds*, the TLC configurations
that check them on small instances, and theorems about them that TLAPS has
checked.

Run from this directory: `tlc -config X.cfg MCModule` for a run, `tlapm
ModuleProofs.tla` for the proofs. `PROJECT.json` lists runs, mutants, theorems,
hazards and, for every definition, the source lines it stands for.

## The system

```
 node ──notifications──▶ Notifier.superQueue ──group 1──▶ stakedb.ChainMonitor ─▶ StakeDatabase
                              │                                                    (ffldb + badger, caches)
                              ├──group 2 (block)──▶ blockdata.chainMonitor ─▶ Collector ─▶ savers:
                              │                        ChainDB.Store, pubsub hub, explorer page, Insight, charts
                              ├──group 2 (reorg)──▶ blockdata.chainMonitor ∥ dcrpg.ChainMonitor
                              └──group 3──────────▶ mempool monitor, node height, charts.ReorgHandler
 requests ──▶ explorer pages, JSON and Insight APIs ─▶ ChainDB queries, AddressCache, charts, ticket pool charts
```

| part | source | module | extent |
|---|---|---|---|
| notifier, collector, savers | `cmd/dcrdata/internal/notification`, `blockdata/` | `BlockPipeline` | without transactions and the third groups |
| stake database, ticket pool | `stakedb/stakedb.go`, `ticketpool.go`, `chainmonitor.go` | `StakeDB` | without height waiters and pool info eviction |
| PostgreSQL chain database | `db/dcrpg/pgblockchain.go`, `queries.go`, `rewind.go`, `chainmonitor.go` | `ChainDB`, `ChainFollower` | block writes, reorganizations, purges |
| start-up and initial sync | `cmd/dcrdata/main.go`, `db/dcrpg/sync.go`, `indexing.go` | `ChainDB`, `StakeDB`, `Sync` | recovery, import, indexes, batch updates |
| SQL functions and the connection pool | `db/dcrpg/*.go` | `Calls`, `QueryCalls`, `ChainDBCalls`, `StoreCalls`, `CallPool` | every function that takes a connection |
| JSON API, Insight API, explorer pages | `cmd/dcrdata/internal/{api,api/insight,explorer,middleware}` | `ApiCalls`, `InsightCalls`, `ExplorerCalls`, `CallPool` | every route: its calls, tests and responses |
| address cache and its readers | `db/cache/addresscache.go`, `pgblockchain.go`, `insightapi.go` | `AddressCache` | items, locks, eviction, clearing |
| address rows, views, balances | `db/dbtypes/types.go`, `db/cache/addresscache.go` | `AddressRows` | pages on both paths, merging, counts |
| chart cache and its updaters | `db/cache/charts.go`, `db/dcrpg/queries.go` | `Charts` | nine updaters, reorganization, the file |
| mempool monitor | `mempool/monitor.go`, `collector.go` | `Mempool` | the inventory; not the savers' copies |
| ticket pool charts, trylock | `db/dcrpg/pgblockchain.go`, `trylock/` | `TicketPoolGraphs` | modelled |
| hubs, clients, prefetcher, API cache, tracker, front end | see `PROJECT.json` | – | not modelled, see below |

## Modules

`BlockTree` is what all chain modules share: a finite tree of blocks given by the
chain of each block (`Chain[b]`), heights, parents, ancestors. It has the
assumption on the constants (`ChainAssumption`: each prefix of a chain is the
chain of its last block) that the proofs use, and TLC evaluates it in every run.

### TicketPoolGraphs

`TicketPoolVisualization` for one time grouping, called by any number of
requests, while a block is stored. A request reads the cache, tries the
`trylock.Mutex`, queries three charts between two reads of the best height,
writes the cache, unlocks; one that loses `TryLock` waits in `Lock` (the
channel of the owner) and rereads the cache. `owner` is the channel, `cache` the
entry with the versions of the tables that its three charts were read from.
`StoreRows` and `SetBestBlock` are the two moments of `StoreBlock` that the
charts can tell apart: rows are committed before `bestBlock` is set.

### StakeDB

`StakeDatabase` keeps the stake node in ffldb (`stakeTip` on disk, `bestNode` in
memory) and the pool diffs in badger by height (`disk`; `diffs` in memory), and
keeps a cursor with the pool map (`cursor`, `pool`) and the live ticket cache
(`live`). A connect is two steps (`ConnectNode` writes the stake node,
`AppendStored` the diff), a disconnect writes the stake node and trims the diffs
*in memory only*. Pool queries move the cursor one diff at a time between these
steps. `Crash` forgets memory; `Open`, `LevelStake`, `LevelPool`, `AdvanceStep`,
`AdvanceFails`, `RewindBoth` are `NewStakeDatabase` and `LoadAndRecover`. `torn`
is a history variable: a write that the other database had was lost. The stake
package is external: connecting `b` to its parent gives `Live[b]`, and a block
that is not a child is refused.

### ChainDB and ChainFollower

Every SQL statement or transaction of `StoreBlock` is a step: the commits of the
two concurrent `storeBlockTxnTree` goroutines (`RegularCommit`, `StakeCommit`),
`InsertBlock`, `UpsertMiner`, `InsertBlockPrevNext`, `UpdateBlockNext`,
`Invalidate` (four updates), `InsertBlockStats`, `SetDBBestBlock`. So is every
update of `TipToSideChain` (`SideUpdate`, `SideNext`) and every purge of a block
with the meta table update that follows it. `db[t][b]` says whether table `t`
has rows of block `b` and with which main chain flag. The start is that of
`NewChainDB` (`Open`, `MetaAhead`, `Purge`), the orphaned tip check of `main.go`
(`Opened`, `PurgeOrphan`) and `SyncChainDB` (`SyncBlock`). `NodeMoves`,
`NewBlock` and `Reorg` are the node and the notifier, whose order is what
`BlockPipeline` shows. `Crash` may happen at every step, a failed statement
(`Fail`) where the code can see one, with what the code then does.

`ChainFollower` is the abstract specification: a tip that moves to a child or to
its parent. `ChainDB` implements it with the best block of the blocks table as
the tip (`FollowsChain`).

A transaction that several blocks mine, on two branches or again after a
disapproval, has a row of the transactions table per block but only one set of vins
and addresses rows, whose unique index is of the transaction alone. `shared[t][x]`
has these rows with the block whose time they carry and their flags, and `ids[x]` the
blocks whose transactions row refers to them: an upsert takes them over, while
`updateLastVins`, `TipToSideChain` and `deleteBlockData` find them by the block time or
by the ids. A block that disapproves its parent and mines a transaction of it again has
taken the parent's vins over when `updateLastVins` looks for them, which it reports as
an error; that failure comes from the rows and not from the database, so it may happen
once more than `MaxFails` (`FailOfItself`).

Abstractions: the rows of transactions that one block mines are kept per block; the
spend status of tickets and outputs is left out; `Genesis` stands for a block no purge reaches; the
node's height only grows; failed deletes at the start are covered by `Crash`,
since they end the process.

### BlockPipeline

The composition of the parts above, reduced to what the order of their updates
can disturb. `queue` is `anyQ`, `cur` and `group` the notification in progress,
`procs` the running handlers (with `wait = FALSE` once the notifier has stopped
waiting for them), `previous` the notifier's previous block. A reorganization is
announced after the blocks of the new chain. The stake handlers hold their mutex
and are one step each; the data handler is lock and height check, collection,
`ChainDB.Store`, page; the reorganization handler of ChainDB goes block by block.
`dead` is a panic or fatal error. The model begins when `main.go` has called
`Listen`, with its initial data summary as one more process.

### Sync

The path from the start of the program to the moment it listens, through crashes
at every step: `main.go` looks for missing indexes and `meta.ibd_complete`,
`SyncChainDB` drops the indexes one by one (`DropIndex`), imports blocks with or
without duplicate checks (`ImportNext`, `StoreBlock`), deletes duplicates,
creates the indexes in order, sets the spending information of all addresses
(`UpdateSpendingInfoInAllAddresses`), and catches up. `db` is what survives a
crash: the indexes, the flag, the height, the rows stored twice (`dup`) and the
blocks without spending information (`unmatched`). The chain only grows here.

### The calls

`Calls` is a small vocabulary for what a Go function does to things that can run
out or be left in the wrong state: `Rows`, `Tx`, `Exec` take a connection of the
pool, `Locked` a mutex, `Rpc` asks the node, `Write` answers a client, `Check` is
a test; `Opt`, `Either`, `Each` are branches and loops; `Try`, `Then`, `OrElse`, `OrError`
say what follows an error: it is dropped, replaced by another attempt, or answered.
`QueryCalls`, `ChainDBCalls`, `StoreCalls`, `ApiCalls`, `InsightCalls` and
`ExplorerCalls` are the functions themselves in these words, one definition per
function and in its order, so that a caller's program contains those of all it
calls, down to `database/sql`. `CallPool` runs them step by step: alone, any step
failing any time, for every route and every writer; and together on a pool of a
few connections, where a step waits for a free connection or a mutex. A step that
no other process can notice is taken at once.

### AddressCache, AddressRows

`AddressCache` has the data of an address as versions of its rows. A block makes
a new version, moves the best block and clears the address, in three steps; a
request looks at the cache, tries the `CacheLock` of the address, queries, stores
and releases, or waits for the holder. Eviction makes room by deleting any
item, as iteration over a Go map does. `AddressRows` is the arithmetic beside it:
the pages of every view cut from the rows in the cache (`creditAddressRows` …) or
from the table (`SliceAddressCreditRows` …), merging, the balance computed from
rows and the balance queried, each with its stake fractions, and the counts that the
links are made from. A reader goes through all pages, each a hit or a miss.

### Charts

Every series of the chart cache is the sequence of the blocks whose values it
holds. A block is stored in the steps that a query can tell apart: one tree is committed
before the other (a sum read in between is that of half a block, `Half`), then the
blocks row, then the stats row. `Load` comes after the sync, so the database has
`Synced` blocks at first. `Update` runs the nine updaters in order; each fetches without the lock
and appends under it if `validState` still holds. Meanwhile blocks are stored
and orphaned, `ReorgHandler` truncates, queries fail, and the program is stopped
and loads its file. `blind` and `offline` are histories of two reorganizations
that the code cannot see; what a blind update appended is in the file it writes, so
`blind` outlasts a restart that loads a file.

### Mempool

`mon` is the inventory with the best block and time it was collected at.
`TxHandler` ignores a transaction as old, known, a vote on a block to come, or
undecodable, or goes on to insert it, in a second step under the lock (`InsertTx`): a
handler that the notifier no longer waits for may insert it into an inventory collected
meanwhile. A block starts a job: the best block, then the transactions are read
from the node, then `Refresh` replaces the inventory. A collection may fail, miss
transactions, or outlive the notifier's deadline and run beside the next one. The
node accepts and mines in between; the time in a header may be ahead of the
clock.

## Runs

| run | bounds | result |
|---|---|---|
| `graphs` | 2 requests, 1 block, 1 reorganization, 1 failed query | 234,238 states, holds |
| `stakedb` | g-a1 and g-b1-b2-b3-b4, 2 crashes, 1 failed write or RPC | 181,176 states, holds |
| `chaindb` | 8 blocks: r1-r2, then a3-a4-a5 or b3-b4; 2 crashes | 468,771 states, holds |
| `chaindb_fails` | same tree, 1 crash, 1 failed statement | 763,774 states, holds |
| `startup` | same tree, 1 crash; beside it 2 blocks synchronized, 2 crashes | 86,907 states, holds |
| `pipeline` | r1, then a2-a3 or b2-b3, starting at a2; 2 moves of the node, 1 failed RPC, 1 late group | 218,247 states, holds |
| `caches` | 2 addresses, 2 requests, 1 block, 1 reorganization, 1 error; 3 rows of 3 transactions and 2 coins, pages of 1 and 2 | 595,886 states, holds |
| `charts` | 2 blocks synchronized, up to height 3; windows of 2, 1 reorganization, 2 faults or restarts | 1,905,661 states, holds |
| `calls` | every call alone with any failures; 4 scenes of 3 calls on 1 or 3 connections; 3 mempool transactions (2 votes of one ticket), 2 blocks, 1 fault | 1,389,140 states, holds |
| `chaindb_valid` | disapproval and reorganization | `ValidIsApproved` violated |
| `calls_leak` | every call alone | `NoConnectionLost` violated |
| `sync_indexes` | a new database, no crash | `CreatesThemAll` violated |

`caches` (`MCCaches`: `AddressCache` and `AddressRows`), `startup` (`MCStartup`:
`Sync` and `ChainDB`) and `calls` (`MCServices`: `CallPool` and `Mempool`) hold two
components each that share no state: a variable `part` (`component` in `calls`)
names the one whose behaviors are meant, and the variables of the other rest.
`MCBlockTree` has the tree of `chaindb` and `startup`.

What the passing runs show:

* **graphs** – the trylock admits one holder and nobody waits on a channel that
  no owner will close (`LockSafe`); a waiter comes back empty only after a failed
  query (`WaiterFindsCharts`); without reorganizations charts served as fresh are
  those of the best block (`FreshIsCurrent`) and are never replaced by older ones
  (`CacheNeverGoesBack`); every request that needs the lock returns
  (`RequestsReturn`). With three requests and a failed query there is a real
  livelock, in which waiters take the lock only to reread and so keep newcomers'
  `TryLock` failing; `RequestsReturn` excludes failed queries for that reason.
* **stakedb** – unless a write is torn, the two databases and the caches describe
  one chain when idle (`OneChain`) and the pool is the live tickets of the
  cursor's block at all times (`PoolIsLive`); unless a write failed, every start
  ends with an open database (`StartsUp`) and every operation ends although
  queries compete for the lock (`FinishesWork`).
* **chaindb** – whatever a crash interrupted, when the process waits for blocks
  again the three notions of best block agree and every block of its chain is
  complete in every table and linked (`ConsistentAtRest`); disapproved blocks are
  invalid in every table, the rows of transactions that are mined again included until
  another block takes them over (`DisapprovedIsInvalid`); no miner is undercounted
  (`MinersNotUndercounted`); without crashes no row of an orphaned block keeps
  its flag (`MainRowsOnMainChain`); the tip never jumps (`FollowsChain`).
* **chaindb_fails** – even with a failed statement, the purges of `NewChainDB`
  bring meta and blocks table together (`TablesAgreeAfterOpen`).
* **startup** – every start of `ChainDB` ends synchronized (`StartsUp`) and
  `TipToSideChain` ends (`ReorgEnds`). In the initial sync, upserts and the running
  program find every unique index, whatever earlier starts dropped
  (`UpsertsHaveIndexes`); a start that skips the batch update finds nothing for it
  to do (`NothingLeftUndone`); and the program gets to listen in the end
  (`AlwaysRecovers`).
* **pipeline** – between notifications the notifier, both databases and the main
  chain flags agree (`InStep`), the page shows the best block (`PageShowsBest`),
  the handlers' panics are unreachable (`AssertionsHold`) and everything reaches
  the node's tip (`CatchesUp`), as long as no RPC fails and no handler is late;
  with these the notifier still goes on (`QueueDrains`).
* **caches** – cached data of an address are current, but for the races named
  below (`CachedIsCurrent`); capacities are kept (`WithinCapacity`) and nobody
  waits for a `CacheLock` without a holder (`LockSafe`). The pages of a view are
  the view (`PagesAreTheView`); amounts and counts, though not the stake fractions,
  agree with the rows (`TotalsAgree`).
* **charts** – the index of a series is the height (`IndexIsHeight`), and after an
  update that succeeded every series is the main chain, with the values of both trees of
  each block as long as no query has failed (`ChartsAreTheChain`).
* **calls** – on every path of every function connections and mutexes are given
  back (`NoLeak`), requests never wait for a connection while they keep one
  (`RequestsNeverNest`), every request is answered once (`OneResponse`), results are
  tested before they are used (`NilTested`), each but for the calls listed by name in
  `CallPool`; and storing a block beside charts, the page and requests never comes
  to a standstill (`NobodyStuck`). The inventory of the mempool is the node's when all
  notifications are handled (`InventoryIsMempool`), and its counts and its tally of
  votes are right at all times (`CountsAgree`).

### Bounds

A crash, a failure or a late handler may happen at *every* step, so one or two of
them reach each pair of places; the second crash in `chaindb` and `stakedb`
interrupts the recovery from the first. The trees of
`chaindb` and `pipeline` have at least two blocks on either side of the fork, so a
reorganization disconnects and connects several blocks, can be interrupted in the
middle, and can be reversed. In `chaindb` both branches disapprove a block and mine a
transaction of it again, one block later; in `chaindb_fails` the disapproving block
itself does. Both have one vote in common. `stakedb` has one long branch instead: a wrong diff at
height 1 is found out only when the pool is advanced far past it, beyond
`RecoverDepth`. Two chart requests
are an updater and a waiter; blocks and reorganizations are what makes a cached
value stale. `pipeline` starts one block above the fork, so that two moves of the
node are already a reorganization followed by a block, a block overtaken by a
reorganization, or a reorganization and its reversal. In `caches` one row more than
fits makes eviction happen, and a version of the rows more than the cache has
makes data stale; three rows are a transaction with a credit and a debit, and
another. In `charts` the synchronized blocks fill a window, so what is stored later
opens the next one; the second fault is for a failed query in an update after a
restart. In `calls` two votes of a ticket are what the tally must not count twice. A sync of
two blocks has one that is imported and one that is caught up with. Three connections are
the fewest on which the two trees of a block cannot wait for each other; the code
opens 25. Addresses and clients are interchangeable in `caches`, votes in `calls`
(symmetry); the runs with liveness properties use none.

### Fairness

Only goroutines that have work are assumed to go on: a handler or start-up that
has begun (`WF` of the storing, switching and starting steps; of the client
steps; of the handlers; of the synchronization, which includes that a program
that stopped is started again), and the timer of the notifier's deadline. `StakeDB` needs
strong fairness for two steps that wait for `PoolDB.mtx`, which queries take again
and again: a Go mutex in starvation mode hands itself to the longest waiter.
Nothing makes the node find a block, a request arrive, or a failure happen.

### Mutants

Each property of a passing run has a mutant in its module (an operator with the
comment "Mutant:") that changes one definition the way a plausible bug would: the
check of the previous block dropped, a table forgotten in a reorganization, the
blocks row written before the second tree is stored, a diff applied forwards. The
property is violated with it.

## Disagreements with the repository's own statements

The violation runs check a sentence of the repository:

1. `chaindb_valid` – `is_valid` is never set again when the disapproving block is
   orphaned or purged.
2. `calls_leak` – when `insertTxnsDbTxn` fails, `storeTxns` returns without the
   `Rollback` of its other error returns, and the connection is lost to the pool.
3. `sync_indexes` – `ix_miners_last_used` is looked for at every start, but only an
   upgrade from schema 0 creates it: on a new database every start drops all
   indexes and repeats the batch update.

Formulas that a reader might expect to hold, and that the models refute, are kept in
the modules with the word "Refuted"; none is claimed:

* `TicketPoolGraphs!ChartsConsistent` – the height is compared before and after the
  three queries "to ensure charts are consistent" (`pgblockchain.go:2003`), but a
  block's rows are committed before the height is set, so charts of two table
  versions are cached together;
* `StakeDB!RecoveredPoolIsLive` – heights of the two databases are compared at the
  start (`stakedb.go:294`); a crash in a reorganization leaves equal heights of
  different chains, here with a1, then a2-a3 or b2-b3;
* `BlockPipeline!InStep` from a deeper fork (a2-a4 or b2-b5, starting at a4) – the
  pool info cache is charged with three blocks (`main.go:387`), too few for a
  reorganization that orphans them; ChainDB is left behind;
* `BlockPipeline!HealsAfterDeadline` – what a late stake handler disturbs is not
  "transient" (`notifier.go`);
* `BlockPipeline!DataIsOwn` – the height check before `Collect`
  (`chainmonitor.go:58`) does not establish that the collected data are the
  block's;
* `AddressCache!NoStaleBalance` – a request that read the table before a block and
  stores its result after `Clear` leaves the old balance until the address has
  another transaction; so does a `StoreBlock` that fails anywhere between the commit of
  the address rows and the clearing;
* `AddressRows!MergedPages`, `MergedRowsAgree` – `MergeRowsRange` starts a merged row
  for the later rows of a transaction that it has skipped, so pages of a merged view
  repeat a transaction (`types.go:1719`, `1859`), and `AddressRowsMerged` returns other rows from the
  cache than from the table (`pgblockchain.go:2175`);
* `AddressRows!BalancesAgree` – `ReduceAddressHistory` leaves `FromStake` and `ToStake` at
  zero, and `AddressHistory` drops the fractions it computed before it caches the balance,
  which it says "already has correct Coins map" (`pgblockchain.go:2481`); the address page
  shows them, so a balance from the rows differs from the queried one;
* `Charts!ValuesAreWhole` – an update that reads a sum between the commits of the two
  trees of a block, and then fails, leaves the value of half a block in the series; the
  next update goes on after it;
* `Charts!MissedVotesTallied` – the cursor of the missed votes is taken from the windows
  that the same update has just extended (`queries.go:3616`), so an update that
  brings the end of a window and the start of the next leaves the former's tally at
  its provisional value.

Others met while modelling, which the models show when the corresponding condition
is taken out of a property:

* during every reorganization the meta table is ahead of the blocks table
  (`pgblockchain.go:628` says it never should be), and an exit there costs one
  more purged block;
* a crash before `insertBlock`, followed by a reorganization of the node while the
  process is down, leaves rows of an orphaned block flagged as main chain
  (`MainRowsOnMainChain` without `crashes = 0`);
* a transaction that several blocks mine has one set of vins and addresses rows: when
  the block that wrote them last is orphaned they are flagged as side chain although a
  block of the main chain mined it too, and when that block is purged they are gone
  until it is stored again; after a crash the rows may be of a block whose transactions
  row does not refer to them (`MainRowsOnMainChain` and `DisapprovedIsInvalid` speak of
  the rows that a block still has, for that reason);
* a block that disapproves its parent and mines a transaction of the parent again makes
  `updateLastVins` fail, at every attempt to store it;
* a block that is purged at a start and stored again is counted twice for its
  miner (`rewind.go:144` says all data of a block are deleted); this is why only
  `MinersNotUndercounted` is claimed;
* one failed `setMainchainByBlockHash` makes `TipToSideChain` loop forever with the
  zero hash (`ReorgEnds` with `MaxFails = 1`), until the notifier's deadline lets
  the process go on beside it;
* a failed `storeDiff` leaves a gap in badger at which the next start panics;
* charts cached for a height are served as fresh after that height's block was
  orphaned (`FreshIsCurrent` without `reorgs = 0`);
* `PoolAtHash` uses only the height of the block it is given;
* a crash inside `StoreBlock` while blocks are imported without duplicate checks
  leaves rows of tickets, votes or misses that are stored again and that nothing
  deletes, so that creating the unique index fails at every start
  (`AlwaysRecovers` without its premise); duplicates of address rows are counted
  twice in balances;
* the blocks that the catch-up after the batch update imports never get
  `matching_tx_hash` (`NothingLeftUndone` leaves them out);
* `SliceAddressUnspentCreditRows` returns spent credits (`types.go:1503`), and
  `nonMergedTxnCount` counts all rows for the credit view;
* a chart update does not notice a reorganization between its query and its append
  that leaves the tip of the charts, nor one while the program was down;
* the two trees of a block take a second connection each while they keep one, so a
  pool of two can stand still;
* `setPoolStatusForTickets` and `setSpendingForTickets` lose an error;
  `getTxSwapsInfo` has a path without a response, `addressExists` and
  `getAgendasData` have one with two, `TransactionsCtx` has both;
  `GetTransactionsForBlockByHash`, the page's `Store` and `VisualBlocks` use the nil of a
  failed request;
* no handler of the mempool monitor is called for a reorganization, so the
  inventory stays that of the orphaned tip until the next block; a transaction
  that the node accepts before the time in the header of a block that has already
  arrived is left out until then; and a collection that outlives its deadline
  replaces a newer inventory, a late `TxHandler` inserts what a block has mined.

## Proofs

Every theorem is about the specification that a run checks, without its fairness,
for every value of the constants that the third column allows. Each proof module
extends the module it is about.

| theorem | property | holds for |
|---|---|---|
| `TicketPoolGraphsProofs!LockIsSafe`, `WaitersFindCharts`, `FreshChartsAreCurrent`, `CacheHeightGrows` | `LockSafe`, `WaiterFindsCharts`, `FreshIsCurrent`, `CacheNeverGoesBack` | any number of requests, blocks, reorganizations, errors |
| `StakeDBProofs!TypeCorrect`, `DatabasesAgree`, `PoolHoldsLiveTickets` | `TypeOK`, `OneChain`, `PoolIsLive` | any tree, any tickets, any number of crashes and failures |
| `ChainDBProofs!TypeCorrect`, `Consistent`, `DisapprovalsAreFlagged`, `MinersAreCounted`, `SideRowsAreFlagged` | `TypeOK` and `RowsTypeOK` while nothing failed; `ConsistentAtRest`, `DisapprovedIsInvalid`, `MinersNotUndercounted`, `MainRowsOnMainChain` | any tree, miners, disapprovals, transactions mined again, any number of crashes |
| `ChainDBProofs!Refines` | `FollowsChain`: `ChainDB` implements `ChainFollower` | the same, as long as no statement fails (`[](fails = 0)`) |
| `ChainDBProofs!TablesAgree` | `TablesAgreeAfterOpen` | any number of failed statements, as long as the blocks table has a main chain block |
| `BlockPipelineProofs!HandlersKeepInStep`, `PageFollows`, `HandlersDoNotPanic` | `InStep`, `PageShowsBest`, `AssertionsHold` | any tree and any moves of the node within `ForksAreCharged` |
| `SyncProofs!UpsertsAlwaysHaveIndexes`, `NoBatchUpdateIsSkipped` | `UpsertsHaveIndexes`, `NothingLeftUndone` | any `MaxHeight \in Nat`, any number of crashes |
| `AddressCacheProofs!LockIsSafe`, `CachedDataAreCurrent`, `CacheIsWithinCapacity` | `LockSafe`, `CachedIsCurrent`, `WithinCapacity` | any addresses, requests, blocks, errors; `NoOne` is not a client; capacities in `Nat` for the last |
| `MempoolProofs!CountsAlwaysAgree`, `InventoryFollowsMempool` | `CountsAgree`, `InventoryIsMempool` | finitely many transactions, votes among them (`Data`) |
| `BlockTreeProofs` (lemmas) | each block of a chain has the prefix as its own chain, parents and ancestors lie on it, proper ancestors are lower | `ChainAssumption` |

Two of these hypotheses are real restrictions:

* `ForksAreCharged` – no block forks off the first chain below the blocks whose
  pool info `main.go` loads at the start. Without it `InStep` is false, see the
  refuted formulas above. The run's tree satisfies it.
* `[](MainBlocks # {})` in `TablesAgree` – failed statements can take the last
  main chain block from the blocks table, where the model has no best block and the
  program that of an empty table; the model does not describe that start.

The invariants have to be stronger than the properties:

* **TicketPoolGraphs** – `Inv`: the owner is the request between lock and unlock;
  the version of the tables counts blocks and reorganizations (`TablesInv`); without
  reorganizations charts are never older than the height they are labelled with
  (`AgeInv`); before the first charts or error nobody has given the lock back
  (`WaitInv`).
* **StakeDB** – `OneChain` speaks of idle states, but a restart finds whatever the
  disk had in the middle of an operation. While nothing is torn, `AgreeInv` says of
  *every* state that the diffs on disk up to the height of the stake node are those
  of its chain, except at the height that is being appended (`DiskInv`), that what a
  start has loaded agrees with the disk (`LoadedInv`), and from which step on memory
  describes one chain (`ChainedInv`, `AppendInv`, `PoolInv`, `LiveInv`, `BestInv`).
  The pool needs that retreating over a diff undoes advancing over it, a fact about
  `Live` along a chain (`DiffFacts`, `RetreatOnChain`).
* **ChainDB** – `ConsistentAtRest` after a crash depends on the purges, and these on
  what a crash can have left: the blocks table's main chain is always the chain of
  its best block, everything below that block is completely stored, and if the meta
  table names that block then so is the block itself (`Stopped`). So the purge that
  follows a disagreement removes the only block that can be incomplete. The other
  conjuncts of `Phases` carry this through storing, switching, purging and syncing.
  `Extra` adds, for the same top block, that the disapprovals below it are in every
  table, shared rows included until another block takes them over (`Flags`), that its miners are counted (`Counts`, by cardinalities of the
  blocks of a miner on a chain), and that without crashes only the block in progress
  has main chain rows off the main chain, of its own or taken over (`Rows`). `Agree` is what survives failed
  statements, from which `IInv` says nothing: from the end of `NewChainDB` to the end
  of the sync the tables agree, since a sync stores only above all main chain blocks.
* **BlockPipeline** – `Undisturbed => Calm`: the messages of the queue lead from the
  notifier's previous block to the node (`OnTheWay`); there is one process for each
  handler of the group, the others of earlier groups have ended (`Workers`); the
  main chain flags are the chain of the best block (`TableInv`); where the stake
  database, the tables and the page are in each group (`Stages`); the pool info cache
  has every block from the fork on (`Cached`); and how far a store or a switch has
  come (`Stored`, `Switched`).
* **Sync** – `IndexInv`: while indexes are created, those missing are still on the
  program's list, so a crash at any point is seen by the next start. `SpendInv`:
  `ibd_complete` is false, or an index is missing, from the decision for a batch
  update until it is done. `HeightInv`: spends that wait for it are below the height
  that it covers.
* **AddressCache** – `BaseInv`: a lock is held by exactly the requests between
  `TryLock` and `done`. `FreshInv`: what is cached or about to be stored is current, or
  the address is still to be cleared or named by one of the two races. `RoomInv`:
  the cached rows are finitely many and fit. `ClearedInv`: who holds the lock of an
  address's rows has removed them, so that the room made for the new rows is not
  taken twice, whichever items eviction deletes.
* **Mempool** – with no block in the queue, what the queue announces is in the node's
  mempool (`QueueInv`), and what a collection has read (`JobsInv`) and the inventory
  (`MonInv`) lack only what the queue announces or a handler is about to insert
  (`Handled`). A block in the queue ends all claims:
  it leads to a new collection.

The proofs have one lemma per action or group of actions.

Model-checked only:

* `StartsUp`, `FinishesWork`, `ReorgEnds`, `RequestsReturn`, `CatchesUp`,
  `QueueDrains`, `AlwaysRecovers`: the prover does not do liveness;
* `PagesAreTheView` and `TotalsAgree` of `AddressRows`: what folds over a sequence of
  rows compute needs induction over data;
* the properties of `CallPool`: the programs are built by recursive operators;
* `IndexIsHeight` and `ChartsAreTheChain` of `Charts`: no proof has been written.

## Not modelled

* Parts that forward or reformat what the modelled parts produce and write nothing
  back: the pubsub and websocket hubs and the Insight socket server, the pubsub
  client library, the API cache, the agenda tracker, the proposals database, the
  front end. The hubs have buffers and slow clients of their own, which no module
  describes.
* Parts that change how fast blocks are imported and not what is stored: the block
  prefetcher, the UTXO cache.
* Of the modelled parts: the spend status of tickets in `ChainDB`; `ImportSideChains`; `WaitForHeight` and the eviction of the
  pool info cache; the inside of the stake handlers while a late group runs beside
  them (one step in `BlockPipeline`); the bound of `anyQ`; a block that arrives
  between the last sync and `Listen` (a race the code's own TODO names); the copies
  of the inventory that goroutines give to the savers, in any order, and the
  mempool's address and transaction stores; schema upgrades; command line options.
* What SQL statements compute, unless a module above says it; decoding of wire
  formats and scripts, rendering, parsing and formatting.

## Plan

1. A proof of `IndexIsHeight` and `ChartsAreTheChain` for `Charts`. Its invariant has to
   say, unless `blind`, that every series is a prefix of the chain or due to be
   truncated, and that rows an updater has fetched continue its series.
2. A start on an empty blocks table in `ChainDB`, which would remove the hypothesis of
   `TablesAgree`.
3. The hubs with slow clients; height waiters; the start of the two databases
   together.
