----------------------------- MODULE StoreCalls -----------------------------
(***************************************************************************)
(* The methods of ChainDB that write, and the updates of the charts, as    *)
(* sequences of steps (see Calls).  Two kinds of step of their own: spawn  *)
(* starts the two goroutines of StoreBlock, one per transaction tree, and  *)
(* join waits for both and fails when one of them failed.                  *)
(***************************************************************************)
EXTENDS ChainDBCalls

\* The block's transactions, their inputs and outputs in one transaction.
\* The last of the failures does not roll it back.
storeTxns ==
  Do("begin_noctx") \o Keep(Stmt \o Stmt \o Each(insertVoutsStmt \o insertVinsStmt))
  \o insertTxnsDbTxn \o Do("commit")

collectTicketSpendDBInfo == Check \o Each(Check \o TxnDbID)

\* What the stake tree adds: tickets, votes, and the tickets' new states,
\* whose failures are only logged.  The stake node is locked meanwhile.
StoreTickets ==
  insertTickets \o insertVotes \o collectTicketSpendDBInfo
  \o Locked("stake", Try(setSpendingForTickets))
  \o Each(TxnDbID) \o Try(setPoolStatusForTickets)

\* The address rows, their spending links and the outputs' spenders in one
\* transaction.  A swap found in the block is written on a connection of its
\* own before the commit.
StoreAddresses ==
  Tx(insertAddressRowsDbTx
     \o Each(Opt(Check) \o insertSpendingAddressRow \o Opt(setSpendingForVouts))
     \o Each(Try(Check) \o Each(Try(insertSwap))))

storeBlockTxnTree(isStake, store) ==
  Each(Opt(Try(retrieveTxOutData(Exec)))) \o store
  \o (IF isStake THEN StoreTickets ELSE <<>>) \o StoreAddresses

\* The flags of a disapproved block, then of its transactions, inputs and
\* addresses; nothing undoes the first when a later one fails.
updateLastBlock ==
  LET update == Opt(blockChainDbID) \o updateBlockNext
                \o Opt(updateLastBlockValid \o clearVoutRegularSpendTxRowIDs \o updateLastVins
                       \o updateTransactionsValid \o updateLastAddressesValid)
  IN  Opt(Either(update, Then(BlockFlagsNoCancel, Opt(update))))

StoreBlock ==
  Each(Check) \o Try(Rpc) \o Each(Check)
  \o Do("spawn") \o Do("join") \o Opt(Locked("mix", <<>>))
  \o insertBlock \o Each(Try(upsertMiner)) \o insertBlockPrevNext \o updateLastBlock
  \o Opt(Locked("best", <<>>) \o Opt(insertBlockStats) \o setDBBestBlock)

\* ChainDB.Store; the height clients are signalled whether it worked or not.
Store == StoreBlock

setVinsMainchainOneTxn == Each(Exec \o Check)
setVinsMainchainForMany == Each(setVinsMainchainOneTxn)
setVinsMainchainByBlock == retrieveTxnsVinsVoutsByBlock \o setVinsMainchainForMany

\* One block after the other leaves the main chain, table by table.  Every
\* failure is logged and the next statement runs; the best block's mutex is
\* held over the last query.
TipToSideChain ==
  BestBlock
  \o Each(Try(setMainchainByBlockHash) \o Try(updateTransactionsMainchain)
          \o Try(clearVoutAllSpendTxRowIDs) \o Try(setVinsMainchainByBlock)
          \o Try(updateAddressesMainchainByIDs) \o Try(updateVotesMainchain)
          \o Try(updateTicketsMainchain)
          \o Then(retrieveBlockHeight, Try(Row) \o Try(Row))
          \o Locked("best", Try(blockHeight)))

PurgeBestBlocks == deleteBlocks \o Check \o Check
updateSpendingInfoInAllAddresses == HeightDB \o Each(Exec \o Check)
MissingSideChainBlocks == Rpc \o Each(Rpc \o Each(Either(Try(BlockHeight), Check)))
DBVersion == Exec
initMetaData == Exec
versionCheck == TableExists \o Opt(TableExists \o Opt(DBVersion))
\* Opening the database: the server's settings, the schema, the blocks table
\* brought back to the meta table's best block, the unspent tickets.
SessionSettings ==
  CheckCurrentTimeZone \o Opt(Exec) \o retrievePGVersion \o Check
  \o Opt(retrieveSysSettingsPerformance \o retrieveSysSettingsServer)
  \o retrieveSysSettingSyncCommit \o Opt(SetSynchronousCommit \o retrieveSysSettingSyncCommit)
SchemaVersion == versionCheck \o Opt(Either(Check \o Check, CreateTables \o initMetaData))
PurgeUnrecordedBlocks ==
  retrieveBestBlock \o dbBestBlock \o Opt(deleteBestBlock \o dbBestBlock)
  \o Each(deleteBestBlock \o Opt(dbBestBlock \o Check))
NewChainDB ==
  Check \o SessionSettings \o SchemaVersion \o PurgeUnrecordedBlocks
  \o Maybe(retrieveUnspentTickets) \o Opt(Rpc)

\* The charts' fetchers return open rows and the function that cancels
\* their context.
windowStats == Do("query")
missedVotesStats == Do("query")
chartBlocks == Do("query")
minerRanges == Do("query")
coinSupply == Do("query")
blockFees == Do("query")
privacyParticipation == Do("query")
poolStats == Do("query")
retrieveAnonymitySet == Do("query")
\* No query when StoreBlock left the deltas of all the blocks that are missing.
anonymitySet(cached) == Locked("mix", IF cached THEN <<>> ELSE retrieveAnonymitySet)
ChainDB_appendAnonymitySet(cached) == IF cached THEN Locked("mix", Check) ELSE appendAnonymitySet

\* One updater of ChartData.Update.  The charts' mutex is taken while the
\* rows are open, and the context is cancelled on every path.
Update(fetch, append) == fetch \o Keep(Locked("charts", Check \o append)) \o Do("cancel")

\* The updaters RegisterCharts adds, in their order.
RegisterCharts ==
  <<Update(chartBlocks, appendChartBlocks), Update(coinSupply, appendCoinSupply),
    Update(windowStats, appendWindowStats), Update(missedVotesStats, appendMissedVotesPerWindow),
    Update(blockFees, appendBlockFees), Update(privacyParticipation, appendPrivacyParticipation),
    Either(anonymitySet(TRUE) \o Locked("charts", Check \o ChainDB_appendAnonymitySet(TRUE)),
           Update(anonymitySet(FALSE), ChainDB_appendAnonymitySet(FALSE))),
    Update(poolStats, appendPoolStats), Update(minerRanges, appendMinerRanges)>>

skaSupplyUpdater == SKACoinSupply \o Each(Try(Rows(Scan)))
LoadSKASupplyForCoin == Rows(Scan) \o Check
LoadSKAFeesForCoin == retrieveSKAFees \o appendSKAFees
=============================================================================
