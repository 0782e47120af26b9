----------------------------- MODULE QueryCalls -----------------------------
(***************************************************************************)
(* The functions of db/dcrpg/queries.go, tables.go, rewind.go and          *)
(* system.go as sequences of steps (see Calls).  A function that takes a   *)
(* SqlExecutor or SqlQueryer has the step it runs on it as its parameter:  *)
(* Exec on the pool, Stmt in a transaction.                                *)
(***************************************************************************)
EXTENDS Calls

\* Exec and RowsAffected, either of which returns an error.
sqlExec(on) == on \o Check
sqlExecStmt == Stmt \o Check

dbBestBlock == Row
setDBBestBlock == sqlExec(Exec) \o Check
ibdComplete == Exec
setIBDComplete == sqlExec(Exec) \o Check
retrieveVoteTicketDataByBlock == Rows(Scan)
\* sql.ErrNoRows means no such index.
ExistsIndex == Exec
IsUniqueIndex == Exec

\* The duplicates are deleted unless a unique index already forbids them.
DeleteUnlessUnique == Either(sqlExec(Exec), IsUniqueIndex \o Opt(sqlExec(Exec)))
deleteDuplicateVins == ExistsIndex \o DeleteUnlessUnique
deleteDuplicateVouts == ExistsIndex \o DeleteUnlessUnique
deleteDuplicateTxns == ExistsIndex \o DeleteUnlessUnique
deleteDuplicateAgendas == IsUniqueIndex \o Opt(sqlExec(Exec))
deleteDuplicateAgendaVotes == IsUniqueIndex \o Opt(sqlExec(Exec))

\* A prepared INSERT of several rows; sql.ErrNoRows (the row is there) is not a failure.
insertTickets == Tx(Stmt \o Each(Check \o Stmt))

retrieveAllAgendas == RowsNoCtx(Scan)
retrieveTicketIDByHashNoCancel == Exec
\* TicketTxnIDGetter.TxnDbID: the cached row id, or a query on a connection of its own.
TxnDbID == Opt(retrieveTicketIDByHashNoCancel)

\* The parts of insertVotes: the agendas that are new or have moved on, the
\* votes with their choices, and the tickets called that did not vote.
StoreAgendas == Opt(retrieveAllAgendas \o Each(Stmt))
StoreVotes == Each(Check \o TxnDbID \o Stmt \o Check \o Each(Opt(Stmt) \o Check \o Stmt))
\* "votes + misses != 5" rolls back before it panics.
StoreMisses == Check \o Opt(Stmt \o Each(Stmt))

\* Mutant: the agendas' rows stay open while the row ids of the tickets are read.
insertVotesWhileReading ==
  Opt(Tx(Stmt \o Stmt \o Stmt \o RowsNoCtx(Each(TxnDbID \o Stmt))))

\* The votes of a block in one transaction.  Two of its reads, the stored
\* agendas and the row id of a ticket that is not cached, use the pool while
\* the transaction holds a connection.
insertVotes ==
  Opt(Tx(Stmt \o Stmt \o Stmt \o StoreAgendas \o StoreVotes \o StoreMisses))

retrieveMissedVotesInBlock == Rows(Scan)
retrieveMissedVotesForBlockRange == Row
retrieveMissForTicket == Row
retrieveWindowBlocks == Rows(Scan)
retrieveTimeBasedBlockListingCount == Row
retrieveTimeBasedBlockListing == Rows(Scan)
retrieveUnspentTickets == Rows(Scan)
retrieveTicketStatusByHash == Row
retrieveTicketInfoByHash == Row \o Opt(Check \o Row)
retrieveTicketsByDate == Rows(Scan)
retrieveTicketByPrice == Rows(Scan)
retrieveTicketsGroupedByType == Rows(Scan)

\* A failed UPDATE closes the statement and returns what Rollback returns,
\* so that the error is lost when the rollback works.
UpdateTickets == Drop(Keep(Each(sqlExecStmt)) \o Do("commit"))
setPoolStatusForTickets == Opt(Do("begin_noctx") \o Keep(Stmt) \o UpdateTickets)
setSpendingForTickets == Do("begin_noctx") \o Keep(Stmt) \o UpdateTickets

insertAddressRowsDbTx == Stmt \o Each(Stmt)
retrieveAddressCoinTypes == Rows(Scan)
\* Mutant: the rollback of the early returns is forgotten.
retrieveAddressBalanceNoRollback == Do("begin_noctx") \o Stmt \o Do("scan") \o Do("commit")
\* A transaction with no context for the one query it makes; its rollback is deferred.
retrieveAddressBalance == Tx(Stmt \o Do("scan"))
countMergedAll == Tx(Stmt)
countMerged == Tx(Stmt)
countMergedSpendingTxns == Either(countMergedAll, countMerged)
countMergedFundingTxns == Either(countMergedAll, countMerged)
countMergedTxns == Either(countMergedAll, countMerged)
\* Mutant: the second query is made while the rows of the first are open.
retrieveAddressDbUTXOsNested == Rows(Exec)
retrieveAddressDbUTXOs == Exec \o Rows(Scan)

\* The readers of the rows their callers opened.
scanAddressMergedRows == Do("scan")
scanAddressQueryRows == Do("scan")
retrieveAddressTxnsStmtAll == Rows(scanAddressQueryRows)
retrieveAddressTxnsStmt == Rows(Either(scanAddressMergedRows, scanAddressQueryRows))
retrieveAddressTxns == Either(retrieveAddressTxnsStmtAll, retrieveAddressTxnsStmt)
retrieveAddressMergedTxns == Rows(scanAddressMergedRows)
retrieveAddressCountAll == Row
retrieveAddressCount == Row
retrieveAddressIDsByOutpoint == Rows(Scan)
retrieveTxHistoryByType == Rows(Scan)
parseRowsSentReceived == Keep(Do("scan")) \o Do("close")
retrieveTxHistoryByAmountFlow == Do("query") \o parseRowsSentReceived

insertVinsStmt == Each(Stmt)
insertVoutsStmt == Each(Stmt)
retrieveVoutValue == Row
retrieveVoutValues == Rows(Scan)
retrieveFundingOutpointIndxByVinID == Row
retrieveSpendingTxByTxOut == Row
retrieveSpendingTxsByFundingTx == Rows(Scan)
retrieveSpendingTxsByFundingTxWithBlockHeight == Rows(Scan)
retrieveVinsByIDs == Each(Row)
retrieveVoutsByIDs == Each(Row)
retrieveUTXOsStmt == dbBestBlock \o Opt(Rows(Scan))
retrieveUTXOs == retrieveUTXOsStmt

setSpendingForFundingOP == Stmt \o Check
setSpendingForVout == Stmt \o Check \o Check
setSpendingForVouts == Either(setSpendingForVout, Stmt \o Check \o Check)
resetSpendingForVoutsByTxRowID == Stmt \o Check
retrieveTxOutData(on) == on
\* The debit rows of one input and, when asked, the link from the credit it spends.
insertSpendingAddressRow ==
  Opt(retrieveTxOutData(Stmt)) \o Opt(Stmt) \o Each(Stmt) \o Opt(setSpendingForFundingOP)

retrieveAgendaVoteChoices == Rows(Scan)
retrieveTotalAgendaVotesCount == Row
insertSwap == Exec
insertTxnsStmt == Each(Stmt)
\* The caller ends the transaction.
insertTxnsDbTxn == Stmt \o insertTxnsStmt

retrieveDbTxByHash == Row
retrieveDbTxsByHash == Rows(Scan)
retrieveTxnsVinsVoutsByBlock == Rows(Scan)
retrieveTxByHash == Row
retrieveTxsByBlockHash == Rows(Scan)
retrieveTxnsBlocks == Rows(Scan)

\* The readers of the charts' rows.  They close what the fetchers opened, all
\* but the reader of the anonymity set, which leaves that to the cancel
\* function the fetcher returned.
appendChartBlocks == Keep(Do("scan") \o Check \o Check) \o Do("close")
appendMinerRanges == Keep(Do("scan")) \o Do("close")
appendWindowStats == Keep(Do("scan")) \o Do("close")
appendCoinSupply == Keep(Do("scan")) \o Do("close")
appendMissedVotesPerWindow == Keep(Do("scan") \o Check) \o Do("close")
appendBlockFees == Keep(Do("scan")) \o Do("close")
appendSKAFees == Keep(Do("scan")) \o Do("close")
appendPrivacyParticipation == Keep(Do("scan")) \o Do("close")
appendAnonymitySet == Do("scan")
appendPoolStats == Keep(Do("scan")) \o Do("close")
retrieveSKAFees == Do("query")

retrievePowerlessTickets == Rows(Scan)
insertBlock == Exec
insertBlockPrevNext == Do("query_noctx") \o Do("close")
insertBlockStats == Exec
retrieveBestBlockHeight == Row
retrieveBestBlock == retrieveBestBlockHeight
retrieveBlockHash == Row
retrieveBlockTimeByHeight == Row
retrieveHeightByTimestamp == Row
retrieveBlockHeight == Row
retrieveBlockVoteCount == Row
retrieveSideChainBlocks == Rows(Scan)
retrieveDisapprovedBlocks == Rows(Scan)
retrieveBlockStatus == Row
retrieveBlockStatuses == Rows(Scan)
retrieveBlockFlags == Row
retrieveBlockSummaryByTimeRange == Exec \o Rows(Scan)
setMainchainByBlockHash == Exec
updateTransactionsMainchain == RowsNoCtx(Scan)
updateTransactionsValid == RowsNoCtx(Scan)
updateVotesMainchain == sqlExec(Exec)
updateTicketsMainchain == sqlExec(Exec)
updateAddressesMainchainByIDs == Each(Exec) \o Each(Exec)
updateLastBlockValid == sqlExec(Exec) \o Check
clearVoutRegularSpendTxRowIDs == sqlExec(Exec)
clearVoutAllSpendTxRowIDs == sqlExec(Exec)
updateLastVins == retrieveTxsByBlockHash \o Each(sqlExec(Exec) \o Check)
updateLastAddressesValid == retrieveTxnsVinsVoutsByBlock \o updateAddressesMainchainByIDs
updateBlockNext == Exec \o Check \o Check
UpdateNext == Stmt \o Check
updateBlockNextByHash == UpdateNext \o Check
updateBlockNextByNextHash == UpdateNext \o Check

retrievePoolInfo == Row
retrievePoolInfoRange == Check \o Row \o RowsNoCtx(Scan)
retrievePoolValAndSizeRange == Check \o Exec \o Rows(Scan)
retrieveBlockSummary == Row
retrieveBlockSummaryByHash == Row
retrieveBlockSummaryRange == Rows(Scan)
retrieveBlockSummaryRangeStepped == Rows(Scan)
retrieveBlockSize == Row
retrieveBlockSizeRange == Check \o Exec \o Rows(Scan)
retrieveSDiff == Row
retrieveSBitsByHash == Row
retrieveSDiffRange == Check \o Exec \o Rows(Scan)
retrieveLatestBlockSummary == Row
retrieveDiff == Row
upsertMiner == Row
CountActiveMiners == Row
retrieveMinerRewardCounts == Rows(Scan)
retrieveMultiAddressCoinbases == Rows(Scan)

\* rewind.go: everything a block left in the tables goes in one transaction.
deleteTransactionsForBlock == Stmt \o Do("scan")
\* The row of the block and the link to it; last is what the caller makes of
\* an update that changed no row.
deleteBlockFromChain(last) == Stmt \o Either(UpdateNext \o last, UpdateNext \o last)
\* A block_chain row that was not updated is only warned about; any other error rolls back.
deleteBlockData ==
  TxCtx(sqlExec(Stmt) \o sqlExec(Stmt) \o sqlExec(Stmt) \o deleteTransactionsForBlock
        \o resetSpendingForVoutsByTxRowID \o sqlExec(Stmt) \o sqlExec(Stmt) \o sqlExec(Stmt)
        \o sqlExec(Stmt) \o sqlExec(Stmt) \o deleteBlockFromChain(Try(Check)))
deleteBestBlock == retrieveBestBlock \o deleteBlockData \o retrieveBestBlock \o setDBBestBlock
deleteBlocks == Either(retrieveBestBlock, Each(deleteBestBlock))

\* tables.go and system.go.
TableExists == Do("query_noctx") \o Keep(Do("scan")) \o Do("close")
dropTable == Exec
DropTables == Each(Try(dropTable))
AnalyzeAllTables == Tx(Stmt \o Stmt)
AnalyzeTable == Tx(Stmt \o Stmt)
ClearTestingTable == Exec \o Exec
createTable == TableExists \o Opt(Exec)
CreateTables == Each(createTable) \o ClearTestingTable
retrievePGVersion == Exec \o Exec
retrieveSysSettings == RowsNoCtx(Scan)
retrieveSysSettingsPerformance == retrieveSysSettings
retrieveSysSettingsServer == retrieveSysSettings
retrieveSysSettingSyncCommit == Exec
SetSynchronousCommit == Exec
CheckCurrentTimeZone == Exec
CheckDefaultTimeZone == CheckCurrentTimeZone \o Exec \o CheckCurrentTimeZone \o Exec
=============================================================================
