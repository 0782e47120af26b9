---------------------------- MODULE ChainDBCalls ----------------------------
(***************************************************************************)
(* The methods of ChainDB (db/dcrpg/pgblockchain.go and insightapi.go) as  *)
(* sequences of steps (see Calls).  A method that returns nil and logs is  *)
(* one that fails: the caller decides what the nil leads to.               *)
(***************************************************************************)
EXTENDS QueryCalls

\* BestBlock.Height, Hash and the like: a read under the best block's mutex.
Height == Peek("best")
HashStr == Peek("best")
BestBlock == Peek("best")
BestBlockStr == Peek("best")
GetHeight == Height
GetBestBlockHash == HashStr
chainHashFromStr == Check

\* An address cache miss: wait for whoever fills the entry, or fill it.
CacheMiss(m, p) == Opt(Either(Peek(m), Locked(m, p)))

SideChainBlocks == retrieveSideChainBlocks
DisapprovedBlocks == retrieveDisapprovedBlocks
BlockStatus == chainHashFromStr \o retrieveBlockStatus
BlockStatuses == retrieveBlockStatuses
blockFlags == chainHashFromStr \o retrieveBlockFlags
BlockFlags == blockFlags
BlockFlagsNoCancel == blockFlags
blockChainDbID == Row
BlockChainDbID == chainHashFromStr \o blockChainDbID
BlockChainDbIDNoCancel == chainHashFromStr \o blockChainDbID
TransactionBlocks == chainHashFromStr \o retrieveTxnsBlocks
HeightDB == dbBestBlock
HashDB == dbBestBlock
HeightHashDB == dbBestBlock
HeightDBLegacy == retrieveBestBlockHeight
HashDBLegacy == retrieveBestBlockHeight
HeightHashDBLegacy == retrieveBestBlockHeight
blockHeight == retrieveBlockHeight
BlockHeight == chainHashFromStr \o blockHeight
BlockHash == retrieveBlockHash
BlockTimeByHeight == retrieveBlockTimeByHeight
GetHeightByTimestamp == retrieveHeightByTimestamp
VotesInBlock == chainHashFromStr \o retrieveBlockVoteCount
\* The mempool's spenders are asked of the node after the rows are closed.
SpendingTransactions == chainHashFromStr \o retrieveSpendingTxsByFundingTx
SpendingTransaction == chainHashFromStr \o retrieveSpendingTxByTxOut
BlockTransactions == chainHashFromStr \o retrieveTxsByBlockHash
Transaction == chainHashFromStr \o retrieveDbTxsByHash
GetVoteTicketDataByBlock == chainHashFromStr \o retrieveVoteTicketDataByBlock
BlockMissedVotes == chainHashFromStr \o retrieveMissedVotesInBlock
missedVotesForBlockRange == retrieveMissedVotesForBlockRange
TicketMiss == chainHashFromStr \o retrieveMissForTicket
PoolStatusForTicket == chainHashFromStr \o retrieveTicketStatusByHash
VoutValue == chainHashFromStr \o retrieveVoutValue
VoutValues == chainHashFromStr \o retrieveVoutValues
TransactionBlock == chainHashFromStr \o retrieveTxByHash
AgendaVotes == Opt(retrieveAgendaVoteChoices)
AgendasVotesSummary == Opt(retrieveTotalAgendaVotesCount)
AgendaVoteCounts == Opt(retrieveTotalAgendaVotesCount)
AllAgendas == retrieveAllAgendas
ActiveCoinsForAddress == retrieveAddressCoinTypes
PosIntervals == Height \o retrieveWindowBlocks
TimeBasedIntervals == Check \o retrieveTimeBasedBlockListing
TimeBasedIntervalsCount == Check \o retrieveTimeBasedBlockListingCount
GetTicketInfo == chainHashFromStr \o retrieveTicketInfoByHash \o Height \o Opt(retrieveMissForTicket)

\* The ticket pool charts: read again until the height did not change
\* meanwhile, under a lock that only one request per interval gets.
TicketPoolBlockMaturity == Height
TicketPoolByDateAndInterval == retrieveTicketsByDate
TicketsByPrice == retrieveTicketByPrice
TicketsByInputCount == retrieveTicketsGroupedByType
ticketPoolVisualization ==
  Check \o Height
  \o Each(TicketPoolBlockMaturity \o TicketPoolByDateAndInterval \o TicketsByPrice
          \o TicketsByInputCount \o Height)
TicketPoolVisualization ==
  Check \o Height
  \o Opt(Either(Opt(Locked("pool", Height \o Opt(Check))),
                Check \o Locked("pool", ticketPoolVisualization)))

\* The addresses' readers: the cache, or a query and an entry for the cache.
AddressTransactionsAll == retrieveAddressTxns
AddressTransactionsAllMerged == retrieveAddressMergedTxns
AddressBalance == Check \o BestBlock \o CacheMiss("balance", retrieveAddressBalance)
updateAddressRows == Either(Peek("rows"), Locked("rows", BestBlock \o AddressTransactionsAll))
AddressRowsMerged == Check \o Opt(updateAddressRows)
AddressRowsCompact == Check \o Opt(updateAddressRows)
retrieveMergedTxnCount ==
  Check \o Either(countMergedSpendingTxns, Either(countMergedFundingTxns, countMergedTxns))
mergedTxnCount == Either(Check, retrieveMergedTxnCount)
\* The count of all rows stands in for the count of debits when the balance fails.
nonMergedTxnCount ==
  Either(retrieveAddressCountAll, retrieveAddressCount) \o Opt(Either(Drop(AddressBalance), Check))
CountTransactions == Check \o Check \o Either(nonMergedTxnCount, mergedTxnCount)
\* A balance that fails is logged and the rows are returned without it.
AddressHistory ==
  Check
  \o Either(Opt(updateAddressRows) \o Check \o Try(AddressBalance),
            BestBlock \o Check \o Opt(updateAddressRows \o Check)
            \o Opt(Either(Check, Try(AddressBalance))))
AddressHistoryAll == AddressHistory
DbTxByHash == chainHashFromStr \o retrieveDbTxByHash
fundingOutpointIndxByVinID == retrieveFundingOutpointIndxByVinID
FillAddressTransactions ==
  Each(DbTxByHash \o Opt(Height)
       \o Opt(Either(Try(fundingOutpointIndxByVinID), Try(SpendingTransaction))))
\* The count of transactions falls back on the sum of the balance's counts.
ConfirmedAddressData ==
  Check \o Check \o Either(mergedTxnCount, Opt(Drop(CountTransactions))) \o FillAddressTransactions
\* The mempool's part: a transaction that is listed already is left out.
UnconfirmedAddressData == Check \o Height
\* An address without history goes on to its unconfirmed transactions, and
\* the coin types fall back on those of the balance.
AddressData ==
  Check \o Check \o Maybe(AddressHistory) \o Maybe(ActiveCoinsForAddress)
  \o Opt(ConfirmedAddressData) \o UnconfirmedAddressData
AddressTotals == AddressBalance \o BestBlockStr
addressInfo == Check \o AddressHistory \o Opt(Check \o FillAddressTransactions)
AddressTransactionDetails == addressInfo
TxHistoryData ==
  Check \o Check \o BestBlock
  \o CacheMiss("history", Either(retrieveTxHistoryByType, Either(retrieveTxHistoryByAmountFlow, Check)))
AddressUTXO == Check \o BestBlock \o CacheMiss("utxo", retrieveAddressDbUTXOs \o Each(Try(Rpc)))
InsightAddressTransactions == BlockTimeByHeight \o Each(AddressRowsMerged)
OutpointAddresses == chainHashFromStr \o retrieveAddressIDsByOutpoint
SpendDetailsForFundingTx == chainHashFromStr \o retrieveSpendingTxsByFundingTxWithBlockHeight
BlockSummaryTimeRange == retrieveBlockSummaryByTimeRange
\* The inputs, the transactions and the outputs are read one after the other,
\* then the node decodes every output's script.
RawVins == Rows(Scan)
RawTxns == Rows(Scan)
RawVouts == Rows(Scan)
RawScripts == Each(Try(Rpc))
GetAddressTransactionsRawWithSkip ==
  Check \o Check \o BestBlock \o RawVins \o RawTxns \o RawVouts \o RawScripts

\* Readers of blocks, stake information and supply.
GetStakeInfoExtendedByHash == Check \o Rpc \o Row
GetStakeInfoExtendedByHeight == BlockHash \o GetStakeInfoExtendedByHash
GetPoolInfo == retrievePoolInfo
GetPoolInfoRange == Height \o Check \o retrievePoolInfoRange
GetPoolValAndSizeRange == Height \o Check \o retrievePoolValAndSizeRange
ChargePoolInfoCache == Height \o Opt(retrievePoolInfoRange)
GetPool == Check
CurrentCoinSupply == Rpc \o BestBlockStr
GetBurnedCoins == Rpc
\* The node is asked while the rows are open.
SKACoinSupply == Do("query") \o Keep(GetBurnedCoins \o Do("scan")) \o Do("close")
VARCoinSupply == Rpc
issuedSKACoinTypes == SKACoinSupply
SKACoinEmissionHeights == Rows(Scan)
GetBlockByHash == Check \o Rpc
ActiveMiners == CountActiveMiners
MinerHashrateShares == retrieveMinerRewardCounts \o Try(retrieveMultiAddressCoinbases)
GetBlockSKAFees == BlockHash \o GetBlockByHash
GetBlockHeaderByHash == Check \o Rpc
GetBlockHeight == chainHashFromStr \o retrieveBlockHeight
GetBlockHash == retrieveBlockHash
GetHeader == Rpc
GetBlockVerboseByHash == Check \o Rpc
getBlockVerbose == Rpc \o Rpc
makeBlockTransactions(block) == Deref(block)
GetTransactionsForBlockByHash == makeBlockTransactions(GetBlockVerboseByHash)
GetTransactionByHash == Check \o Rpc
GetRawTransactionVerbose == Rpc
GetTransactionHex == Rpc \o Check
SendRawTransaction == Check \o Rpc
DecodeRawTransaction == Check \o Rpc
GetAPITransaction == Rpc \o Check
GetTrimmedTransaction == GetAPITransaction
GetVoteInfo == Rpc \o Check
GetVoteVersionInfo == Rpc
GetStakeVersions == Rpc
GetStakeVersionsLatest == HashStr \o GetStakeVersions
GetAllTxIn == Rpc
GetAllTxOut == Rpc
GetStakeDiffEstimates == Rpc \o Rpc
BlockSummary == Opt(retrieveBlockSummary)
GetSummary == BlockSummary
BlockSummaryRange == retrieveBlockSummaryRange
GetSummaryRange == BlockSummaryRange
BlockSummaryRangeStepped == retrieveBlockSummaryRangeStepped
GetSummaryRangeStepped == BlockSummaryRangeStepped
BlockSummaryByHash == Opt(chainHashFromStr \o retrieveBlockSummaryByHash)
GetSummaryByHash == BlockSummaryByHash \o Opt(GetBlockVerboseByHash \o Each(Check))
GetBestBlockSummary == HeightDB \o Check \o BlockSummary
BlockSize == Opt(Height \o Check \o retrieveBlockSize)
GetBlockSize == BlockSize
BlockSizeRange == Height \o Check \o retrieveBlockSizeRange
GetBlockSizeRange == BlockSizeRange
GetSDiff == retrieveSDiff
GetSBitsByHash == chainHashFromStr \o retrieveSBitsByHash
SDiffRange == Height \o Check \o retrieveSDiffRange
GetSDiffRange == SDiffRange
PowerlessTickets == retrievePowerlessTickets
CurrentDifficulty == Rpc
\* A cached difficulty, or a query whose result is cached.
Difficulty == Peek("block") \o Opt(retrieveDiff \o Peek("block"))
TxHeight == Rpc
VinsForTx == retrieveVinsByIDs
VoutsForTx == retrieveVoutsByIDs
\* The block shown last is kept; the status of a revoked ticket is left out
\* when its query fails.
ExplorerStakeTxns == Each(Check \o Opt(Drop(retrieveTicketStatusByHash)))
ExplorerRegularTxns == Each(Check)
GetExplorerBlock ==
  Peek("block")
  \o Opt(GetBlockVerboseByHash \o Then(GetSummaryByHash, Opt(Try(issuedSKACoinTypes)))
         \o Opt(Check \o Rpc) \o ExplorerStakeTxns \o ExplorerRegularTxns
         \o Peek("block"))
GetExplorerBlocks ==
  Try(issuedSKACoinTypes) \o Each(Then(getBlockVerbose, Try(GetSummaryByHash)))
\* A block that fails is nil in the list, or has a nil BlockBasic; here the failure of the call.
GetExplorerFullBlocks == Each(getBlockVerbose \o GetExplorerBlock)
\* Read again until the node's best block did not change meanwhile.
txWithTicketPrice == Rpc \o Each(Rpc \o Either(Try(GetSBitsByHash), Rpc \o Rpc))
\* The node is asked for what an input spends, and a second time for its value.
ExplorerTxInputs == Each(Opt(Try(Rpc)) \o Opt(Try(Check \o Rpc)))
ExplorerTxSpenders == Try(SpendingTransactions)
GetExplorerTx ==
  Check \o txWithTicketPrice \o Check \o ExplorerTxInputs \o Opt(Height) \o ExplorerTxSpenders
getTip == Locked("tip", HashStr \o Opt(retrieveLatestBlockSummary))
GetTip == getTip
=============================================================================
