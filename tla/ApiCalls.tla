------------------------------ MODULE ApiCalls ------------------------------
(***************************************************************************)
(* The JSON API (cmd/dcrdata/internal/api): its middlewares, its handlers  *)
(* and the routes that chain them, as sequences of steps (see Calls).  A   *)
(* handler is E(p) for a call whose error it answers, and a Write.         *)
(***************************************************************************)
EXTENDS StoreCalls

E(p) == OrError(p)

\* Middlewares that only put a value into the request's context.
Tollbooth == E(Check)
Indent == Opt(E(Check))
BlockStepPathCtx == E(Check)
BlockIndexPathCtx == E(Check)
BlockIndexOrHashPathCtx == Opt(E(Check))
BlockIndex0PathCtx == E(Check)
NPathCtx == E(Check)
MPathCtx == E(Check)
TransactionIOIndexCtx == E(Check)
AddressPathCtxN == E(Check) \o E(Check)
PaginationCtx == Opt(E(Check)) \o Opt(E(Check))
PageNumCtx == E(Check)
BlockDateQueryCtx == E(Check)
PostBroadcastTxCtx == E(Check) \o E(Check) \o E(Check)
PostTxnsCtx == E(Check) \o E(Check)
ValidateTxnsPostCtx == E(Check) \o E(Check)

\* Middlewares that ask the data source; its errors leave the value unset or -1.
BlockHashPathAndIndexCtx == Try(GetBlockHeight)
StatusInfoCtx == Try(GetHeight)
BlockHashLatestCtx == Try(GetBestBlockHash)
StakeVersionLatestCtx == Try(GetStakeVersionsLatest)
BlockIndexLatestCtx == Try(GetHeight)

\* What a handler takes out of the context, asking the database for the other
\* of a block's hash and height.
GetBlockHashCtx == Check
GetTxIDCtx == Check
GetTxnsCtx == Check
GetAddressCtx == Check
getBlockHeightCtx == Opt(GetBlockHashCtx \o GetBlockHeight)
getBlockHashCtx == Opt(GetBlockHash)

\* The loop that follows the node's connections and the best block.
updateNodeConnections == Rpc \o Opt(Rpc)
UpdateNodeHeight == Peek("status")
StatusNtfnHandler ==
  Each(Either(Try(updateNodeConnections),
              Then(GetBestBlockSummary, Peek("status") \o Try(GetHeight) \o Opt(Peek("status")))))

api_root == Write
api_status == Write
statusHappy == Write
api_coinSupply == E(CurrentCoinSupply) \o Write
coinSupplyCirculating == E(CurrentCoinSupply) \o Write
getActiveMiners == E(GetBestBlockSummary) \o E(GetHeightByTimestamp) \o E(ActiveMiners) \o Write
currentHeight == Write
api_verifyMessage == Opt(Answer) \o Opt(Answer) \o Write
api_getBlockHeight == E(getBlockHeightCtx) \o Write
api_getBlockHash == E(getBlockHashCtx) \o Write
api_getBlockSummary == Opt(E(Check)) \o E(getBlockHashCtx) \o E(GetSummaryByHash) \o Write
\* The nil block that a failing node leads to is used before it is tested.
getBlockTransactions == E(getBlockHashCtx) \o GetTransactionsForBlockByHash \o E(Check) \o Write
getBlockTransactionsCount == E(getBlockHashCtx) \o GetTransactionsForBlockByHash \o E(Check) \o Write
getBlockHeader == E(getBlockHeightCtx) \o E(GetHeader) \o Write
getBlockRaw == E(getBlockHashCtx) \o E(GetBlockByHash) \o E(Check) \o Write
getBlockHeaderRaw == E(getBlockHashCtx) \o E(GetBlockHeaderByHash) \o E(Check) \o Write
\* Mutants: the result is used before it is tested; no return after http.Error.
getBlockVerboseUntested == E(getBlockHashCtx) \o E(Deref(GetBlockVerboseByHash)) \o Try(GetSummaryByHash) \o Write
getVoteInfoGoingOn == E(Check) \o ErrorAndGoOn(GetVoteVersionInfo) \o Write
api_getBlockVerbose == E(getBlockHashCtx) \o E(GetBlockVerboseByHash) \o Try(GetSummaryByHash) \o Write
getVoteInfo == E(Check) \o E(GetVoteVersionInfo) \o Write

\* Transactions, with the spenders of their outputs when asked for.
setOutputSpends == SpendingTransactions \o Check \o Each(Check)
setTxSpends == setOutputSpends
setTrimmedTxSpends == setOutputSpends
api_getTransaction ==
  Opt(E(Check)) \o E(GetTxIDCtx) \o E(GetAPITransaction) \o Opt(E(setTxSpends)) \o Write
api_getTransactionHex == E(GetTxIDCtx) \o Try(GetTransactionHex) \o Write
getDecodedTx ==
  Opt(E(Check)) \o E(GetTxIDCtx) \o E(GetTrimmedTransaction) \o Opt(E(setTrimmedTxSpends)) \o Write
\* A spender's hash that cannot be parsed ends the handler without a word.
getTxSwapsInfo ==
  E(GetTxIDCtx) \o E(Rpc) \o Opt(Answer)
  \o Opt(E(SpendingTransactions) \o Each(E(Check) \o Opt(Check \o E(Rpc))))
  \o E(Check) \o Write
getTransactions ==
  Opt(E(Check)) \o E(GetTxnsCtx) \o Each(E(GetAPITransaction) \o Opt(E(setTxSpends))) \o Write
getDecodedTransactions ==
  Opt(E(Check)) \o E(GetTxnsCtx) \o Each(E(GetTrimmedTransaction) \o Opt(E(setTrimmedTxSpends))) \o Write
getTxVoteInfo == E(GetTxIDCtx) \o E(GetVoteInfo) \o Write
getTxTicketInfo == E(GetTxIDCtx) \o E(GetTicketInfo) \o Write
getTransactionInputs == E(GetTxIDCtx) \o E(GetAllTxIn) \o Write
getTransactionInput == E(GetTxIDCtx) \o E(Check) \o E(GetAllTxIn) \o E(Check) \o Write
getTransactionOutputs == E(GetTxIDCtx) \o E(GetAllTxOut) \o Write
getTransactionOutput == E(GetTxIDCtx) \o E(Check) \o E(GetAllTxOut) \o E(Check) \o Write

\* Stake information.
getBlockStakeInfoExtendedByHash == E(getBlockHashCtx) \o E(GetStakeInfoExtendedByHash) \o Write
getBlockStakeInfoExtendedByHeight == E(getBlockHeightCtx) \o E(GetStakeInfoExtendedByHeight) \o Write
getStakeDiffSummary == E(GetStakeDiffEstimates) \o Write
getPowerlessTickets == E(PowerlessTickets) \o Write
getStakeDiffCurrent == E(GetStakeDiffEstimates) \o Write
getStakeDiffEstimates == E(GetStakeDiffEstimates) \o Write
getSSTxSummary == E(Check) \o Write
getSSTxFees == E(Check) \o Write
getSSTxDetails == E(Check) \o Write
getTicketPoolCharts == E(TicketPoolVisualization) \o Write
getTicketPoolByDate == E(Check) \o E(TicketPoolVisualization) \o Write
getTicketPool == Opt(E(Check)) \o E(getBlockHeightCtx) \o E(GetPool) \o Write
getTicketPoolInfo == E(getBlockHeightCtx) \o Try(GetPoolInfo) \o Write
getTicketPoolValAndSizeRange == E(Check) \o E(Check) \o E(GetPoolValAndSizeRange) \o Write
getTicketPoolInfoRange ==
  Either(E(Check) \o getTicketPoolValAndSizeRange, E(Check) \o E(Check) \o E(GetPoolInfoRange) \o Write)
getStakeDiff == E(getBlockHeightCtx) \o Try(GetSDiff) \o Write
getStakeDiffRange == E(Check) \o E(Check) \o Try(GetSDiffRange) \o Write

\* Blocks.
getBlockSize == E(getBlockHeightCtx) \o E(GetBlockSize) \o Write
blockSubsidies == E(getBlockHeightCtx) \o E(getBlockHashCtx) \o Opt(E(VotesInBlock)) \o Write
getBlockRangeSize == E(Check) \o E(Check) \o E(GetBlockSizeRange) \o Write
getBlockRangeSteppedSize == E(Check) \o E(Check) \o E(Check) \o E(GetBlockSizeRange) \o Write
getBlockRangeSummary == E(Check) \o E(GetSummaryRange) \o Write
getBlockRangeSteppedSummary == E(Check) \o E(Check) \o E(GetSummaryRangeStepped) \o Write

\* Addresses, charts and agendas.
addressTotals == E(GetAddressCtx) \o E(AddressTotals) \o Write
addressExists == E(GetAddressCtx) \o ErrorAndGoOn(Rpc) \o ErrorAndGoOn(Check) \o Write
addressIoCsv == E(GetAddressCtx) \o E(Check) \o E(AddressRowsCompact) \o Write
addressIoCsvNoCR == addressIoCsv
addressIoCsvCR == addressIoCsv
getAddressTxTypesData == E(GetAddressCtx) \o E(Check) \o E(Check) \o E(TxHistoryData) \o Write
getAddressTxAmountFlowData == E(GetAddressCtx) \o E(Check) \o E(Check) \o E(TxHistoryData) \o Write
getAddressTransactions == E(GetAddressCtx) \o E(AddressTransactionDetails) \o Write
getAddressTransactionsRaw == E(GetAddressCtx) \o E(GetAddressTransactionsRawWithSkip) \o Write
\* The series of a coin that the charts do not hold yet are loaded on request.
ChartTypeData ==
  Opt(GetHeight \o Opt(Try(LoadSKASupplyForCoin))) \o Opt(GetHeight \o Opt(Try(LoadSKAFeesForCoin)))
  \o E(Check) \o Peek("charts") \o E(Check) \o Write
getAgendaData == E(Check) \o E(AgendaVotes) \o E(AgendaVotes) \o Write
getAgendasData == E(Check) \o ErrorAndGoOn(Check) \o Write

\* The routes of NewAPIRouter, by path.  The Recoverer around all of them turns a
\* panic into a response.
BlockRoutes ==
  LET common == [summary |-> api_getBlockSummary, header |-> getBlockHeader, headerRaw |-> getBlockHeaderRaw,
                 raw |-> getBlockRaw, size |-> getBlockSize, subsidy |-> blockSubsidies,
                 verbose |-> api_getBlockVerbose, tx |-> getBlockTransactions,
                 txCount |-> getBlockTransactionsCount]
      best == common @@ [height |-> currentHeight, hash |-> api_getBlockHash, pos |-> getBlockStakeInfoExtendedByHeight]
      byHash == common @@ [height |-> api_getBlockHeight, pos |-> getBlockStakeInfoExtendedByHash]
      byIndex == common @@ [hash |-> api_getBlockHash, pos |-> getBlockStakeInfoExtendedByHeight]
      range == [summary |-> getBlockRangeSummary, size |-> getBlockRangeSize]
      stepped == [summary |-> getBlockRangeSteppedSummary, size |-> getBlockRangeSteppedSize]
      ends == BlockIndex0PathCtx \o BlockIndexPathCtx
  IN  Under("block/best/", BlockIndexLatestCtx, best) @@ Under("block/hash/", BlockHashPathAndIndexCtx, byHash)
      @@ Under("block/idx/", BlockIndexPathCtx, byIndex) @@ Under("block/range/", ends, range)
      @@ Under("block/stepped/", ends \o BlockStepPathCtx, stepped)

StakeRoutes ==
  LET ends == BlockIndex0PathCtx \o BlockIndexPathCtx
      pool == [best |-> BlockIndexLatestCtx \o getTicketPoolInfo, full |-> BlockIndexLatestCtx \o getTicketPool,
               at |-> BlockIndexPathCtx \o getTicketPoolInfo,
               fullAt |-> BlockIndexOrHashPathCtx \o getTicketPool, range |-> ends \o getTicketPoolInfoRange]
      diff == [summary |-> getStakeDiffSummary, current |-> getStakeDiffCurrent,
               estimates |-> getStakeDiffEstimates, at |-> BlockIndexPathCtx \o getStakeDiff,
               range |-> ends \o getStakeDiffRange]
  IN  Under("stake/vote/", StakeVersionLatestCtx, [info |-> getVoteInfo]) @@ Under("stake/pool/", <<>>, pool)
      @@ Under("stake/diff/", <<>>, diff) @@ Under("stake/", <<>>, [powerless |-> getPowerlessTickets])

TxRoutes ==
  LET byID == [tx |-> api_getTransaction, trimmed |-> getDecodedTx, outs |-> getTransactionOutputs,
               out |-> TransactionIOIndexCtx \o getTransactionOutput, ins |-> getTransactionInputs,
               in |-> TransactionIOIndexCtx \o getTransactionInput, vinfo |-> getTxVoteInfo,
               tinfo |-> getTxTicketInfo, hex |-> api_getTransactionHex, swaps |-> getTxSwapsInfo]
      many == [txs |-> getTransactions, trimmed |-> getDecodedTransactions]
  IN  Under("tx/", <<>>, byID) @@ Under("txs/", ValidateTxnsPostCtx \o PostTxnsCtx, many)

AddressRoutes ==
  LET txns == [list |-> getAddressTransactions, raw |-> getAddressTransactionsRaw]
      one == txns @@ [totals |-> addressTotals, types |-> getAddressTxTypesData,
                      amountflow |-> getAddressTxAmountFlowData, exists |-> addressExists]
  IN  Under("address/", AddressPathCtxN, one) @@ Under("address/count/", AddressPathCtxN \o NPathCtx, txns)
      @@ Under("address/count/skip/", AddressPathCtxN \o NPathCtx \o MPathCtx, txns)

OtherRoutes ==
  Under("", <<>>,
        [root |-> api_root, status |-> api_status, happy |-> statusHappy, supply |-> api_coinSupply,
         circulating |-> coinSupplyCirculating, miners |-> getActiveMiners, verify |-> api_verifyMessage,
         agendas |-> getAgendasData, agenda |-> getAgendaData, sstx |-> getSSTxSummary,
         sstxFees |-> Opt(NPathCtx) \o getSSTxFees, sstxDetails |-> Opt(NPathCtx) \o getSSTxDetails,
         chart |-> ChartTypeData, ticketpool |-> getTicketPoolByDate, ticketpoolCharts |-> getTicketPoolCharts])

NewAPIRouter ==
  Under("api/", Indent, BlockRoutes @@ StakeRoutes @@ TxRoutes @@ AddressRoutes @@ OtherRoutes)
NewFileRouter ==
  Under("download/", AddressPathCtxN, [io |-> addressIoCsvNoCR, win |-> addressIoCsvCR])
=============================================================================
