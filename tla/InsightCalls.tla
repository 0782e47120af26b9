---------------------------- MODULE InsightCalls ----------------------------
(***************************************************************************)
(* The Insight API (cmd/dcrdata/internal/api/insight): middlewares,        *)
(* handlers and routes as sequences of steps (see Calls).                  *)
(***************************************************************************)
EXTENDS ApiCalls

ValidatePostCtx == E(Check) \o E(Check)
PostAddrsTxsCtxN == E(Check) \o E(Check) \o E(Check) \o E(Check) \o E(Check)
PostAddrsUtxoCtxN == E(Check) \o E(Check) \o E(Check) \o E(Check) \o E(Check)
BlockDateLimitQueryCtx == Opt(E(Check))

\* The next handler runs once for an address and once for a block: not at all
\* when the query has neither, twice when it has both.
TransactionsCtx(next) == Opt(next) \o Opt(next)

\* A transaction's inputs: the address of the spent output from the database,
\* or from the node when that fails; its outputs: their spenders.
DcrToInsightTxns ==
  Each(Each(Opt(OrMaybe(OutpointAddresses, Try(Rpc))))
       \o Opt(SpendDetailsForFundingTx))
TxConverter == DcrToInsightTxns
DcrToInsightBlock == Check

insight_getTransaction == E(GetTxIDCtx) \o E(GetRawTransactionVerbose) \o E(TxConverter) \o Write
insight_getTransactionHex == E(GetTxIDCtx) \o E(GetTransactionHex) \o Write
insight_getBlockSummary ==
  Opt(E(Check) \o E(GetBlockHash)) \o E(GetBlockVerboseByHash) \o E(DcrToInsightBlock) \o Write
insight_getBlockHash == E(Check) \o Height \o E(Check) \o E(GetBlockHash) \o Write
getRawBlock == Opt(E(Check) \o E(GetBlockHash)) \o E(Check) \o E(Rpc) \o E(Check) \o Write
broadcastTransactionRaw == E(Check) \o E(Check) \o E(SendRawTransaction) \o Write

\* The unspent outputs of several addresses, one query at a time over all
\* requests.  A request that finds the limit reached keeps the limiter's lock
\* until it has answered.  A query that timed out is answered, another error
\* leaves the address out.
addressTxnOutput == Either(E(AddressUTXO), Try(AddressUTXO))
unconfirmedTxnOutput == Try(Check) \o Opt(E(Check))
getAddressesTxnOutput ==
  LET one == Locked("limiter", addressTxnOutput) \o unconfirmedTxnOutput
  IN  E(GetAddressCtx) \o Height \o Opt(one)
      \o Either(Opt(one) \o Write,
                Locked("limiter", Each(addressTxnOutput \o unconfirmedTxnOutput) \o Write))

insight_getTransactions ==
  E(Check) \o E(Check)
  \o Either(E(GetBlockVerboseByHash) \o Opt(Answer) \o E(TxConverter) \o Write,
            E(InsightAddressTransactions) \o E(Check) \o Opt(Answer)
            \o Each(E(GetRawTransactionVerbose)) \o E(TxConverter) \o Write)
getAddressesTxn ==
  E(GetAddressCtx) \o E(Check) \o E(InsightAddressTransactions) \o Each(E(Check)) \o Opt(E(Check))
  \o Each(E(GetRawTransactionVerbose)) \o E(DcrToInsightTxns) \o Write
getSyncInfo == E(Rpc) \o Height \o Write
getStatusInfo == E(Rpc) \o Either(Opt(E(Rpc)), E(Rpc) \o E(Rpc)) \o Write
getBlockSummaryByTime == E(Check) \o E(BlockSummaryTimeRange) \o Write
getAddressInfo ==
  E(GetAddressCtx) \o E(Check) \o E(AddressBalance) \o Opt(Answer) \o E(InsightAddressTransactions)
  \o Try(Check) \o Opt(Answer) \o Opt(E(Check)) \o Write
getEstimateFee == E(Rpc) \o Write
GetPeerStatus == Write

NewInsightAPIRouter ==
  LET blocks == [list |-> BlockDateLimitQueryCtx \o getBlockSummaryByTime,
                 block |-> BlockIndexOrHashPathCtx \o insight_getBlockSummary,
                 index |-> BlockIndexOrHashPathCtx \o insight_getBlockHash,
                 raw |-> BlockIndexOrHashPathCtx \o getRawBlock]
      txs == [send |-> ValidatePostCtx \o PostBroadcastTxCtx \o broadcastTransactionRaw,
              tx |-> insight_getTransaction, rawtx |-> insight_getTransactionHex,
              txs |-> TransactionsCtx(PageNumCtx \o insight_getTransactions)]
      addrs == [txs |-> AddressPathCtxN \o getAddressesTxn, utxo |-> AddressPathCtxN \o getAddressesTxnOutput,
                postTxs |-> ValidatePostCtx \o PostAddrsTxsCtxN \o getAddressesTxn,
                postUtxo |-> ValidatePostCtx \o PostAddrsUtxoCtxN \o getAddressesTxnOutput,
                info |-> AddressPathCtxN \o getAddressInfo]
      rest == [status |-> StatusInfoCtx \o getStatusInfo, sync |-> getSyncInfo, fee |-> getEstimateFee,
               peer |-> GetPeerStatus, root |-> Write]
  IN  Under("insight/", Tollbooth \o Indent,
            Under("block/", <<>>, blocks) @@ Under("tx/", <<>>, txs) @@ Under("addr/", <<>>, addrs)
            @@ Under("", <<>>, rest))
=============================================================================
