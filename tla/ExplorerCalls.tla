---------------------------- MODULE ExplorerCalls ---------------------------
(***************************************************************************)
(* The explorer's pages (cmd/dcrdata/internal/explorer) and what it does   *)
(* on a new block or a new mempool, as sequences of steps (see Calls).     *)
(* Every failure that a handler does not answer itself leads to the status *)
(* page, which needs the tip like every other page.                        *)
(***************************************************************************)
EXTENDS InsightCalls

commonData == GetTip
\* The status page's own request has no deadline.
StatusPage == E(NoDeadline(commonData)) \o Write
Paged(p) == Otherwise(p, StatusPage)
\* The template is executed with the common data, and fails without it.
Page == commonData \o Check \o Write

\* The explorer's caches, each behind a mutex of its own.
exp_Height == Peek("page")
LastBlock == Peek("page")
tipHeight == Peek("page")
eTagAndLastModified == Peek("page")
resetETagAndLastModified == Locked("page", <<>>)
MempoolInventory == Peek("invs")
MempoolID == Peek("invs")
mempoolTime == Peek("invs")
GetTxMempoolInputs == MempoolInventory \o Shared("inv", <<>>)
StoreMPData == Peek("page") \o Locked("invs", <<>>) \o resetETagAndLastModified

\* A new block: the supplies and the inventory, and the rewards of the votes,
\* are brought up to date under the page data's mutex.
StoreSupplies == Try(VARCoinSupply) \o Try(SKACoinSupply) \o Locked("invs", <<>>)
StoreVoteReward == Opt(Locked("charts", <<>>)) \o Height \o Try(GetSummaryRange)
StoreSKAVoteRewards ==
  Try(GetVoteTicketDataByBlock) \o Each(Opt(Try(GetExplorerBlock)) \o Drop(GetVoteTicketDataByBlock))
\* The block is used without a test for nil.  Nothing is reset while the databases sync.
exp_Store ==
  Deref(GetExplorerBlock) \o Difficulty \o Difficulty \o Try(GetHeightByTimestamp) \o Try(ActiveMiners)
  \o Locked("page", StoreSupplies \o StoreVoteReward \o StoreSKAVoteRewards)
  \o Opt(resetETagAndLastModified)

SyncStatusPageIntercept(next) == Either(StatusPage, next)
SyncStatusAPIIntercept(next) == Either(Answer, next)
SyncStatusFileIntercept(next) == Either(Answer, next)
ETagAndLastModifiedIntercept(next) == eTagAndLastModified \o Opt(Answer) \o next
AllowedHosts == E(Check)
MenuFormParser == Opt(E(Check) \o Answer)
ThemeFromQueryParser == <<>>
BlockHashPathOrIndexCtx ==
  Either(BlockHeight, Height \o Check \o OrElse(GetBlockHash, BlockHash))

Home ==
  Paged(GetHeight \o Try(GetExplorerBlocks) \o MempoolInventory
        \o Shared("inv", Shared("page", Try(commonData))) \o Check \o Write)
VisualBlocks ==
  Paged(GetHeight \o Deref(GetExplorerFullBlocks) \o Peek("page") \o MempoolInventory \o Shared("inv", <<>>)
        \o Shared("page", Try(commonData)) \o Check \o Write)
SideChains == Paged(SideChainBlocks \o Page)
InsightRootPage == Paged(Page)
exp_DisapprovedBlocks == Paged(DisapprovedBlocks \o Page)
StakeDiffWindows == Paged(Opt(E(Check)) \o Opt(E(Check)) \o Peek("page") \o PosIntervals \o Page)
timeBasedBlocksListing ==
  Paged(Opt(E(Check)) \o Opt(E(Check)) \o Check \o TimeBasedIntervalsCount \o TimeBasedIntervals \o Page)
DayBlocksListing == timeBasedBlocksListing
WeekBlocksListing == timeBasedBlocksListing
MonthBlocksListing == timeBasedBlocksListing
YearBlocksListing == timeBasedBlocksListing
Blocks ==
  Paged(GetHeight \o Opt(E(Check)) \o Opt(E(Check)) \o GetExplorerBlocks \o Check
        \o Each(Maybe(BlockStatus)) \o Page)
Block ==
  Paged(BlockHashPathOrIndexCtx \o GetExplorerBlock \o Maybe(BlockMissedVotes) \o Maybe(BlockStatuses) \o Page)
Mempool == Paged(MempoolInventory \o Shared("inv", Try(commonData)) \o Check \o Write)
Ticketpool == Paged(Page)

\* A transaction; what belongs to a ticket, a vote or a revocation only.
txAtomicSwapsInfo == Opt(GetTransactionByHash \o Each(GetTransactionByHash) \o Check)
TicketStatus ==
  PoolStatusForTicket \o Opt(Opt(TicketMiss) \o Opt(Check \o Try(TxHeight)) \o Peek("page"))
TxInfo == Check \o Check \o Check \o GetExplorerTx
TxContext ==
  Opt(GetTxMempoolInputs) \o Opt(Try(GetExplorerBlock)) \o TransactionBlocks \o SpendingTransactions
RevokedTicketStatus == Opt(Maybe(PoolStatusForTicket))
TxPage ==
  Paged(TxInfo \o TxContext \o Opt(TicketStatus) \o RevokedTicketStatus
        \o Try(txAtomicSwapsInfo) \o Opt(mempoolTime) \o Page)

AddressListData == AddressData
AddressPage == Paged(Check \o Check \o Check \o Opt(AddressListData) \o Page)
AddressTable == E(Check) \o E(AddressListData) \o E(Check) \o Write
AddressSummary == E(Check) \o E(AddressListData) \o E(Check) \o Write
DecodeTxPage == Paged(Page)
Charts == Paged(Peek("page") \o Page)
HashrateShares == Paged(Peek("page") \o Page)
AttackCost == Paged(Peek("page") \o Page)
Search ==
  Paged(Check
        \o Either(Found(GetBlockHash) \o Found(BlockHash) \o Fail,
                  Opt(Answer) \o Opt(Check)
                  \o Either(Found(Check) \o Fail,
                            Opt(Found(GetBlockHeight)) \o Opt(Found(GetTransactionByHash)) \o Found(Check) \o Fail)))
NotFound == StatusPage
ParametersPage ==
  Paged(Peek("page") \o Drop(SKACoinSupply \o Opt(Drop(SKACoinEmissionHeights))) \o commonData \o Peek("page")
        \o Check \o Write)
AgendaPage == Paged(Check \o Try(AgendasVotesSummary) \o Page)
AgendasPage == Paged(Check \o Check \o Page)
HandleApiRequestsOnSync == Write
VerifyMessagePage == Paged(Page)
VerifyMessageHandler == Paged(Page)

intervalMinHeight == Opt(Peek("page") \o Opt(GetHeightByTimestamp))
HashrateSharesData ==
  Either(E(Check) \o E(Check) \o tipHeight \o E(Check), E(intervalMinHeight) \o tipHeight)
  \o E(MinerHashrateShares) \o Write

\* The routes of the web server, behind the page that is shown during the sync.
WebRoutes ==
  LET pages == [days |-> DayBlocksListing, weeks |-> WeekBlocksListing, months |-> MonthBlocksListing,
                years |-> YearBlocksListing, blocks |-> Blocks, windows |-> StakeDiffWindows,
                side |-> SideChains, block |-> Block, tx |-> TxPage, address |-> AddressPage,
                addresstable |-> AddressTable, addresssummary |-> AddressSummary, proposals |-> Write,
                decodetx |-> DecodeTxPage, search |-> Search, ticketpool |-> Ticketpool,
                set |-> MenuFormParser \o Home, verify |-> VerifyMessagePage,
                verifyPost |-> Tollbooth \o VerifyMessageHandler, visualblocks |-> VisualBlocks,
                sharesData |-> HashrateSharesData, notfound |-> NotFound]
      cached == [home |-> Home, disapproved |-> exp_DisapprovedBlocks, mempool |-> Mempool, charts |-> Charts,
                 shares |-> HashrateShares, parameters |-> ParametersPage, agendas |-> AgendasPage,
                 agenda |-> AgendaPage, attackCost |-> AttackCost]
      intercepted(next) == AllowedHosts \o SyncStatusPageIntercept(ThemeFromQueryParser \o next)
      api == NewAPIRouter @@ NewInsightAPIRouter
  IN  [r \in DOMAIN pages |-> intercepted(pages[r])]
      @@ [r \in DOMAIN cached |-> intercepted(ETagAndLastModifiedIntercept(cached[r]))]
      @@ [r \in DOMAIN api |-> AllowedHosts \o SyncStatusAPIIntercept(api[r])]
      @@ [r \in DOMAIN NewFileRouter |-> AllowedHosts \o SyncStatusFileIntercept(NewFileRouter[r])]
      @@ [insight |-> AllowedHosts \o InsightRootPage]
=============================================================================
