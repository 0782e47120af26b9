------------------------------ MODULE ChainDB ------------------------------
(***************************************************************************)
(* dcrpg.ChainDB: the PostgreSQL tables that a block is written to one     *)
(* statement or SQL transaction after the other by StoreBlock, re-flagged  *)
(* by TipToSideChain in a reorganization, and brought back to a common     *)
(* block by NewChainDB, the orphaned tip check of main.go and SyncChainDB  *)
(* when the process starts.                                                *)
(*                                                                         *)
(* The rows of a table are kept per block, with their main chain flag: the *)
(* rows that no other block writes.  A transaction that several blocks     *)
(* mine, on two branches or again after a disapproval, has one set of vins *)
(* and addresses rows, which are kept per transaction.  The node and the   *)
(* notifier are the environment: node is the node's best block, prev the   *)
(* block that the notifier announced last.                                 *)
(***************************************************************************)
EXTENDS BlockTree, FiniteSets

CONSTANTS
    Disapproving,  \* blocks whose votes disapprove their parent
    Miners, Miner, \* Miner[b]: the address that block b's coinbase pays
    Txs,           \* transactions that more than one block mines
    RegularTxs, StakeTxs, \* RegularTxs[b]: those of b's regular transaction tree
    InitTip,       \* best block of the synchronized database at first
    MaxCrashes,    \* bound: process exits
    MaxFails       \* bound: failed statements

ASSUME DataAssumption ==
    /\ IsFiniteSet(Blocks)
    /\ Disapproving \subseteq Blocks
    /\ Miner \in [Blocks -> Miners]
    /\ RegularTxs \in [Blocks -> SUBSET Txs] /\ StakeTxs \in [Blocks -> SUBSET Txs]
    /\ InitTip \in Blocks

\* Consensus: a chain mines a transaction again only if the block that mined it
\* before was disapproved, and its stake transactions stay.
ASSUME MinedAgainAssumption ==
    \A b, d \in Blocks : b # d /\ IsAncestor(b, d) =>
        /\ StakeTxs[b] \cap StakeTxs[d] = {}
        /\ RegularTxs[b] \cap RegularTxs[d] # {} =>
              \E c \in Disapproving \ {Genesis} : Parent(c) = b /\ IsAncestor(c, d)

ASSUME BoundAssumption == MaxCrashes \in Nat /\ MaxFails \in Nat

\* The commits of the two concurrent storeBlockTxnTree calls, in order.
RegularSteps == <<{"rtxns", "rvins"}, {"raddrs"}>>
StakeSteps == <<{"stxns", "svins"}, {"tickets"}, {"votes"}, {"saddrs"}>>

\* The updates of TipToSideChain, in order.
SideSteps == <<{"blocks"}, {"rtxns", "stxns"}, {"rvins", "svins"}, {"raddrs", "saddrs"},
               {"votes"}, {"tickets"}>>

\* The updates of updateLastBlock for a disapproved block, in order.
InvalidSteps == <<"blocks", "rvins", "rtxns", "raddrs">>

DataTables == {"rtxns", "rvins", "raddrs", "stxns", "svins", "tickets", "votes", "saddrs"}
Tables == DataTables \cup {"blocks", "chain"}
ValidTables == {"blocks", "rvins", "rtxns", "raddrs"}

\* Tables whose unique index is of the transaction alone, not of the block too.
SharedTables == {"rvins", "raddrs", "svins", "saddrs"}

\* Transactions of b with rows in t that other blocks write too.
Mined(t, b) ==
    CASE t \in {"rtxns", "rvins", "raddrs"} -> RegularTxs[b]
      [] t \in {"stxns", "svins", "saddrs"} -> StakeTxs[b]
      [] OTHER -> {}

VARIABLES
    db,         \* db[t][b]: "none", or the main chain flag of b's rows in t
    invalid,    \* invalid[t]: blocks with is_valid unset in t
    shared,     \* shared[t][x]: x's rows in t: the block whose time they have, and their flags
    ids,        \* ids[x]: blocks whose transactions row of x has the ids of x's rows
    next,       \* block_chain.next_hash
    stats,      \* stats[h]: the block that the stats row of height h is for
    mined,      \* miners.blocks_mined
    meta,       \* best block of the meta table
    best,       \* ChainDB.bestBlock
    lastBlock,  \* keys of ChainDB.lastBlock
    pc, mode,   \* the step, and the caller of StoreBlock
    cur,        \* block that is stored, or moved to the side chain
    up,         \* previous block of cur, as TipToSideChain read it
    reg, stk,   \* commits done for the two trees, or Failed
    k,          \* index of the next update in a list of steps
    floor,      \* height that blocks are purged down to
    target, root, \* reorganization: NewChainHead and CommonAncestor
    prev, node,
    crashes, fails

tables == <<db, invalid, shared, ids, next, stats, mined, meta>>
memory == <<best, lastBlock>>
work == <<mode, cur, up, reg, stk, k, floor, target, root>>
env == <<prev, node>>
bounds == <<crashes, fails>>
vars == <<db, invalid, shared, ids, next, stats, mined, meta, best, lastBlock, pc, mode, cur, up, reg,
          stk, k, floor, target, root, prev, node, crashes, fails>>

-----------------------------------------------------------------------------
MainBlocks == {b \in Blocks : db["blocks"][b] = "main"}

\* retrieveBestBlock: the highest main chain block of the blocks table.
TableBest == CHOOSE b \in MainBlocks : \A c \in MainBlocks : Height(c) <= Height(b)

\* c is the last block that the chains of a and b have in common.
CommonAncestor(c, a, b) ==
    /\ IsAncestor(c, a) /\ IsAncestor(c, b)
    /\ \A d \in Blocks : IsAncestor(d, a) /\ IsAncestor(d, b) => Height(d) <= Height(c)

Failed == 9
Fail == fails < MaxFails /\ fails' = fails + 1

\* A failure that the rows themselves bring about: one more than MaxFails.
FailOfItself == fails <= MaxFails /\ fails' = fails + 1

NoRow == [block |-> NoBlock, flag |-> "none", valid |-> FALSE]

\* An upsert leaves b's rows flagged as main chain and valid.  The vins and
\* addresses rows of b's transactions become b's, whichever block wrote them; a
\* transactions row gets their ids only when it is inserted.
Upsert(ts, b) ==
    /\ db' = [t \in Tables |-> IF t \in ts THEN [db[t] EXCEPT ![b] = "main"] ELSE db[t]]
    /\ invalid' = [t \in ValidTables |-> invalid[t] \ (IF t \in ts THEN {b} ELSE {})]
    /\ shared' = [t \in SharedTables |-> [x \in Txs |->
                     IF t \in ts /\ x \in Mined(t, b) THEN [block |-> b, flag |-> "main", valid |-> TRUE]
                     ELSE shared[t][x]]]
    /\ ids' = [x \in Txs |-> IF \E t \in ts \cap {"rtxns", "stxns"} : x \in Mined(t, b) /\ db[t][b] = "none"
                             THEN ids[x] \cup {b} ELSE ids[x]]

\* An UPDATE changes the rows that there are, and finds the vins and addresses
\* rows by the ids in b's transactions rows.
ToSide(ts, b) ==
    /\ db' = [t \in Tables |-> IF t \in ts /\ db[t][b] # "none" THEN [db[t] EXCEPT ![b] = "side"] ELSE db[t]]
    /\ shared' = [t \in SharedTables |-> [x \in Txs |->
                     IF t \in ts /\ b \in ids[x] /\ shared[t][x].flag # "none"
                     THEN [shared[t][x] EXCEPT !.flag = "side"] ELSE shared[t][x]]]

\* The is_valid flags of b's vins rows, found by transaction hash and block
\* time, or of its addresses rows, found by id, are unset.
SetInvalid(t, b) ==
    /\ invalid' = [invalid EXCEPT ![t] = @ \cup {b}]
    /\ shared' = [s \in SharedTables |-> [x \in Txs |->
                     IF s = t /\ (IF s = "rvins" THEN shared[s][x].block = b ELSE b \in ids[x])
                     THEN [shared[s][x] EXCEPT !.valid = FALSE] ELSE shared[s][x]]]

\* Another block has taken over the vins rows of one of b's transactions.
TakenOver(b) ==
    \E t \in {"rvins", "svins"} : \E x \in Mined(t, b) : shared[t][x].block # b

\* Blocks of the chain of the tip that mine x, of those the last.
LastMiner(t, x, tip) ==
    {b \in Blocks : /\ IsAncestor(b, tip) /\ x \in Mined(t, b)
                    /\ \A c \in Blocks : IsAncestor(c, tip) /\ x \in Mined(t, c) => Height(c) <= Height(b)}

Init ==
    /\ db = [t \in Tables |-> [b \in Blocks |-> IF IsAncestor(b, InitTip) THEN "main" ELSE "none"]]
    /\ invalid = [t \in ValidTables |-> {b \in Blocks : \E c \in Disapproving \ {Genesis} :
                                                           IsAncestor(c, InitTip) /\ Parent(c) = b}]
    /\ shared = [t \in SharedTables |-> [x \in Txs |->
                    IF LastMiner(t, x, InitTip) = {} THEN NoRow
                    ELSE LET b == CHOOSE d \in LastMiner(t, x, InitTip) : TRUE
                         IN [block |-> b, flag |-> "main", valid |-> t \in ValidTables => b \notin invalid[t]]]]
    /\ ids = [x \in Txs |-> {b \in Blocks : IsAncestor(b, InitTip) /\ x \in RegularTxs[b] \cup StakeTxs[b]}]
    /\ next = [b \in Blocks |-> IF IsAncestor(b, InitTip) /\ b # InitTip
                                THEN BlockAt(Chain[InitTip], Height(b) + 1) ELSE NoBlock]
    /\ stats = [h \in 0 .. MaxHeight |-> IF h <= Height(InitTip) THEN BlockAt(Chain[InitTip], h) ELSE NoBlock]
    /\ mined = [m \in Miners |-> Cardinality({b \in Blocks : IsAncestor(b, InitTip) /\ Miner[b] = m})]
    /\ meta = InitTip
    /\ pc = "down" /\ mode = "sync"
    /\ best = NoBlock /\ lastBlock = {} /\ cur = NoBlock /\ up = NoBlock
    /\ reg = 0 /\ stk = 0 /\ k = 0 /\ floor = 0 /\ target = NoBlock /\ root = NoBlock
    /\ prev = NoBlock /\ node = InitTip
    /\ crashes = 0 /\ fails = 0

-----------------------------------------------------------------------------
(* StoreBlock. *)

StartStore(b, caller) ==
    /\ pc' = "trees" /\ mode' = caller /\ cur' = b /\ reg' = 0 /\ stk' = 0
    /\ UNCHANGED <<tables, memory, up, k, floor, target, root, node, bounds>>

\* What the caller does when StoreBlock returns: importBlocks goes on to the
\* next height or the process exits, switchToSideChain goes on to the next
\* block or gives up, a block handler is done.
Return(ok) ==
    pc' = CASE mode = "sync" -> IF ok THEN "sync" ELSE "exit"
            [] mode = "reorg" /\ ok -> "connect"
            [] OTHER -> "live"

StoreFails == Fail /\ Return(FALSE)

\* storeBlockTxnTree of the regular transactions.
RegularCommit ==
    /\ pc = "trees" /\ reg < Len(RegularSteps)
    /\ Upsert(RegularSteps[reg + 1], cur)
    /\ reg' = reg + 1
    /\ UNCHANGED <<next, stats, mined, meta, memory, pc, mode, cur, up, stk, k, floor, target, root, env, bounds>>

RegularFails ==
    /\ pc = "trees" /\ reg < Len(RegularSteps)
    /\ Fail /\ reg' = Failed
    /\ UNCHANGED <<tables, memory, pc, mode, cur, up, stk, k, floor, target, root, env, crashes>>

\* storeBlockTxnTree of the stake transactions.
StakeCommit ==
    /\ pc = "trees" /\ stk < Len(StakeSteps)
    /\ Upsert(StakeSteps[stk + 1], cur)
    /\ stk' = stk + 1
    /\ UNCHANGED <<next, stats, mined, meta, memory, pc, mode, cur, up, reg, k, floor, target, root, env, bounds>>

StakeFails ==
    /\ pc = "trees" /\ stk < Len(StakeSteps)
    /\ Fail /\ stk' = Failed
    /\ UNCHANGED <<tables, memory, pc, mode, cur, up, reg, k, floor, target, root, env, crashes>>

\* Mutant: the block is inserted when the regular tree is stored.
TreesRegularOnly ==
    /\ pc = "trees" /\ reg >= Len(RegularSteps)
    /\ IF reg = Failed THEN Return(FALSE) ELSE pc' = "block"
    /\ UNCHANGED <<tables, memory, work, env, bounds>>

\* Both results have been received.
TreesDone ==
    /\ pc = "trees" /\ reg >= Len(RegularSteps) /\ stk >= Len(StakeSteps)
    /\ IF Failed \in {reg, stk} THEN Return(FALSE) ELSE pc' = "block"
    /\ UNCHANGED <<tables, memory, work, env, bounds>>

\* insertBlock.
InsertBlock ==
    /\ pc = "block"
    /\ \/ /\ Upsert({"blocks"}, cur)
          /\ lastBlock' = lastBlock \cup {cur}
          /\ pc' = "miners"
          /\ UNCHANGED <<mode, fails>>
       \/ StoreFails /\ UNCHANGED <<db, invalid, shared, ids, lastBlock, mode>>
    /\ UNCHANGED <<next, stats, mined, meta, best, cur, up, reg, stk, k, floor, target, root, env, crashes>>

\* upsertMiner; its failure is only logged.
UpsertMiner ==
    /\ pc = "miners" /\ pc' = "chain"
    /\ \/ mined' = [mined EXCEPT ![Miner[cur]] = @ + 1] /\ UNCHANGED fails
       \/ Fail /\ UNCHANGED mined
    /\ UNCHANGED <<db, invalid, shared, ids, next, stats, meta, memory, work, env, crashes>>

\* insertBlockPrevNext: nothing happens to a row that there is.
InsertBlockPrevNext ==
    /\ pc = "chain"
    /\ \/ /\ db' = [db EXCEPT !["chain"][cur] = "main"]
          /\ next' = IF db["chain"][cur] = "none" THEN [next EXCEPT ![cur] = NoBlock] ELSE next
          /\ pc' = "last" /\ UNCHANGED fails
       \/ StoreFails /\ UNCHANGED <<db, next>>
    /\ UNCHANGED <<invalid, shared, ids, stats, mined, meta, memory, work, env, crashes>>

\* updateLastBlock: the parent's next hash.  A parent that is neither cached
\* nor in block_chain is ErrNoRows, which StoreBlock tolerates; one that is
\* cached and not in block_chain is an error.
UpdateBlockNext ==
    /\ pc = "last" /\ k' = 1
    /\ LET p == Parent(cur)
       IN \/ /\ db["chain"][p] # "none"
             /\ next' = [next EXCEPT ![p] = cur]
             /\ pc' = IF cur \in Disapproving THEN "invalid" ELSE "stats"
             /\ UNCHANGED fails
          \/ /\ db["chain"][p] = "none" /\ p \notin lastBlock
             /\ pc' = "stats" /\ UNCHANGED <<next, fails>>
          \/ /\ db["chain"][p] = "none" /\ p \in lastBlock
             /\ Return(FALSE) /\ UNCHANGED <<next, fails>>
          \/ StoreFails /\ UNCHANGED next
    /\ UNCHANGED <<db, invalid, shared, ids, stats, mined, meta, memory, mode, cur, up, reg, stk, floor, target, root,
                   env, crashes>>

\* Mutant: the transactions of the disapproved block stay valid.
InvalidateBlockOnly ==
    /\ pc = "invalid" /\ pc' = "stats" /\ k' = 1
    /\ SetInvalid("blocks", Parent(cur))
    /\ UNCHANGED <<db, ids, next, stats, mined, meta, memory, mode, cur, up, reg, stk, floor, target, root,
                   env, bounds>>

\* updateLastBlock: the is_valid flags of a disapproved parent.  updateLastVins
\* fails at a transaction of which it finds no row.
Invalidate ==
    /\ pc = "invalid"
    /\ LET t == InvalidSteps[k]
           p == Parent(cur)
       IN \/ /\ t = "rvins" => ~TakenOver(p)
             /\ SetInvalid(t, p)
             /\ k' = k + 1
             /\ pc' = IF k = Len(InvalidSteps) THEN "stats" ELSE pc
             /\ UNCHANGED fails
          \/ /\ t = "rvins" /\ TakenOver(p)
             /\ SetInvalid(t, p) \/ UNCHANGED <<invalid, shared>>
             /\ FailOfItself /\ Return(FALSE) /\ UNCHANGED k
          \/ StoreFails /\ UNCHANGED <<invalid, shared, k>>
    /\ UNCHANGED <<db, ids, next, stats, mined, meta, memory, mode, cur, up, reg, stk, floor, target, root,
                   env, crashes>>

\* The best block in memory, then insertBlockStats.
InsertBlockStats ==
    /\ pc = "stats" /\ best' = cur
    /\ \/ /\ stats' = [stats EXCEPT ![Height(cur)] = cur]
          /\ pc' = "meta" /\ UNCHANGED fails
       \/ StoreFails /\ UNCHANGED stats
    /\ UNCHANGED <<db, invalid, shared, ids, next, mined, meta, lastBlock, work, env, crashes>>

\* setDBBestBlock, the last write of StoreBlock.
SetDBBestBlock ==
    /\ pc = "meta"
    /\ \/ meta' = cur /\ Return(TRUE) /\ UNCHANGED fails
       \/ StoreFails /\ UNCHANGED meta
    /\ UNCHANGED <<db, invalid, shared, ids, next, stats, mined, memory, work, env, crashes>>

Storing ==
    \/ RegularCommit \/ RegularFails \/ StakeCommit \/ StakeFails \/ TreesDone
    \/ InsertBlock \/ UpsertMiner \/ InsertBlockPrevNext \/ UpdateBlockNext \/ Invalidate
    \/ InsertBlockStats \/ SetDBBestBlock

-----------------------------------------------------------------------------
(* Blocks and reorganizations that the notifier announces. *)

NodeMoves(b) ==
    /\ Height(b) > Height(node)
    /\ node' = b
    /\ UNCHANGED <<tables, memory, pc, work, prev, bounds>>

\* The block data collector hands the next block to Store.
NewBlock(b) ==
    /\ pc = "live" /\ IsAncestor(b, node) /\ b # Genesis /\ Parent(b) = prev
    /\ prev' = b
    /\ StartStore(b, "live")

\* StoreBlock finds no pool info of the block.
NewBlockRejected(b) ==
    /\ pc = "live" /\ IsAncestor(b, node) /\ b # Genesis /\ Parent(b) = prev
    /\ prev' = b /\ Fail
    /\ UNCHANGED <<tables, memory, pc, work, node, crashes>>

\* ReorgHandler: switchToSideChain begins with TipToSideChain.
Reorg(c) ==
    /\ pc = "live" /\ ~IsAncestor(prev, node) /\ CommonAncestor(c, prev, node)
    /\ prev' = node /\ target' = node /\ root' = c
    /\ mode' = "reorg" /\ cur' = best /\ k' = 1
    /\ pc' = IF best = c THEN "connect" ELSE "side"
    /\ UNCHANGED <<tables, memory, up, reg, stk, floor, node, bounds>>

\* Mutant: the addresses rows keep their flag.
SideUpdateNoAddresses ==
    /\ pc = "side" /\ cur # NoBlock /\ k <= Len(SideSteps)
    /\ IF k = 4 THEN UNCHANGED <<db, shared>> ELSE ToSide(SideSteps[k], cur)
    /\ up' = IF k > 1 THEN up ELSE IF db["blocks"][cur] = "none" \/ cur = Genesis THEN NoBlock ELSE Parent(cur)
    /\ k' = k + 1 /\ UNCHANGED fails
    /\ UNCHANGED <<invalid, ids, next, stats, mined, meta, memory, pc, mode, cur, reg, stk, floor, target, root,
                   env, crashes>>

\* TipToSideChain, one table after the other.  Errors are only logged: without
\* the blocks row there is no previous hash, and without the transactions' vins
\* there are no rows to update in the addresses table.
SideUpdate ==
    /\ pc = "side" /\ cur # NoBlock /\ k <= Len(SideSteps)
    /\ \/ /\ ToSide(SideSteps[k], cur)
          /\ up' = IF k > 1 THEN up ELSE IF db["blocks"][cur] = "none" \/ cur = Genesis THEN NoBlock ELSE Parent(cur)
          /\ k' = k + 1 /\ UNCHANGED fails
       \/ /\ Fail /\ UNCHANGED <<db, shared>>
          /\ up' = IF k > 1 THEN up ELSE NoBlock
          /\ \/ k' = k + 1
             \/ k = 3 /\ k' = 5
    /\ UNCHANGED <<invalid, ids, next, stats, mined, meta, memory, pc, mode, cur, reg, stk, floor, target, root,
                   env, crashes>>

\* Mutant: the miner of the previous block is counted down.
SideNextOfParent ==
    /\ pc = "side" /\ cur # NoBlock /\ k > Len(SideSteps)
    /\ mined' = [mined EXCEPT ![Miner[up]] = IF @ > 0 THEN @ - 1 ELSE 0]
    /\ cur' = up /\ best' = up /\ k' = 1 /\ UNCHANGED fails
    /\ pc' = IF up = root THEN "connect" ELSE pc
    /\ UNCHANGED <<db, invalid, shared, ids, next, stats, meta, lastBlock, mode, up, reg, stk, floor, target, root,
                   env, crashes>>

\* Mutant: the tip hash is not replaced by the previous hash.
SideNextSame ==
    /\ pc = "side" /\ cur # NoBlock /\ k > Len(SideSteps)
    /\ mined' = [mined EXCEPT ![Miner[cur]] = IF @ > 0 THEN @ - 1 ELSE 0]
    /\ best' = up /\ k' = 1 /\ UNCHANGED <<cur, pc, fails>>
    /\ UNCHANGED <<db, invalid, shared, ids, next, stats, meta, lastBlock, mode, up, reg, stk, floor, target, root,
                   env, crashes>>

\* RevertOrphanMinerUpdate, then on to the previous block.
SideNext ==
    /\ pc = "side" /\ cur # NoBlock /\ k > Len(SideSteps)
    /\ LET m == Miner[cur]
       IN \/ /\ db["blocks"][cur] # "none"
             /\ mined' = [mined EXCEPT ![m] = IF @ > 0 THEN @ - 1 ELSE 0]
             /\ UNCHANGED fails
          \/ db["blocks"][cur] = "none" /\ UNCHANGED <<mined, fails>>
          \/ Fail /\ UNCHANGED mined
    /\ cur' = up /\ best' = up /\ k' = 1
    /\ pc' = IF up = root THEN "connect" ELSE pc
    /\ UNCHANGED <<db, invalid, shared, ids, next, stats, meta, lastBlock, mode, up, reg, stk, floor, target, root,
                   env, crashes>>

\* switchToSideChain: the next block of NewChain.
Connect(b) ==
    /\ pc = "connect" /\ cur # target
    /\ IsAncestor(b, target) /\ b # Genesis /\ Parent(b) = cur
    /\ StartStore(b, "reorg") /\ UNCHANGED prev

\* A block of NewChain is not available, or has no pool info.
ConnectRejected ==
    /\ pc = "connect" /\ cur # target /\ Fail /\ pc' = "live"
    /\ UNCHANGED <<tables, memory, work, env, crashes>>

Connected ==
    /\ pc = "connect" /\ cur = target /\ pc' = "live"
    /\ UNCHANGED <<tables, memory, work, env, bounds>>

Switching ==
    \/ SideUpdate \/ SideNext \/ ConnectRejected \/ Connected
    \/ \E b \in Blocks : Connect(b)

-----------------------------------------------------------------------------
(* Starting. *)

\* NewChainDB reads the best blocks of the meta and blocks tables.
Open ==
    /\ pc = "down" /\ pc' = "check"
    /\ floor' = Height(meta)
    /\ UNCHANGED <<tables, memory, mode, cur, up, reg, stk, k, target, root, env, bounds>>

\* deleteBlockData of the best block, one SQL transaction.  The stats row goes
\* with the blocks row; the parent's next hash is reset.  The vins and addresses
\* rows go whose ids are in b's transactions rows, whichever block took them
\* over.  is_valid of the parent and the miners stay.
DeleteBlockData(b, then) ==
    /\ b # Genesis   \* bound: the root of the model's chain is never purged
    /\ db' = [t \in Tables |-> [db[t] EXCEPT ![b] = "none"]]
    /\ invalid' = [t \in ValidTables |-> invalid[t] \ {b}]
    /\ shared' = [t \in SharedTables |-> [x \in Txs |-> IF b \in ids[x] THEN NoRow ELSE shared[t][x]]]
    /\ ids' = [x \in Txs |-> IF b \in ids[x] THEN {} ELSE ids[x]]
    /\ next' = [c \in Blocks |->
                  IF (IF db["chain"][b] # "none" THEN c \in {b, Parent(b)} ELSE next[c] = b)
                  THEN NoBlock ELSE next[c]]
    /\ stats' = [h \in 0 .. MaxHeight |-> IF stats[h] = b THEN NoBlock ELSE stats[h]]
    /\ pc' = then
    /\ UNCHANGED <<mined, meta, memory, work, env, bounds>>

\* The meta table is ahead of the blocks table: purge a block anyway.
MetaAhead ==
    /\ pc = "check" /\ floor > Height(TableBest)
    /\ DeleteBlockData(TableBest, "checkMeta")

MetaNotAhead ==
    /\ pc = "check" /\ floor <= Height(TableBest)
    /\ pc' = "purge"
    /\ UNCHANGED <<tables, memory, work, env, bounds>>

\* Mutant: only heights are compared.
PurgeNeededByHeight == floor < Height(TableBest)

PurgeNeeded == meta # TableBest \/ floor < Height(TableBest)

Purge ==
    /\ pc = "purge" /\ PurgeNeeded
    /\ DeleteBlockData(TableBest, "purgeMeta")

\* setDBBestBlock at the end of deleteBestBlock.
SetMeta ==
    /\ pc \in {"checkMeta", "purgeMeta", "orphanMeta"}
    /\ meta' = TableBest
    /\ floor' = IF pc = "checkMeta" THEN Height(TableBest) ELSE floor
    /\ pc' = IF pc = "orphanMeta" THEN "orphan" ELSE "purge"
    /\ UNCHANGED <<db, invalid, shared, ids, next, stats, mined, memory, mode, cur, up, reg, stk, k, target, root, env, bounds>>

\* Mutant: the length of the orphaned tip is not looked for.
OpenedNoOrphan(c) ==
    /\ pc = "purge" /\ ~PurgeNeeded /\ c = meta
    /\ best' = TableBest /\ lastBlock' = {} /\ floor' = Height(meta) /\ pc' = "orphan"
    /\ UNCHANGED <<tables, mode, cur, up, reg, stk, k, target, root, env, bounds>>

\* The ChainDB is created; OrphanedTipLength looks for the last main chain
\* block c that the node has too, and fails at a height without a block.
Opened(c) ==
    /\ pc = "purge" /\ ~PurgeNeeded /\ CommonAncestor(c, meta, node)
    /\ best' = TableBest /\ lastBlock' = {}
    /\ floor' = Height(c)
    /\ pc' = IF \A h \in Height(c) .. Height(meta) : \E b \in MainBlocks : Height(b) = h THEN "orphan" ELSE "exit"
    /\ UNCHANGED <<tables, mode, cur, up, reg, stk, k, target, root, env, bounds>>

\* PurgeBestBlocks.
PurgeOrphan ==
    /\ pc = "orphan" /\ Height(TableBest) > floor
    /\ DeleteBlockData(TableBest, "orphanMeta")

StartSync ==
    /\ pc = "orphan" /\ Height(TableBest) <= floor
    /\ pc' = "sync"
    /\ UNCHANGED <<tables, memory, work, env, bounds>>

\* Mutant: the stake database takes any block of the next height.
SyncBlockOfHeight ==
    /\ pc = "sync" /\ Height(meta) < Height(node)
    /\ StartStore(Chain[node][Height(meta) + 1], "sync") /\ UNCHANGED prev

\* importBlocks stores the node's block of the next height.  One that is not a
\* child of the last block, after the node reorganized, is refused by the stake
\* database, and the process exits.
SyncBlock ==
    /\ pc = "sync" /\ Height(meta) < Height(node)
    /\ LET b == Chain[node][Height(meta) + 1]
       IN IF Parent(b) = meta THEN StartStore(b, "sync") /\ UNCHANGED prev
          ELSE pc' = "exit" /\ UNCHANGED <<tables, memory, work, env, bounds>>

\* The notifier goes on from the best block of the synchronized database.
Synced ==
    /\ pc = "sync" /\ Height(meta) >= Height(node)
    /\ prev' = best /\ pc' = "live"
    /\ UNCHANGED <<tables, memory, work, node, bounds>>

Stop ==
    /\ pc' = "down" /\ mode' = "sync"
    /\ best' = NoBlock /\ lastBlock' = {} /\ cur' = NoBlock /\ up' = NoBlock
    /\ reg' = 0 /\ stk' = 0 /\ k' = 0 /\ floor' = 0 /\ target' = NoBlock /\ root' = NoBlock
    /\ prev' = NoBlock
    /\ UNCHANGED <<tables, node, fails>>

Exit == pc = "exit" /\ Stop /\ UNCHANGED crashes

Crash == pc # "down" /\ crashes < MaxCrashes /\ crashes' = crashes + 1 /\ Stop

Starting ==
    \/ Open \/ MetaAhead \/ MetaNotAhead \/ Purge \/ SetMeta
    \/ \E c \in Blocks : Opened(c)
    \/ PurgeOrphan \/ StartSync \/ SyncBlock \/ Synced \/ Exit

Next ==
    \/ Storing \/ Switching \/ Starting
    \/ \E b \in Blocks : NodeMoves(b) \/ NewBlock(b) \/ NewBlockRejected(b) \/ Reorg(b)
    \/ Crash

\* The process goes on with what it has begun, and is started again.
Spec == Init /\ [][Next]_vars /\ WF_vars(Storing \/ Switching \/ Starting)

-----------------------------------------------------------------------------
TypeOK ==
    /\ db \in [Tables -> [Blocks -> {"none", "main", "side"}]]
    /\ invalid \in [ValidTables -> SUBSET Blocks]
    /\ next \in [Blocks -> Blocks \cup {NoBlock}]
    /\ stats \in [0 .. MaxHeight -> Blocks \cup {NoBlock}]
    /\ mined \in [Miners -> Nat]
    /\ meta \in Blocks
    /\ best \in Blocks \cup {NoBlock} /\ lastBlock \subseteq Blocks
    /\ pc \in {"down", "exit", "check", "checkMeta", "purge", "purgeMeta", "orphan", "orphanMeta", "sync",
               "live", "trees", "block", "miners", "chain", "last", "invalid", "stats", "meta", "side",
               "connect"}
    /\ mode \in {"sync", "live", "reorg"}
    /\ cur \in Blocks \cup {NoBlock} /\ up \in Blocks \cup {NoBlock}
    /\ reg \in (0 .. 2) \cup {Failed} /\ stk \in (0 .. 4) \cup {Failed} /\ k \in 0 .. 7
    /\ floor \in 0 .. MaxHeight
    /\ target \in Blocks \cup {NoBlock} /\ root \in Blocks \cup {NoBlock}
    /\ prev \in Blocks \cup {NoBlock} /\ node \in Blocks
    /\ crashes \in 0 .. MaxCrashes /\ fails \in 0 .. MaxFails + 1

RowsTypeOK ==
    /\ shared \in [SharedTables -> [Txs -> [block : Blocks \cup {NoBlock}, flag : {"none", "main", "side"},
                                            valid : BOOLEAN]]]
    /\ ids \in [Txs -> SUBSET Blocks]

\* b is stored completely, and its parent leads to it.
Full(b) == (\A t \in Tables : db[t][b] = "main") /\ stats[Height(b)] = b
Linked(b) == b # Genesis => next[Parent(b)] = b

\* As long as no statement failed: whenever no block is being processed, the
\* meta table, the blocks table and the best block in memory agree, the main
\* chain of the blocks table is the chain of that block, and every block of it
\* is completely stored and linked.  Whatever a crash interrupted, NewChainDB,
\* the orphaned tip check and SyncChainDB have repaired.
ConsistentAtRest ==
    pc = "live" /\ fails = 0 =>
        /\ best \in Blocks /\ meta = best
        /\ MainBlocks = {b \in Blocks : IsAncestor(b, best)}
        /\ \A b \in MainBlocks : Full(b) /\ Linked(b)

\* After NewChainDB the meta table and the blocks table have the same best
\* block until a sync is over, whatever was interrupted or failed before.
TablesAgreeAfterOpen == pc \in {"orphan", "sync"} => meta = TableBest

\* None of b's rows in t is valid: not those that only b writes, nor those of
\* transactions that other blocks mine too, as long as no other block took them
\* over (and, in the addresses table, b's transactions rows have their ids).
NoneValid(t, b) ==
    /\ b \in invalid[t]
    /\ t \in SharedTables =>
          \A x \in Txs : shared[t][x].block = b /\ (t = "raddrs" => b \in ids[x]) => ~shared[t][x].valid

\* A main chain block that its successor disapproves is flagged as invalid in
\* every table that updateLastBlock changes, also when the successor was stored
\* in several attempts, and also the rows of its transactions that were or will
\* be mined by other blocks, until one of those makes them its own.
DisapprovedIsInvalid ==
    pc = "live" /\ fails = 0 =>
        \A c \in Disapproving \ {Genesis} : IsAncestor(c, best) => \A t \in ValidTables : NoneValid(t, Parent(c))

MinedOnMain(m) == Cardinality({b \in Blocks : IsAncestor(b, best) /\ Miner[b] = m})

\* The miners table never counts fewer blocks than a miner has on the main
\* chain, although reorganizations count down.
MinersNotUndercounted == pc = "live" /\ fails = 0 => \A m \in Miners : mined[m] >= MinedOnMain(m)

\* Rows of t are flagged as main chain and are b's: b alone writes them, or b
\* wrote them last and b's transactions rows have their ids.
HasMainRows(t, b) ==
    \/ db[t][b] = "main"
    \/ /\ t \in SharedTables
       /\ \E x \in Txs : shared[t][x].flag = "main" /\ shared[t][x].block = b /\ b \in ids[x]

\* As long as the process did not end and no statement failed, every row that
\* is flagged as main chain is of a main chain block: reorganizations re-flag
\* all that StoreBlock wrote or took over, in every table.
MainRowsOnMainChain ==
    pc = "live" /\ crashes = 0 /\ fails = 0 =>
        \A t \in DataTables, b \in Blocks : HasMainRows(t, b) => IsAncestor(b, best)

\* A main chain block is flagged as invalid only if its successor on the main
\* chain disapproves it.
ValidIsApproved ==
    pc = "live" =>
        \A b \in invalid["blocks"] : IsAncestor(b, best) =>
            \E c \in Disapproving \ {Genesis} : IsAncestor(c, best) /\ Parent(c) = b

\* The best block of the blocks table is that of an abstract chain follower: it
\* moves to a child or to the parent, never across branches.
Follower == INSTANCE ChainFollower WITH tip <- TableBest
FollowsChain == Follower!Spec

\* A start ends with a synchronized database that waits for blocks.
StartsUp == pc = "down" ~> pc = "live"

\* TipToSideChain comes to an end: switchToSideChain goes on to connect blocks,
\* or reports that it "failed to flag blocks as side chain".
ReorgEnds == pc = "side" ~> pc \in {"live", "down"}
=============================================================================
