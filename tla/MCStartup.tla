----------------------------- MODULE MCStartup -----------------------------
(***************************************************************************)
(* The initial sync, and what must happen in the end, for TLC: Sync, and    *)
(* ChainDB on the blocks of MCBlockTree.  Each behavior is one of the two,   *)
(* named by `part', with the variables of the other at rest.                *)
(***************************************************************************)
EXTENDS Sync, MCBlockTree

CONSTANTS Exits, Disapproving

VARIABLES
    part,
    tables, invalid, shared, ids, next, stats, mined, meta, best, lastBlock, step, mode, cur,
    up, reg, stk, k, floor, target, root, prev, nodeTip, exits, fails

chainVars ==
    <<tables, invalid, shared, ids, next, stats, mined, meta, best, lastBlock, step, mode, cur,
      up, reg, stk, k, floor, target, root, prev, nodeTip, exits, fails>>

ChainDatabase ==
    INSTANCE ChainDB WITH
        Blocks <- MCBlocks, Genesis <- "g", NoBlock <- "none", Chain <- MCChain,
        MaxHeight <- 5, Miners <- MCMiners, Miner <- MCMiner, InitTip <- "r2",
        Txs <- MCTxs, RegularTxs <- MCMinedAbove, StakeTxs <- MCStakeTxs,
        MaxCrashes <- Exits, MaxFails <- 0,
        db <- tables, pc <- step, node <- nodeTip, crashes <- exits

ChainAtRest ==
    /\ tables = 0 /\ invalid = 0 /\ shared = 0 /\ ids = 0 /\ next = 0 /\ stats = 0 /\ mined = 0 /\ meta = 0
    /\ best = 0 /\ lastBlock = 0 /\ step = "none" /\ mode = 0 /\ cur = 0 /\ up = 0
    /\ reg = 0 /\ stk = 0 /\ k = 0 /\ floor = 0 /\ target = 0 /\ root = 0
    /\ prev = 0 /\ nodeTip = 0 /\ exits = 0 /\ fails = 0

(* A program that is synchronized and listens. *)
SyncAtRest ==
    /\ node = 0 /\ db = UpgradedDB /\ pc = "live" /\ run = Stopped /\ crashes = 0

StartupInit ==
    \/ part = "chain" /\ ChainDatabase!Init /\ SyncAtRest
    \/ part = "sync" /\ Init /\ ChainAtRest

StartupNext ==
    \/ part = "chain" /\ ChainDatabase!Next /\ UNCHANGED <<part, vars>>
    \/ part = "sync" /\ Next /\ UNCHANGED <<part, chainVars>>

(* The fairness of ChainDB and of Sync: the program goes on with what it has   *)
(* begun, and is started again.                                                *)
StartupSpec ==
    /\ StartupInit /\ [][StartupNext]_<<part, vars, chainVars>>
    /\ WF_chainVars(/\ part = "chain"
                    /\ ChainDatabase!Storing \/ ChainDatabase!Switching \/ ChainDatabase!Starting)
    /\ WF_vars(part = "sync" /\ Work)
-----------------------------------------------------------------------------

\* A start of ChainDB ends with a synchronized database that waits for blocks,
\* wherever the process ended before and however the node goes on meanwhile.
StartsUp == ChainDatabase!StartsUp

\* TipToSideChain comes to an end: switchToSideChain goes on to connect blocks,
\* or reports that it "failed to flag blocks as side chain".
ReorgEnds == ChainDatabase!ReorgEnds
=============================================================================
