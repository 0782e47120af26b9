-------------------------------- MODULE Sync --------------------------------
(***************************************************************************)
(* The initial synchronization of the database, from the start of the      *)
(* program to the moment it listens to the node, through crashes and        *)
(* restarts: main.go decides whether anything must be rebuilt, SyncChainDB  *)
(* (db/dcrpg/sync.go) drops the indexes, imports blocks with plain INSERTs, *)
(* removes duplicate rows, builds the indexes, sets the spending            *)
(* information of all addresses at once, records the end of the initial     *)
(* block download in meta.ibd_complete and catches up with the node.        *)
(*                                                                         *)
(* `db' is what survives a crash.  The chain only grows here: side chains   *)
(* are the subject of ChainDB, the stake database of StakeDB.               *)
(***************************************************************************)
EXTENDS Integers, Sequences

CONSTANTS
    MaxHeight,   \* the last block the node ever has
    MaxCrashes   \* how often the program stops early or is run to drop indexes

VARIABLES
    node,     \* height of the node's best block
    db,       \* the database, see DatabaseType
    pc,       \* the stage the program is in
    run,      \* the variables of main and SyncChainDB, see RunType
    crashes

vars == <<node, db, pc, run, crashes>>

(* The tables whose rows a block adds, and the unique index of each, under one *)
(* name.  "transactions" stands for vins, vouts, transactions and agenda_votes.*)
Tables == {"transactions", "tickets", "votes", "addresses", "blocks"}

(* IndexDescriptions: the indexes whose absence a start notices. *)
IndexDescriptions == Tables \union {"matching", "miners"}

DeindexAllOrder ==
    <<"blocks", "transactions", "matching", "addresses", "votes", "tickets">>

IndexAllOrder == <<"blocks", "transactions", "votes", "addresses">>

(* CREATE INDEX without IF NOT EXISTS fails when the index is there. *)
NotIfNotExists == {"blocks", "transactions", "votes"}

(* deleteDuplicates knows these tables only. *)
DuplicatesDeleted == {"transactions"}

(* Two rows of one block's transaction are equal for these unique indexes; the *)
(* one on addresses holds the row numbers of vins and vouts, which differ.     *)
Conflicting == {"transactions", "tickets", "votes"}

Heights == -1 .. MaxHeight

DatabaseType ==
    [height : Heights,                       \* meta.best_block_height
     rows : SUBSET Tables,                   \* tables with rows of block height + 1
     dup : SUBSET (Tables \X Heights),       \* rows stored twice
     indexes : SUBSET IndexDescriptions,
     unmatched : SUBSET (Heights \X {"import", "catchup"}),
                 \* blocks whose spends are not in addresses.matching_tx_hash
     ibd : BOOLEAN]                          \* meta.ibd_complete

RunType ==
    [newIndexes : BOOLEAN, updateAll : BOOLEAN, reindexing : BOOLEAN,
     dupChecks : BOOLEAN, second : BOOLEAN, drop : BOOLEAN,
     ibdComplete : BOOLEAN,
     nodeHeight : Heights, endHeight : Heights, ib : 0 .. MaxHeight + 1,
     phase : {"import", "catchup"},
     written : SUBSET Tables,                \* by the current call of StoreBlock
     todo : Seq(IndexDescriptions)]          \* indexes still to drop or create

Stages == {"down", "open", "deindex", "flag", "import", "store", "dedup",
           "index", "spend", "match", "rematch", "finish", "synced", "live"}

Stopped ==
    [newIndexes |-> FALSE, updateAll |-> FALSE, reindexing |-> FALSE,
     dupChecks |-> TRUE, second |-> FALSE, drop |-> FALSE, ibdComplete |-> FALSE,
     nodeHeight |-> -1, endHeight |-> -1, ib |-> 0, phase |-> "import",
     written |-> {}, todo |-> <<>>]

(* A new database, or one that an earlier version filled and the upgrade to    *)
(* schema 1, which creates the miners table and its index, brought up to date. *)
FreshDB ==
    [height |-> -1, rows |-> {}, dup |-> {}, indexes |-> {}, unmatched |-> {},
     ibd |-> FALSE]

UpgradedDB ==
    [FreshDB EXCEPT !.height = 0, !.indexes = IndexDescriptions, !.ibd = TRUE]

Init ==
    /\ node \in 0 .. MaxHeight
    /\ db \in {FreshDB, UpgradedDB}
    /\ pc = "down"
    /\ run = Stopped
    /\ crashes = 0

(* Blocks found meanwhile. *)
NodeBlock ==
    /\ node < MaxHeight
    /\ node' = node + 1
    /\ UNCHANGED <<db, pc, run, crashes>>

(* The program is killed, or a statement fails and main returns its error. *)
Crash ==
    /\ pc # "down"
    /\ crashes < MaxCrashes
    /\ crashes' = crashes + 1
    /\ pc' = "down"
    /\ run' = Stopped
    /\ UNCHANGED <<node, db>>

MissingIndexesUnnoticed == {}

MissingIndexes == IndexDescriptions \ db.indexes

(* NewChainDB deletes the rows of blocks above the recorded best block. *)
PurgeUnrecorded(d) ==
    IF "blocks" \in d.rows
    THEN [d EXCEPT !.rows = {},
                   !.dup = {r \in @ : r[2] <= d.height},
                   !.unmatched = {u \in @ : u[1] <= d.height}]
    ELSE d

(* main: open the database, then drop its indexes and quit if told to, else    *)
(* rebuild everything if any index is missing.                                 *)
Start(drop) ==
    /\ pc = "down"
    /\ drop => crashes < MaxCrashes
    /\ crashes' = IF drop THEN crashes + 1 ELSE crashes
    /\ db' = PurgeUnrecorded(db)
    /\ LET rebuild == ~drop /\ MissingIndexes # {} IN
       run' = [Stopped EXCEPT !.newIndexes = rebuild, !.updateAll = rebuild,
                              !.drop = drop,
                              !.todo = IF drop THEN DeindexAllOrder ELSE <<>>]
    /\ pc' = IF drop THEN "deindex" ELSE "open"
    /\ UNCHANGED node

(* SyncChainDB up to the removal of the indexes: what has to be done. *)
SyncChainDB ==
    /\ pc = "open"
    /\ LET reindexing == run.newIndexes \/ db.height = -1 \/ ~db.ibd IN
       /\ run' = [run EXCEPT
                    !.nodeHeight = node, !.reindexing = reindexing,
                    !.updateAll = @ \/ ~db.ibd, !.ibdComplete = db.ibd,
                    !.dupChecks = IF reindexing THEN @ ELSE TRUE,
                    !.ib = db.height + 1, !.phase = "import",
                    !.todo = IF reindexing THEN DeindexAllOrder ELSE <<>>]
       /\ pc' = IF reindexing THEN "deindex" ELSE "flag"
    /\ UNCHANGED <<node, db, crashes>>

DropIndexSparingVotes(d, i) ==
    IF i = "votes" THEN d ELSE [d EXCEPT !.indexes = @ \ {i}]

DropIndex(d, i) == [d EXCEPT !.indexes = @ \ {i}]

(* DeindexAll drops the indexes one by one; then duplicate checks are disabled,*)
(* or the program that was told to drop the indexes quits.                     *)
DeindexAll ==
    /\ pc = "deindex"
    /\ IF run.todo # <<>>
       THEN /\ db' = DropIndex(db, Head(run.todo))
            /\ run' = [run EXCEPT !.todo = Tail(@)]
            /\ pc' = pc
       ELSE /\ pc' = IF run.drop THEN "down" ELSE "flag"
            /\ run' = IF run.drop THEN Stopped ELSE [run EXCEPT !.dupChecks = FALSE]
            /\ UNCHANGED db
    /\ UNCHANGED <<node, crashes>>

(* setIBDComplete(false), if it was true and the tables will be rebuilt. *)
FlagIncomplete ==
    /\ pc = "flag"
    /\ db' = IF run.ibdComplete /\ (run.reindexing \/ run.updateAll)
             THEN [db EXCEPT !.ibd = FALSE]
             ELSE db
    /\ pc' = "import"
    /\ UNCHANGED <<node, run, crashes>>

(* Where the stages after the import of blocks begin. *)
AfterImport ==
    IF run.phase = "catchup" THEN "synced"
    ELSE IF run.reindexing THEN "dedup"
    ELSE IF run.updateAll THEN "spend" ELSE "finish"

(* importBlocks: the head of the loop. *)
ImportNext ==
    /\ pc = "import"
    /\ run' = IF run.ib <= run.nodeHeight
              THEN run
              ELSE [run EXCEPT !.endHeight = run.nodeHeight]
    /\ pc' = IF run.ib <= run.nodeHeight THEN "store" ELSE AfterImport
    /\ UNCHANGED <<node, db, crashes>>

(* The tables that have the block's rows before table t gets them: the two     *)
(* trees are stored concurrently, each its transactions first.                 *)
StoredBefore ==
    [transactions |-> {}, tickets |-> {"transactions"},
     votes |-> {"transactions", "tickets"}, addresses |-> {"transactions"},
     blocks |-> Tables \ {"blocks"}]

(* The rows of block h in table t: inserted unconditionally, or upserted. *)
InsertRows(d, t, h) ==
    [d EXCEPT !.rows = IF h > d.height THEN @ \union {t} ELSE @,
              !.dup = IF ~run.dupChecks /\ t \in d.rows
                      THEN @ \union {<<t, h>>} ELSE @,
              !.unmatched = IF t = "addresses" /\ h > d.height
                            THEN IF run.updateAll
                                 THEN @ \union {<<h, run.phase>>}
                                 ELSE {u \in @ : u[1] # h}
                            ELSE @]

(* StoreBlock: one more table gets the rows of block run.ib. *)
StoreTable(t) ==
    /\ pc = "store"
    /\ t \notin run.written
    /\ StoredBefore[t] \subseteq run.written
    /\ run.dupChecks => t \in db.indexes
    /\ db' = InsertRows(db, t, run.ib)
    /\ run' = [run EXCEPT !.written = @ \union {t}]
    /\ UNCHANGED <<node, pc, crashes>>

(* setDBBestBlock, and the end of the loop of importBlocks, which looks for    *)
(* new blocks when it has stored the last one it knew of.                      *)
SetDBBestBlock ==
    /\ pc = "store"
    /\ run.written = Tables
    /\ db' = IF run.ib > db.height
             THEN [db EXCEPT !.height = run.ib, !.rows = {}]
             ELSE db
    /\ run' = [run EXCEPT !.ib = @ + 1, !.written = {},
                          !.nodeHeight = IF run.ib = @ THEN node ELSE @]
    /\ pc' = "import"
    /\ UNCHANGED <<node, crashes>>

(* The indexes to create: all but the one on matching_tx_hash, which the batch *)
(* update of the addresses creates when it is due.                             *)
IndexOrder ==
    IndexAllOrder \o (IF run.updateAll THEN <<>> ELSE <<"matching">>) \o <<"tickets">>

DeleteDuplicates ==
    /\ pc = "dedup"
    /\ db' = [db EXCEPT !.dup = {r \in @ : r[1] \notin DuplicatesDeleted}]
    /\ run' = [run EXCEPT !.todo = IndexOrder]
    /\ pc' = "index"
    /\ UNCHANGED <<node, crashes>>

CannotCreate(i) ==
    \/ i \in NotIfNotExists \intersect db.indexes
    \/ i \in Conflicting /\ \E h \in Heights : <<i, h>> \in db.dup

(* IndexAll, IndexAddressTableOnMatchingTxHash and IndexTicketsTable. *)
CreateIndex ==
    /\ pc = "index"
    /\ run.todo # <<>>
    /\ ~CannotCreate(Head(run.todo))
    /\ db' = [db EXCEPT !.indexes = @ \union {Head(run.todo)}]
    /\ run' = [run EXCEPT !.todo = Tail(@)]
    /\ UNCHANGED <<node, pc, crashes>>

(* An index that cannot be created ends the program. *)
CreateIndexFails ==
    /\ pc = "index"
    /\ run.todo # <<>>
    /\ CannotCreate(Head(run.todo))
    /\ pc' = "down"
    /\ run' = Stopped
    /\ UNCHANGED <<node, db, crashes>>

Indexed ==
    /\ pc = "index"
    /\ run.todo = <<>>
    /\ pc' = IF run.updateAll THEN "spend" ELSE "finish"
    /\ UNCHANGED <<node, db, run, crashes>>

(* The batch update: drop the index on matching_tx_hash, set the column for    *)
(* every block, create the index again.                                        *)
SpendDropIndex ==
    /\ pc = "spend"
    /\ db' = DropIndex(db, "matching")
    /\ pc' = "match"
    /\ UNCHANGED <<node, run, crashes>>

UpdateSpendingInfoButLast ==
    /\ pc = "match"
    /\ db' = [db EXCEPT !.unmatched = {u \in @ : u[1] >= db.height}]
    /\ pc' = "rematch"
    /\ UNCHANGED <<node, run, crashes>>

UpdateSpendingInfoInAllAddresses ==
    /\ pc = "match"
    /\ db' = [db EXCEPT !.unmatched = {u \in @ : u[1] > db.height}]
    /\ pc' = "rematch"
    /\ UNCHANGED <<node, run, crashes>>

IndexAddressTableOnMatchingTxHash ==
    /\ pc = "rematch"
    /\ db' = [db EXCEPT !.indexes = @ \union {"matching"}]
    /\ pc' = "finish"
    /\ UNCHANGED <<node, run, crashes>>

(* setIBDComplete(true), duplicate checks on, and the import of the blocks     *)
(* found meanwhile, which begins with the last block stored.                   *)
SetIBDComplete ==
    /\ pc = "finish"
    /\ db' = [db EXCEPT !.ibd = TRUE]
    /\ run' = [run EXCEPT !.dupChecks = TRUE, !.nodeHeight = node,
                          !.ib = run.endHeight, !.phase = "catchup"]
    /\ pc' = IF node > run.endHeight THEN "import" ELSE "synced"
    /\ UNCHANGED <<node, crashes>>

(* main: one more SyncChainDB, without flags, if the node is ahead; then the   *)
(* program listens to the node.                                                *)
FinalCheck ==
    /\ pc = "synced"
    /\ IF ~run.second /\ node # db.height
       THEN /\ run' = [run EXCEPT !.second = TRUE, !.newIndexes = FALSE,
                                  !.updateAll = FALSE]
            /\ pc' = "open"
       ELSE pc' = "live" /\ UNCHANGED run
    /\ UNCHANGED <<node, db, crashes>>

Work ==
    \/ Start(FALSE) \/ SyncChainDB \/ DeindexAll \/ FlagIncomplete \/ ImportNext
    \/ \E t \in Tables : StoreTable(t)
    \/ SetDBBestBlock \/ DeleteDuplicates \/ CreateIndex \/ CreateIndexFails
    \/ Indexed \/ SpendDropIndex \/ UpdateSpendingInfoInAllAddresses
    \/ IndexAddressTableOnMatchingTxHash \/ SetIBDComplete \/ FinalCheck

Next == NodeBlock \/ Crash \/ Start(TRUE) \/ Work

(* The program runs on until it stops by itself, and is started again. *)
Spec == Init /\ [][Next]_vars /\ WF_vars(Work)
-----------------------------------------------------------------------------
(* An INSERT with ON CONFLICT fails if the unique index it names is missing:   *)
(* whenever blocks are stored with duplicate checks, and when the program      *)
(* listens to the node, every unique index is there, whatever was dropped and  *)
(* wherever the program stopped before.                                        *)
UpsertsHaveIndexes ==
    (pc = "store" /\ run.dupChecks) \/ pc = "live" => Tables \subseteq db.indexes

(* A start that finds ibd_complete and every index does not redo the batch     *)
(* update of the addresses: then every block imported for it has its spending  *)
(* information.  The blocks caught up with afterwards are not included, see    *)
(* the README.                                                                 *)
NothingLeftUndone ==
    db.ibd /\ MissingIndexes = {} =>
        \A u \in db.unmatched : u[2] = "catchup"

(* main.go: if any indexes are missing, "create them all after block sync".    *)
CreatesThemAll == pc = "live" => MissingIndexes = {}

OnlyDeletableDuplicates ==
    \A r \in db.dup : r[1] \in DuplicatesDeleted \/ r[1] \notin Conflicting

(* Wherever the program stops, and whatever it left half done, the next starts *)
(* get it to listen to the node in the end, unless a block was cut off after   *)
(* the rows of its tickets or votes were stored without duplicate checks.      *)
AlwaysRecovers == []OnlyDeletableDuplicates => <>[](pc = "live")
=============================================================================
