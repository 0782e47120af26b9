--------------------------- MODULE ChainDBProofs ----------------------------
(***************************************************************************)
(* What ChainDB guarantees for every tree of blocks, every node and any    *)
(* number of process exits.                                                *)
(*                                                                         *)
(* The inductive invariant says for every step of the program which block  *)
(* is the top of the main chain in the tables, that all blocks below it    *)
(* are stored completely, and whether the top block is.  As long as no     *)
(* statement fails, StoreBlock, announced blocks and reorganizations, the  *)
(* steps of a start and the end of the process preserve it.                *)
(*                                                                         *)
(* From it: as long as no statement fails, the database is consistent      *)
(* whenever no block is being processed, its best block follows the tree,  *)
(* disapproved blocks are flagged, no miner is undercounted, and rows of   *)
(* side chains are flagged as such.  Whatever fails, the meta table and    *)
(* the blocks table agree from the end of NewChainDB to the end of the     *)
(* sync.                                                                   *)
(***************************************************************************)
EXTENDS ChainDB, BlockTreeProofs

SafeSpec == Init /\ [][Next]_vars

\* Full and Linked of tables d, next hashes n and stats s.
Whole(b, d, n, s) ==
    /\ \A t \in Tables : d[t][b] = "main"
    /\ s[Height(b)] = b
    /\ b # Genesis => n[Parent(b)] = b

\* The main chain in the tables is that of w, and complete below w.
Below(w, d, n, s) ==
    \A b \in Blocks :
        /\ d["blocks"][b] = "main" <=> IsAncestor(b, w)
        /\ IsAncestor(b, w) /\ b # w => Whole(b, d, n, s)

Solid(w, d, n, s) == Below(w, d, n, s) /\ Whole(w, d, n, s)

Early == {"trees", "block"}
Late == {"miners", "chain", "last", "invalid", "stats", "meta"}
Halted == {"down", "exit", "check", "purge"}
Purged == {"checkMeta", "purgeMeta", "orphanMeta"}
Syncing == {"orphan", "sync"}

Stopped ==
    pc \in Halted =>
        \E w \in Blocks : Below(w, db, next, stats) /\ (meta = w => Solid(w, db, next, stats))

Deleted ==
    pc \in Purged =>
        \E w \in Blocks : Solid(w, db, next, stats) /\ (pc = "orphanMeta" => Height(w) < Height(node))

Opening ==
    pc \in Syncing => Solid(meta, db, next, stats) /\ (best = meta \/ Height(meta) < Height(node))

Resting == pc = "live" => Solid(meta, db, next, stats) /\ best = meta /\ prev = meta

\* The block that is stored, and what the caller relies on.
Stored ==
    pc \in Early \cup Late =>
        /\ cur \in Blocks \ {Genesis} /\ meta # cur /\ Height(cur) <= Height(node)
        /\ mode = "live" => prev = cur
        /\ mode = "reorg" => prev = target /\ target \in Blocks

StoredEarly ==
    pc \in Early =>
        /\ Solid(Parent(cur), db, next, stats)
        /\ reg \in 0 .. 2 /\ stk \in 0 .. 4
        /\ \A i \in 1 .. reg : \A t \in RegularSteps[i] : db[t][cur] = "main"
        /\ \A i \in 1 .. stk : \A t \in StakeSteps[i] : db[t][cur] = "main"
        /\ pc = "block" => reg = 2 /\ stk = 4

StoredLate ==
    pc \in Late =>
        /\ Below(cur, db, next, stats)
        /\ \A t \in DataTables : db[t][cur] = "main"
        /\ pc \notin {"miners", "chain"} => db["chain"][cur] = "main"
        /\ pc \in {"invalid", "stats", "meta"} => next[Parent(cur)] = cur
        /\ pc = "meta" => stats[Height(cur)] = cur /\ best = cur
        /\ pc = "invalid" => k \in 1 .. 4

Siding ==
    pc = "side" =>
        /\ cur \in Blocks /\ root \in Blocks /\ cur # root /\ IsAncestor(root, cur)
        /\ target \in Blocks /\ prev = target /\ root # target /\ ~IsAncestor(meta, target)
        /\ mode = "reorg" /\ k >= 1
        /\ k = 1 => Solid(cur, db, next, stats)
        /\ k > 1 => up = Parent(cur) /\ Solid(up, db, next, stats)

Connecting ==
    pc = "connect" =>
        /\ cur \in Blocks /\ Solid(cur, db, next, stats) /\ best = cur /\ mode = "reorg"
        /\ target \in Blocks /\ prev = target
        /\ cur = meta \/ (cur # target /\ ~IsAncestor(meta, target))

\* No block of the database is higher than the node's best block.
Heights ==
    /\ Height(meta) <= Height(node)
    /\ \A b \in Blocks : db["blocks"][b] = "main" => Height(b) <= Height(node)
    /\ target \in Blocks => Height(target) <= Height(node)

Phases ==
    /\ Stopped /\ Deleted /\ Opening /\ Resting /\ Stored /\ StoredEarly /\ StoredLate
    /\ Siding /\ Connecting /\ Heights

IInv == fails \in Nat /\ (fails = 0 => TypeOK /\ Phases)

-----------------------------------------------------------------------------
(* The main chain below a block that is stored, flagged or deleted. *)

Base(c, d, n, s) ==
    \A b \in Blocks :
        /\ IsAncestor(b, Parent(c)) => Whole(b, d, n, s)
        /\ b # c => (d["blocks"][b] = "main" <=> IsAncestor(b, Parent(c)))

\* The changes of a step that touches only rows of c, next hashes that are c's
\* or its parent's or lead to c, and stats that are c's or of its height.
OnlyRowsOf(c, d, n, s, d2, n2, s2) ==
    /\ \A t \in Tables, b \in Blocks : b # c => d2[t][b] = d[t][b]
    /\ \A b \in Blocks : b # c /\ b # Parent(c) => n2[b] = n[b] \/ n[b] = c
    /\ \A h \in 0 .. MaxHeight : h = Height(c) \/ s[h] = c \/ s2[h] = s[h]

\* The main chain of the tables ends with c, or with its parent.
LEMMA BaseFacts ==
    ASSUME NEW c \in Blocks, c # Genesis, NEW d, NEW n, NEW s
    PROVE  /\ Below(c, d, n, s) <=> Base(c, d, n, s) /\ d["blocks"][c] = "main"
           /\ Solid(Parent(c), d, n, s) <=> Base(c, d, n, s) /\ d["blocks"][c] # "main"
<1>1. /\ Parent(c) \in Blocks /\ IsAncestor(c, c) /\ IsAncestor(Parent(c), Parent(c))
      /\ \A b \in Blocks : IsAncestor(b, Parent(c)) <=> IsAncestor(b, c) /\ b # c
  BY ProperAncestor, AncestorParent, Zenon
<1> QED BY <1>1, Zenon DEF Base, Below, Solid

\* Such a step leaves the main chain below c as it is.
LEMMA BaseKept ==
    ASSUME NEW c \in Blocks, c # Genesis, NEW d, NEW n, NEW s, NEW d2, NEW n2, NEW s2,
           Base(c, d, n, s), OnlyRowsOf(c, d, n, s, d2, n2, s2)
    PROVE  Base(c, d2, n2, s2)
<1> SUFFICES ASSUME NEW b \in Blocks
             PROVE  /\ IsAncestor(b, Parent(c)) => Whole(b, d2, n2, s2)
                    /\ b # c => (d2["blocks"][b] = "main" <=> IsAncestor(b, Parent(c)))
  BY Zenon DEF Base
<1>1. b # c => (d2["blocks"][b] = "main" <=> IsAncestor(b, Parent(c)))
  BY Zenon DEF Base, OnlyRowsOf, Tables
<1>2. ASSUME IsAncestor(b, Parent(c))
      PROVE  Whole(b, d2, n2, s2)
  <2>1. Whole(b, d, n, s)
    BY <1>2, Zenon DEF Base
  <2>2. /\ b # c /\ Height(b) \in 0 .. MaxHeight /\ Height(b) < Height(c)
        /\ Height(b) <= Height(Parent(c)) /\ Parent(c) \in Blocks
    BY <1>2, ProperAncestor, AncestorHeight, ParentFacts, ChainType, HeightAssumption
  <2>3. (\A t \in Tables : d2[t][b] = "main") /\ s2[Height(b)] = b
    BY <2>1, <2>2 DEF Whole, OnlyRowsOf
  <2>4. ASSUME b # Genesis
        PROVE  n2[Parent(b)] = b
    <3>1. Parent(b) \in Blocks /\ Height(Parent(b)) = Height(b) - 1
      BY <2>4, ParentFacts, Zenon
    <3>2. Parent(b) # c /\ Parent(b) # Parent(c)
      BY <3>1, <2>2, HeightAssumption
    <3> QED BY <2>1, <2>2, <2>4, <3>1, <3>2, Zenon DEF Whole, OnlyRowsOf
  <2> QED BY <2>3, <2>4, Zenon DEF Whole
<1> QED BY <1>1, <1>2, Zenon

\* A step that stores, flags or deletes rows of c: the main chain below c stays,
\* and c is on top of it or not.
LEMMA TopChanges ==
    ASSUME NEW c \in Blocks, c # Genesis, NEW d, NEW n, NEW s, NEW d2, NEW n2, NEW s2,
           Below(c, d, n, s) \/ Solid(Parent(c), d, n, s), OnlyRowsOf(c, d, n, s, d2, n2, s2)
    PROVE  /\ d2["blocks"][c] = "main" => Below(c, d2, n2, s2)
           /\ d2["blocks"][c] # "main" => Solid(Parent(c), d2, n2, s2)
<1>1. Base(c, d, n, s)
  BY BaseFacts, Zenon
<1>2. Base(c, d2, n2, s2)
  BY <1>1, BaseKept, Zenon
<1> QED BY <1>2, BaseFacts, Zenon

\* The best block of the blocks table is the end of its main chain.
LEMMA BestIs ==
    ASSUME NEW w \in Blocks, Below(w, db, next, stats)
    PROVE  TableBest = w
<1>1. w \in MainBlocks
  BY AncestorParent, Zenon DEF Below, MainBlocks
<1>2. \A c \in MainBlocks : Height(c) <= Height(w) /\ (Height(c) = Height(w) => c = w)
  BY AncestorHeight, Zenon DEF Below, MainBlocks
<1>3. \A c \in MainBlocks : Height(c) \in Nat
  BY ChainType, HeightAssumption DEF MainBlocks
<1>4. \A b \in MainBlocks : (\A c \in MainBlocks : Height(c) <= Height(b)) => b = w
  BY <1>1, <1>2, <1>3
<1>5. \E b \in MainBlocks : \A c \in MainBlocks : Height(c) <= Height(b)
  BY <1>1, <1>2, Zenon
<1> QED BY <1>4, <1>5, Zenon DEF TableBest

\* The lists of steps.
LEMMA StepLists ==
    /\ Len(RegularSteps) = 2 /\ Len(StakeSteps) = 4 /\ Len(SideSteps) = 6 /\ Len(InvalidSteps) = 4
    /\ \A i \in 1 .. 2 : RegularSteps[i] \subseteq DataTables
    /\ \A i \in 1 .. 4 : StakeSteps[i] \subseteq DataTables
    /\ \A t \in DataTables : (\E i \in 1 .. 2 : t \in RegularSteps[i]) \/ (\E i \in 1 .. 4 : t \in StakeSteps[i])
    /\ SideSteps[1] = {"blocks"}
    /\ \A i \in 2 .. 6 : SideSteps[i] \subseteq DataTables
    /\ \A i \in 1 .. 4 : InvalidSteps[i] \in ValidTables
BY DEF RegularSteps, StakeSteps, SideSteps, InvalidSteps, DataTables, ValidTables

-----------------------------------------------------------------------------
(* The best blocks of the tables after NewChainDB, whatever statements failed. *)

\* From the end of NewChainDB to the end of the sync the two tables agree, and
\* importBlocks stores only blocks above all main chain blocks.
Agree ==
    /\ db \in [Tables -> [Blocks -> {"none", "main", "side"}]]
    /\ node \in Blocks /\ reg \in (0 .. 2) \cup {Failed} /\ stk \in (0 .. 4) \cup {Failed}
    /\ TablesAgreeAfterOpen
    /\ mode = "sync" /\ pc \in Early =>
          cur \in Blocks /\ \A b \in MainBlocks : Height(b) < Height(cur)
    /\ mode = "sync" /\ pc \in Late =>
          cur \in MainBlocks /\ \A b \in MainBlocks \ {cur} : Height(b) < Height(cur)

\* retrieveBestBlock finds a highest block if there is one: HighestIs, below.
BestIsHighest ==
    MainBlocks # {} => TableBest \in MainBlocks /\ \A c \in MainBlocks : Height(c) <= Height(TableBest)

\* A step that leaves the main chain flags of the blocks table leaves the best
\* block.
LEMMA SameBest ==
    ASSUME \A b \in Blocks : db'["blocks"][b] = "main" <=> db["blocks"][b] = "main"
    PROVE  TableBest' = TableBest
<1>1. MainBlocks' = MainBlocks
  BY Zenon DEF MainBlocks
<1> QED BY <1>1, Zenon DEF TableBest

\* A main chain block above all others is the best block.
LEMMA HighestBest ==
    ASSUME BestIsHighest, NEW w \in MainBlocks, \A b \in MainBlocks \ {w} : Height(b) < Height(w)
    PROVE  TableBest = w
<1>1. TableBest \in MainBlocks /\ \A c \in MainBlocks : Height(c) <= Height(TableBest)
  BY Zenon DEF BestIsHighest
<1>2. Height(TableBest) \in 0 .. MaxHeight /\ Height(w) \in 0 .. MaxHeight
  BY <1>1, ChainType, Zenon DEF MainBlocks
<1>3. Height(w) <= Height(TableBest) /\ (TableBest # w => Height(TableBest) < Height(w))
  BY <1>1, Zenon
<1> QED BY <1>2, <1>3, HeightAssumption

\* A step of which the rows of the blocks table, the step's block and the meta
\* table are left as they are.
LEMMA AgreeStill ==
    ASSUME Agree, db' \in [Tables -> [Blocks -> {"none", "main", "side"}]], node' \in Blocks,
           reg' \in (0 .. 2) \cup {Failed}, stk' \in (0 .. 4) \cup {Failed},
           \A b \in Blocks : db'["blocks"][b] = "main" <=> db["blocks"][b] = "main",
           pc' \in {"orphan", "sync"} => meta' = TableBest,
           mode' = "sync" /\ pc' \in Early => mode = "sync" /\ pc \in Early /\ cur' = cur,
           mode' = "sync" /\ pc' \in Late => mode = "sync" /\ pc \in Late /\ cur' = cur
    PROVE  Agree'
<1>1. MainBlocks' = MainBlocks /\ TableBest' = TableBest
  BY SameBest, Zenon DEF MainBlocks
<1> QED BY <1>1, Zenon DEF Agree, TablesAgreeAfterOpen

\* What StoreBlock's caller does is not to go on with a sync, if it failed.
LEMMA AgreeFails ==
    ASSUME Agree, Return(FALSE), UNCHANGED <<db, node, reg, stk>>
    PROVE  Agree'
<1>1. pc' \in {"exit", "live"}
  BY Zenon DEF Return
<1>2. pc' \notin {"orphan", "sync"} /\ pc' \notin Early /\ pc' \notin Late
  BY <1>1, Zenon DEF Early, Late
<1> QED BY <1>2, AgreeStill, Zenon DEF Agree

\* StoreBlock.
LEMMA AgreeStoring ==
    ASSUME BestIsHighest, Agree, Storing
    PROVE  Agree'
<1>0. /\ db \in [Tables -> [Blocks -> {"none", "main", "side"}]] /\ "blocks" \in Tables
      /\ node \in Blocks /\ reg \in (0 .. 2) \cup {Failed} /\ stk \in (0 .. 4) \cup {Failed}
  BY Zenon DEF Agree, Tables
<1>1. CASE RegularCommit \/ StakeCommit
  <2>1. PICK ts : Upsert(ts, cur) /\ "blocks" \notin ts
    <3>1. CASE RegularCommit
      <4>1. Upsert(RegularSteps[reg + 1], cur) /\ reg < Len(RegularSteps)
        BY <3>1, Zenon DEF RegularCommit
      <4>2. Len(RegularSteps) = 2 /\ \A i \in 1 .. 2 : RegularSteps[i] \subseteq DataTables
        BY StepLists, Zenon
      <4>3. reg + 1 \in 1 .. 2
        BY <1>0, <4>1, <4>2 DEF Failed
      <4>4. "blocks" \notin DataTables
        BY Zenon DEF DataTables
      <4>5. "blocks" \notin RegularSteps[reg + 1]
        BY <4>2, <4>3, <4>4, Zenon
      <4> QED BY <4>1, <4>5, Zenon
    <3>2. CASE StakeCommit
      <4>1. Upsert(StakeSteps[stk + 1], cur) /\ stk < Len(StakeSteps)
        BY <3>2, Zenon DEF StakeCommit
      <4>2. Len(StakeSteps) = 4 /\ \A i \in 1 .. 4 : StakeSteps[i] \subseteq DataTables
        BY StepLists, Zenon
      <4>3. stk + 1 \in 1 .. 4
        BY <1>0, <4>1, <4>2 DEF Failed
      <4>4. "blocks" \notin DataTables
        BY Zenon DEF DataTables
      <4>5. "blocks" \notin StakeSteps[stk + 1]
        BY <4>2, <4>3, <4>4, Zenon
      <4> QED BY <4>1, <4>5, Zenon
    <3> QED BY <1>1, <3>1, <3>2
  <2>2. /\ db' \in [Tables -> [Blocks -> {"none", "main", "side"}]]
        /\ \A b \in Blocks : db'["blocks"][b] = "main" <=> db["blocks"][b] = "main"
    BY <1>0, <2>1, Zenon DEF Upsert
  <2>3. pc = "trees" /\ UNCHANGED <<pc, mode, cur, node>>
    BY <1>1, Zenon DEF RegularCommit, StakeCommit, env
  <2>4. reg' \in (0 .. 2) \cup {Failed} /\ stk' \in (0 .. 4) \cup {Failed}
    BY <1>0, <1>1, StepLists DEF RegularCommit, StakeCommit, Failed
  <2> QED BY <1>0, <2>2, <2>3, <2>4, AgreeStill, Zenon DEF Early, Late
<1>2. CASE RegularFails \/ StakeFails
  <2>1. pc = "trees" /\ UNCHANGED <<db, meta, pc, mode, cur, node>>
    BY <1>2, Zenon DEF RegularFails, StakeFails, tables, env
  <2>2. reg' \in (0 .. 2) \cup {Failed} /\ stk' \in (0 .. 4) \cup {Failed}
    BY <1>0, <1>2, Zenon DEF RegularFails, StakeFails
  <2> QED BY <1>0, <2>1, <2>2, AgreeStill, Zenon DEF Early, Late
<1>3. CASE TreesDone
  <2>1. pc = "trees" /\ UNCHANGED <<db, mode, cur, node, reg, stk>> /\ (Return(FALSE) \/ pc' = "block")
    BY <1>3, Zenon DEF TreesDone, tables, work, env
  <2> QED BY <1>0, <2>1, AgreeFails, AgreeStill, Zenon DEF Early, Late
<1>4. CASE InsertBlock
  <2>1. CASE Return(FALSE) /\ UNCHANGED <<db, node, reg, stk>>
    BY <2>1, AgreeFails, Zenon
  <2>2. CASE Upsert({"blocks"}, cur) /\ pc' = "miners" /\ pc = "block" /\ UNCHANGED <<mode, cur, node, reg, stk>>
    <3>1. db' \in [Tables -> [Blocks -> {"none", "main", "side"}]]
      BY <1>0, <2>2, Zenon DEF Upsert
    <3>2. db'["blocks"] = [db["blocks"] EXCEPT ![cur] = "main"]
      BY <1>0, <2>2 DEF Upsert
    <3>3. ASSUME mode = "sync"
          PROVE  cur \in MainBlocks' /\ \A b \in MainBlocks' \ {cur} : Height(b) < Height(cur)
      <4>1. cur \in Blocks /\ \A b \in MainBlocks : Height(b) < Height(cur)
        BY <2>2, <3>3, Zenon DEF Agree, Early
      <4>2. db["blocks"] \in [Blocks -> {"none", "main", "side"}]
        BY <1>0
      <4>3. MainBlocks' = MainBlocks \cup {cur}
        BY <3>2, <4>1, <4>2 DEF MainBlocks
      <4> QED BY <4>1, <4>3, Zenon
    <3> QED BY <1>0, <2>2, <3>1, <3>3, Zenon DEF Agree, TablesAgreeAfterOpen, Early, Late
  <2> QED BY <1>4, <2>1, <2>2, Zenon DEF InsertBlock, StoreFails, env
<1>5. CASE UpsertMiner
  <2>1. pc = "miners" /\ pc' = "chain" /\ UNCHANGED <<db, meta, mode, cur, node, reg, stk>>
    BY <1>5, Zenon DEF UpsertMiner, work, env
  <2> QED BY <1>0, <2>1, AgreeStill, Zenon DEF Early, Late
<1>6. CASE InsertBlockPrevNext
  <2>1. CASE Return(FALSE) /\ UNCHANGED <<db, node, reg, stk>>
    BY <2>1, AgreeFails, Zenon
  <2>2. CASE /\ db' = [db EXCEPT !["chain"][cur] = "main"] /\ pc = "chain" /\ pc' = "last"
             /\ UNCHANGED <<mode, cur, node, reg, stk>>
    <3>1. db' \in [Tables -> [Blocks -> {"none", "main", "side"}]]
      BY <1>0, <2>2, ZenonT(60)
    <3>2. db'["blocks"] = db["blocks"]
      BY <1>0, <2>2
    <3> QED BY <1>0, <2>2, <3>1, <3>2, AgreeStill, Zenon DEF Early, Late
  <2> QED BY <1>6, <2>1, <2>2, Zenon DEF InsertBlockPrevNext, StoreFails, work, env
<1>7. CASE UpdateBlockNext \/ Invalidate \/ InsertBlockStats
  <2>1. pc \in {"last", "invalid", "stats"} /\ UNCHANGED <<db, mode, cur, node, reg, stk>>
    BY <1>7, Zenon DEF UpdateBlockNext, Invalidate, InsertBlockStats, work, env
  <2>2. Return(FALSE) \/ pc' \in {"invalid", "stats", "meta"}
    BY <1>7, Zenon DEF UpdateBlockNext, Invalidate, InsertBlockStats, StoreFails
  <2> QED BY <1>0, <2>1, <2>2, AgreeFails, AgreeStill, Zenon DEF Early, Late
<1>8. CASE SetDBBestBlock
  <2>1. CASE Return(FALSE) /\ UNCHANGED <<db, node, reg, stk>>
    BY <2>1, AgreeFails, Zenon
  <2>2. CASE meta' = cur /\ Return(TRUE) /\ pc = "meta" /\ UNCHANGED <<db, mode, cur, node, reg, stk>>
    <3>1. pc' \in {"sync", "connect", "live"} /\ (pc' = "sync" => mode = "sync")
      BY <2>2, Zenon DEF Return
    <3>2. mode = "sync" => TableBest = cur
      BY <2>2, HighestBest, Zenon DEF Agree, Late
    <3> QED BY <1>0, <2>2, <3>1, <3>2, AgreeStill, Zenon DEF Early, Late
  <2> QED BY <1>8, <2>1, <2>2, Zenon DEF SetDBBestBlock, StoreFails, work, env
<1> QED BY <1>1, <1>2, <1>3, <1>4, <1>5, <1>6, <1>7, <1>8, Zenon DEF Storing

\* Reorganizations, and blocks that the notifier announces.
LEMMA AgreeLive ==
    ASSUME Agree, Switching \/ \E b \in Blocks : NodeMoves(b) \/ NewBlock(b) \/ NewBlockRejected(b) \/ Reorg(b)
    PROVE  Agree'
<1>0. /\ db \in [Tables -> [Blocks -> {"none", "main", "side"}]] /\ "blocks" \in Tables
      /\ node \in Blocks /\ reg \in (0 .. 2) \cup {Failed} /\ stk \in (0 .. 4) \cup {Failed} /\ 0 \in 0 .. 2 /\ 0 \in 0 .. 4
  BY DEF Agree, Tables
<1>1. ASSUME NEW b \in Blocks, NodeMoves(b)
      PROVE  Agree'
  <2>1. node' \in Blocks /\ UNCHANGED <<db, meta, pc, mode, cur, reg, stk>>
    BY <1>1, Zenon DEF NodeMoves, tables, work
  <2> QED BY <1>0, <2>1, AgreeStill, Zenon DEF Agree, TablesAgreeAfterOpen
<1>2. ASSUME pc' \in {"side", "connect", "live"}, db' \in [Tables -> [Blocks -> {"none", "main", "side"}]],
             node' = node, reg' = reg, stk' = stk
      PROVE  Agree'
  <2>1. pc' \notin {"orphan", "sync"} /\ pc' \notin Early /\ pc' \notin Late
    BY <1>2, Zenon DEF Early, Late
  <2> QED BY <1>0, <1>2, <2>1, Zenon DEF Agree, TablesAgreeAfterOpen
<1>3. CASE SideUpdate
  <2>1. pc' = "side" /\ node' = node /\ reg' = reg /\ stk' = stk /\ (db' = db \/ ToSide(SideSteps[k], cur))
    BY <1>3, Zenon DEF SideUpdate, env
  <2>2. db' \in [Tables -> [Blocks -> {"none", "main", "side"}]]
    <3>1. \/ db' = db
          \/ db' = [t \in Tables |-> IF t \in SideSteps[k] /\ db[t][cur] # "none" THEN [db[t] EXCEPT ![cur] = "side"]
                                    ELSE db[t]]
      BY <2>1, Zenon DEF ToSide
    <3> QED BY <1>0, <3>1
  <2> QED BY <1>2, <2>1, <2>2, Zenon
<1>4. CASE SideNext \/ ConnectRejected \/ Connected
  <2>1. pc' \in {"side", "connect", "live"} /\ UNCHANGED <<db, node, reg, stk>>
    BY <1>4, Zenon DEF SideNext, ConnectRejected, Connected, tables, work, env
  <2> QED BY <1>0, <1>2, <2>1, Zenon
<1>5. ASSUME NEW b \in Blocks, NewBlockRejected(b) \/ Reorg(b)
      PROVE  Agree'
  <2>1. pc' \in {"side", "connect", "live"} /\ UNCHANGED <<db, node, reg, stk>>
    BY <1>5, Zenon DEF NewBlockRejected, Reorg, tables, work
  <2> QED BY <1>0, <1>2, <2>1, Zenon
<1>6. ASSUME NEW b \in Blocks, Connect(b) \/ NewBlock(b)
      PROVE  Agree'
  <2>1. pc' = "trees" /\ mode' # "sync" /\ reg' = 0 /\ stk' = 0 /\ UNCHANGED <<db, node>>
    BY <1>6, Zenon DEF Connect, NewBlock, StartStore, tables
  <2> QED BY <1>0, <2>1, Zenon DEF Agree, TablesAgreeAfterOpen
<1> QED BY <1>1, <1>3, <1>4, <1>5, <1>6, Zenon DEF Switching

\* Starting, and a process that stops.
LEMMA AgreeStarting ==
    ASSUME BestIsHighest, Agree, MainBlocks # {}, Starting \/ Crash
    PROVE  Agree'
<1>0. /\ db \in [Tables -> [Blocks -> {"none", "main", "side"}]]
      /\ node \in Blocks /\ reg \in (0 .. 2) \cup {Failed} /\ stk \in (0 .. 4) \cup {Failed} /\ 0 \in 0 .. 2 /\ 0 \in 0 .. 4
  BY DEF Agree
<1>1. ASSUME pc' \notin {"orphan", "sync"}, pc' \notin Early, pc' \notin Late,
             db' \in [Tables -> [Blocks -> {"none", "main", "side"}]],
             node' = node, reg' \in {reg, 0}, stk' \in {stk, 0}
      PROVE  Agree'
  BY <1>0, <1>1, Zenon DEF Agree, TablesAgreeAfterOpen
<1>2. CASE Open \/ MetaNotAhead \/ Exit \/ Crash
  <2>1. pc' \in {"check", "purge", "down"} /\ db' = db /\ node' = node /\ reg' \in {reg, 0} /\ stk' \in {stk, 0}
    BY <1>2, Zenon DEF Open, MetaNotAhead, Exit, Crash, Stop, tables, work, env
  <2> QED BY <1>0, <1>1, <2>1, Zenon DEF Early, Late
<1>3. CASE MetaAhead \/ Purge \/ PurgeOrphan
  <2>1. PICK then \in Purged : DeleteBlockData(TableBest, then)
    BY <1>3, Zenon DEF MetaAhead, Purge, PurgeOrphan, Purged
  <2>2. /\ pc' \in Purged /\ node' = node /\ reg' = reg /\ stk' = stk
        /\ db' = [t \in Tables |-> [db[t] EXCEPT ![TableBest] = "none"]]
    BY <2>1, Zenon DEF DeleteBlockData, work, env
  <2>3. db' \in [Tables -> [Blocks -> {"none", "main", "side"}]]
    <3> HIDE DEF TableBest
    <3> QED BY <1>0, <2>2, Zenon
  <2> QED BY <1>1, <2>2, <2>3, Zenon DEF Purged, Early, Late
<1>4. CASE SetMeta
  <2>1. pc' \in {"orphan", "purge"} /\ meta' = TableBest /\ UNCHANGED <<db, node, reg, stk>>
    BY <1>4, Zenon DEF SetMeta, env
  <2> QED BY <1>0, <2>1, AgreeStill, Zenon DEF Early, Late
<1>5. ASSUME NEW c \in Blocks, Opened(c)
      PROVE  Agree'
  <2>1. pc' \in {"orphan", "exit"} /\ meta = TableBest /\ UNCHANGED <<db, meta, node, reg, stk>>
    BY <1>5, Zenon DEF Opened, PurgeNeeded, tables, env
  <2> QED BY <1>0, <2>1, AgreeStill, Zenon DEF Early, Late
<1>6. CASE StartSync \/ Synced
  <2>1. pc \in {"orphan", "sync"} /\ pc' \in {"sync", "live"} /\ UNCHANGED <<db, meta, node, reg, stk>>
    BY <1>6, Zenon DEF StartSync, Synced, tables, work, env
  <2>2. meta = TableBest
    BY <2>1, Zenon DEF Agree, TablesAgreeAfterOpen
  <2> QED BY <1>0, <2>1, <2>2, AgreeStill, Zenon DEF Early, Late
<1>7. CASE SyncBlock
  <2> DEFINE b == Chain[node][Height(meta) + 1]
  <2>1. pc = "sync" /\ Height(meta) < Height(node)
    BY <1>7, Zenon DEF SyncBlock
  <2>2. CASE pc' = "exit" /\ UNCHANGED <<db, node, reg, stk>>
    BY <1>0, <1>1, <2>2, Zenon DEF Early, Late
  <2>3. CASE Parent(b) = meta /\ StartStore(b, "sync")
    <3>1. meta \in MainBlocks /\ \A c \in MainBlocks : Height(c) <= Height(meta)
      BY <2>1, Zenon DEF BestIsHighest, Agree, TablesAgreeAfterOpen
    <3>2. meta \in Blocks /\ Height(meta) \in 0 .. MaxHeight /\ Height(node) \in 0 .. MaxHeight
      BY <1>0, <3>1, ChainType, Zenon DEF MainBlocks
    <3>3. Height(meta) + 1 \in 1 .. Height(node)
      BY <2>1, <3>2, HeightAssumption
    <3>4. b \in Blocks /\ Height(b) = Height(meta) + 1
      BY <1>0, <3>3, ChainType, OnChain, Zenon
    <3>5. \A c \in MainBlocks : Height(c) \in 0 .. MaxHeight
      BY ChainType, Zenon DEF MainBlocks
    <3>6. \A c \in MainBlocks : Height(c) < Height(b)
      BY <3>1, <3>2, <3>4, <3>5, HeightAssumption
    <3>7. pc' = "trees" /\ cur' = b /\ reg' = 0 /\ stk' = 0 /\ UNCHANGED <<db, node>>
      BY <2>3, Zenon DEF StartStore, tables
    <3>8. MainBlocks' = MainBlocks
      BY <3>7, Zenon DEF MainBlocks
    <3> HIDE DEF b
    <3> QED BY <1>0, <3>4, <3>6, <3>7, <3>8, Zenon DEF Agree, TablesAgreeAfterOpen, Late
  <2> QED BY <1>7, <2>2, <2>3, Zenon DEF SyncBlock, tables, work, env
<1> QED BY <1>2, <1>3, <1>4, <1>5, <1>6, <1>7, Zenon DEF Starting

-----------------------------------------------------------------------------
(* Steps. *)

\* A statement that fails is counted.
LEMMA NoFail == ASSUME fails = 0, fails' = 0 PROVE ~Fail /\ ~FailOfItself
BY DEF Fail, FailOfItself

\* An upsert of rows of b in some of the tables.
LEMMA UpsertFacts ==
    ASSUME NEW d \in [Tables -> [Blocks -> {"none", "main", "side"}]], NEW i \in [ValidTables -> SUBSET Blocks],
           NEW ts \in SUBSET Tables, NEW b \in Blocks, NEW d2, NEW i2,
           d2 = [t \in Tables |-> IF t \in ts THEN [d[t] EXCEPT ![b] = "main"] ELSE d[t]],
           i2 = [t \in ValidTables |-> i[t] \ (IF t \in ts THEN {b} ELSE {})]
    PROVE  /\ d2 \in [Tables -> [Blocks -> {"none", "main", "side"}]]
           /\ i2 \in [ValidTables -> SUBSET Blocks]
           /\ \A t \in Tables, c \in Blocks : d2[t][c] = IF t \in ts /\ c = b THEN "main" ELSE d[t][c]
OBVIOUS

\* The invariant after a step is that of the phase the step leads to.
LEMMA InPhase ==
    /\ pc' \in Early /\ Stored' /\ StoredEarly' /\ Heights' => Phases'
    /\ pc' \in Late /\ Stored' /\ StoredLate' /\ Heights' => Phases'
    /\ pc' \in Halted /\ Stopped' /\ Heights' => Phases'
    /\ pc' \in Purged /\ Deleted' /\ Heights' => Phases'
    /\ pc' \in Syncing /\ Opening' /\ Heights' => Phases'
    /\ pc' = "live" /\ Resting' /\ Heights' => Phases'
    /\ pc' = "side" /\ Siding' /\ Heights' => Phases'
    /\ pc' = "connect" /\ Connecting' /\ Heights' => Phases'
<1>1. (pc' \in Halted \/ Stopped') /\ (pc' \in Purged \/ Deleted') /\ (pc' \in Syncing \/ Opening')
  BY Zenon DEF Stopped, Deleted, Opening
<1>2. (pc' = "live" \/ Resting') /\ (pc' = "side" \/ Siding') /\ (pc' = "connect" \/ Connecting')
  BY Zenon DEF Resting, Siding, Connecting
<1>3. (pc' \in Early \cup Late \/ Stored') /\ (pc' \in Early \/ StoredEarly') /\ (pc' \in Late \/ StoredLate')
  BY Zenon DEF Stored, StoredEarly, StoredLate
<1> QED BY <1>1, <1>2, <1>3, Zenon DEF Phases, Early, Late, Halted, Purged, Syncing

\* A step that flags no further block as main chain and leaves the meta table,
\* the node and the target keeps to the heights.
LEMMA HeightsKept ==
    ASSUME Phases, \A b \in Blocks : db'["blocks"][b] = "main" => db["blocks"][b] = "main",
           meta' = meta, node' = node, target' = target
    PROVE  Heights'
BY Zenon DEF Phases, Heights

\* Every step leaves the number of failed statements, or counts one.
LEMMA FailsStep == [Next]_vars => fails' = fails \/ Fail \/ FailOfItself
<1>1. Storing => fails' = fails \/ Fail \/ FailOfItself
  BY Zenon DEF Storing, RegularCommit, RegularFails, StakeCommit, StakeFails, TreesDone, InsertBlock, UpsertMiner,
         InsertBlockPrevNext, UpdateBlockNext, Invalidate, InsertBlockStats, SetDBBestBlock, StoreFails, bounds
<1>2. Switching => fails' = fails \/ Fail \/ FailOfItself
  BY Zenon DEF Switching, SideUpdate, SideNext, Connect, ConnectRejected, Connected, StartStore, bounds
<1>3. Starting => fails' = fails \/ Fail \/ FailOfItself
  BY Zenon DEF Starting, Open, MetaAhead, MetaNotAhead, Purge, SetMeta, Opened, PurgeOrphan, StartSync, SyncBlock,
         Synced, Exit, Stop, StartStore, DeleteBlockData, bounds
<1>4. (\E b \in Blocks : NodeMoves(b) \/ NewBlock(b) \/ NewBlockRejected(b) \/ Reorg(b)) => fails' = fails \/ Fail \/ FailOfItself
  BY Zenon DEF NodeMoves, NewBlock, NewBlockRejected, Reorg, StartStore, bounds
<1>5. Crash => fails' = fails
  BY Zenon DEF Crash, Stop
<1>6. UNCHANGED vars => fails' = fails
  BY Zenon DEF vars
<1> QED BY <1>1, <1>2, <1>3, <1>4, <1>5, <1>6, Zenon DEF Next

\* The block that TipToSideChain is at.
LEMMA SideFacts ==
    ASSUME TypeOK, Phases, pc = "side"
    PROVE  /\ cur \in Blocks /\ cur # Genesis /\ Parent(cur) \in Blocks /\ IsAncestor(cur, cur)
           /\ root \in Blocks /\ cur # root /\ IsAncestor(root, cur) /\ k \in 1 .. 7
           /\ target \in Blocks /\ prev = target /\ root # target /\ ~IsAncestor(meta, target) /\ mode = "reorg"
           /\ k = 1 => Solid(cur, db, next, stats)
           /\ k > 1 => up = Parent(cur) /\ Solid(Parent(cur), db, next, stats)
<1>1. /\ cur \in Blocks /\ root \in Blocks /\ cur # root /\ IsAncestor(root, cur) /\ k \in 1 .. 7
      /\ target \in Blocks /\ prev = target /\ root # target /\ ~IsAncestor(meta, target) /\ mode = "reorg"
      /\ k = 1 => Solid(cur, db, next, stats)
      /\ k > 1 => up = Parent(cur) /\ Solid(Parent(cur), db, next, stats)
  BY DEF Phases, Siding, TypeOK
<1>2. cur # Genesis
  BY <1>1, AncestorHeight, GenesisHeight, ChainType, HeightAssumption
<1>3. Parent(cur) \in Blocks /\ IsAncestor(cur, cur)
  BY <1>1, <1>2, ProperAncestor, AncestorParent, Zenon
<1> QED BY <1>1, <1>2, <1>3, Zenon

\* The best block of the tables is deleted.
LEMMA DeleteFacts ==
    ASSUME TypeOK, NEW w \in Blocks, w # Genesis, Below(w, db, next, stats), NEW then, DeleteBlockData(w, then)
    PROVE  /\ Solid(Parent(w), db', next', stats') /\ Parent(w) \in Blocks
           /\ db' \in [Tables -> [Blocks -> {"none", "main", "side"}]]
           /\ invalid' \in [ValidTables -> SUBSET Blocks]
           /\ next' \in [Blocks -> Blocks \cup {NoBlock}]
           /\ stats' \in [0 .. MaxHeight -> Blocks \cup {NoBlock}]
           /\ \A b \in Blocks : db'["blocks"][b] = "main" => db["blocks"][b] = "main"
<1>1. /\ db' \in [Tables -> [Blocks -> {"none", "main", "side"}]]
      /\ \A t \in Tables, b \in Blocks : db'[t][b] = IF b = w THEN "none" ELSE db[t][b]
  BY Zenon DEF DeleteBlockData, TypeOK
<1>2. invalid' \in [ValidTables -> SUBSET Blocks]
  BY Zenon DEF DeleteBlockData, TypeOK
<1>3. /\ next' \in [Blocks -> Blocks \cup {NoBlock}]
      /\ \A b \in Blocks : b # w /\ b # Parent(w) => next'[b] = next[b] \/ next[b] = w
  BY Zenon DEF DeleteBlockData, TypeOK
<1>4. /\ stats' \in [0 .. MaxHeight -> Blocks \cup {NoBlock}]
      /\ \A h \in 0 .. MaxHeight : stats[h] = w \/ stats'[h] = stats[h]
  BY Zenon DEF DeleteBlockData, TypeOK
<1>5. OnlyRowsOf(w, db, next, stats, db', next', stats')
  BY <1>1, <1>3, <1>4, Zenon DEF OnlyRowsOf
<1>6. db'["blocks"][w] # "main" /\ (\A b \in Blocks : db'["blocks"][b] = "main" => db["blocks"][b] = "main")
  BY <1>1, Zenon DEF Tables
<1>7. Solid(Parent(w), db', next', stats') /\ Parent(w) \in Blocks
  BY <1>5, <1>6, TopChanges, ProperAncestor, Zenon
<1> QED BY <1>1, <1>2, <1>3, <1>4, <1>6, <1>7, Zenon

\* In every state some block is the end of the main chain of the tables; the
\* meta table names another block as long as it is not complete.
LEMMA SomeBest ==
    ASSUME TypeOK, Phases
    PROVE  \E w \in Blocks : Below(w, db, next, stats) /\ (meta = w => Solid(w, db, next, stats))
<1>1. CASE pc \in Halted
  BY <1>1, Zenon DEF Phases, Stopped
<1>2. CASE pc \in Purged
  BY <1>2, Zenon DEF Phases, Deleted, Solid
<1>3. CASE pc \in Syncing \/ pc = "live"
  BY <1>3, Zenon DEF Phases, Opening, Resting, Solid, TypeOK
<1>4. CASE pc \in Early
  <2>1. Parent(cur) \in Blocks
    BY <1>4, ProperAncestor, Zenon DEF Phases, Stored
  <2> QED BY <1>4, <2>1, Zenon DEF Phases, StoredEarly, Solid
<1>5. CASE pc \in Late
  BY <1>5, Zenon DEF Phases, Stored, StoredLate
<1>6. CASE pc = "side"
  <2>1. /\ cur \in Blocks /\ Parent(cur) \in Blocks /\ (k = 1 \/ k > 1)
        /\ k = 1 => Solid(cur, db, next, stats)
        /\ k > 1 => Solid(Parent(cur), db, next, stats)
    BY <1>6, SideFacts
  <2> QED BY <2>1, Zenon DEF Solid
<1>7. CASE pc = "connect"
  BY <1>7, Zenon DEF Phases, Connecting, Solid
<1> QED BY <1>1, <1>2, <1>3, <1>4, <1>5, <1>6, <1>7, Zenon DEF TypeOK, Early, Late, Halted, Purged, Syncing

-----------------------------------------------------------------------------
(* The best block of the blocks table follows the tree. *)

\* BestIs, in the state after a step.
LEMMA BestIsPrime ==
    ASSUME NEW w \in Blocks, Below(w, db', next', stats')
    PROVE  TableBest' = w
<1>1. w \in MainBlocks'
  BY AncestorParent, Zenon DEF Below, MainBlocks
<1>2. \A c \in MainBlocks' : Height(c) <= Height(w) /\ (Height(c) = Height(w) => c = w)
  BY AncestorHeight, Zenon DEF Below, MainBlocks
<1>3. \A c \in MainBlocks' : Height(c) \in Nat
  BY ChainType, HeightAssumption DEF MainBlocks
<1>4. \A b \in MainBlocks' : (\A c \in MainBlocks' : Height(c) <= Height(b)) => b = w
  BY <1>1, <1>2, <1>3
<1>5. \E b \in MainBlocks' : \A c \in MainBlocks' : Height(c) <= Height(b)
  BY <1>1, <1>2, Zenon
<1> QED BY <1>4, <1>5, Zenon DEF TableBest

\* Every step leaves the best block of the blocks table, or moves it to a child
\* or to its parent.
LEMMA BestMoves ==
    ASSUME TypeOK, Phases, TypeOK', Phases', fails = 0, fails' = 0, [Next]_vars
    PROVE  \/ TableBest' = TableBest
           \/ TableBest # Genesis /\ TableBest' = Parent(TableBest)
           \/ \E b \in Blocks : b # Genesis /\ Parent(b) = TableBest /\ TableBest' = b
<1>1. CASE InsertBlock
  <2>0. pc = "block" /\ pc' = "miners" /\ cur' = cur
    BY <1>1, NoFail, Zenon DEF InsertBlock, StoreFails
  <2>1. /\ cur \in Blocks /\ cur # Genesis /\ Below(Parent(cur), db, next, stats)
    BY <2>0, Zenon DEF Phases, Stored, StoredEarly, Early, Solid
  <2>2. Parent(cur) \in Blocks
    BY <2>1, ProperAncestor, Zenon
  <2>3. Below(cur, db', next', stats')
    BY <2>0, Zenon DEF Phases, StoredLate, Late
  <2>4. TableBest = Parent(cur) /\ TableBest' = cur
    BY <2>1, <2>2, <2>3, BestIs, BestIsPrime, Zenon
  <2> QED BY <2>1, <2>4, Zenon
<1>2. CASE SideUpdate
  <2>1. pc = "side" /\ pc' = "side" /\ cur' = cur /\ k' = k + 1
    BY <1>2, NoFail, Zenon DEF SideUpdate
  <2>2. /\ cur \in Blocks /\ cur # Genesis /\ k \in 1 .. 7
        /\ k = 1 => Solid(cur, db, next, stats)
        /\ k > 1 => Solid(Parent(cur), db, next, stats)
    BY <2>1, SideFacts, Zenon
  <2>3. Parent(cur) \in Blocks
    BY <2>2, ProperAncestor, Zenon
  <2>4. k' > 1 /\ (k = 1 \/ k > 1)
    BY <2>1, <2>2
  <2>5. Below(Parent(cur), db', next', stats')
    BY <2>1, <2>4, Zenon DEF Phases, Siding, Solid
  <2>6. TableBest' = Parent(cur)
    BY <2>3, <2>5, BestIsPrime, Zenon
  <2>7. TableBest = IF k = 1 THEN cur ELSE Parent(cur)
    BY <2>2, <2>3, <2>4, BestIs, Zenon DEF Solid
  <2> QED BY <2>2, <2>6, <2>7, Zenon
<1>3. CASE MetaAhead \/ Purge \/ PurgeOrphan
  <2>1. PICK w \in Blocks : Below(w, db, next, stats)
    BY SomeBest, Zenon
  <2>2. TableBest = w
    BY <2>1, BestIs, Zenon
  <2>3. PICK then : DeleteBlockData(w, then)
    BY <1>3, <2>2, Zenon DEF MetaAhead, Purge, PurgeOrphan
  <2>4. w # Genesis
    BY <2>3, Zenon DEF DeleteBlockData
  <2>5. Solid(Parent(w), db', next', stats') /\ Parent(w) \in Blocks
    BY <2>1, <2>3, <2>4, DeleteFacts, Zenon
  <2>6. TableBest' = Parent(w)
    BY <2>5, BestIsPrime, Zenon DEF Solid
  <2> QED BY <2>2, <2>4, <2>6, Zenon
<1>4. CASE RegularCommit \/ StakeCommit
  <2>1. pc = "trees" /\ pc' = "trees" /\ cur' = cur
    BY <1>4, Zenon DEF RegularCommit, StakeCommit
  <2>2. cur \in Blocks /\ cur # Genesis /\ Below(Parent(cur), db, next, stats)
    BY <2>1, Zenon DEF Phases, Stored, StoredEarly, Early, Solid
  <2>3. Below(Parent(cur), db', next', stats')
    BY <2>1, Zenon DEF Phases, StoredEarly, Early, Solid
  <2>4. Parent(cur) \in Blocks
    BY <2>2, ProperAncestor, Zenon
  <2> QED BY <2>2, <2>3, <2>4, BestIs, BestIsPrime, Zenon
<1>5. CASE InsertBlockPrevNext
  <2>1. db' = [db EXCEPT !["chain"][cur] = "main"]
    BY <1>5, NoFail, Zenon DEF InsertBlockPrevNext, StoreFails
  <2>2. \A b \in Blocks : db'["blocks"][b] = db["blocks"][b]
    BY <2>1, Zenon DEF TypeOK, Tables
  <2> QED BY <2>2, SameBest, Zenon
<1>6. CASE UNCHANGED db
  BY <1>6, SameBest, Zenon
<1> QED
  <2>1. \/ InsertBlock \/ SideUpdate \/ MetaAhead \/ Purge \/ PurgeOrphan \/ RegularCommit \/ StakeCommit
        \/ InsertBlockPrevNext \/ UNCHANGED db
    BY Zenon DEF Next, Storing, Switching, Starting, vars, RegularFails, StakeFails, TreesDone, UpsertMiner,
           UpdateBlockNext, Invalidate, InsertBlockStats, SetDBBestBlock, NodeMoves, NewBlock, NewBlockRejected,
           Reorg, StartStore, SideNext, Connect, ConnectRejected, Connected, Open, MetaNotAhead, SetMeta, Opened,
           StartSync, SyncBlock, Synced, Exit, Crash, Stop, tables
  <2> QED BY <1>1, <1>2, <1>3, <1>4, <1>5, <1>6, <2>1, Zenon

-----------------------------------------------------------------------------
(* The steps of StoreBlock. *)

\* What is known while the transactions are stored.
LEMMA EarlyFacts ==
    ASSUME Phases, pc \in Early
    PROVE  /\ cur \in Blocks /\ cur # Genesis /\ Solid(Parent(cur), db, next, stats)
           /\ reg \in 0 .. 2 /\ stk \in 0 .. 4 /\ Height(cur) <= Height(node)
           /\ \A i \in 1 .. reg : \A t \in RegularSteps[i] : db[t][cur] = "main"
           /\ \A i \in 1 .. stk : \A t \in StakeSteps[i] : db[t][cur] = "main"
           /\ pc = "block" => reg = 2 /\ stk = 4
BY Zenon DEF Phases, Stored, StoredEarly

\* The block that is stored stays the same.
LEMMA StoredKept ==
    ASSUME Phases, pc \in Early \cup Late, UNCHANGED <<cur, meta, mode, prev, node, target>>
    PROVE  Stored'
BY Zenon DEF Phases, Stored

\* A commit of one of the trees writes rows of the stored block.
LEMMA CommitFacts ==
    ASSUME TypeOK, Phases, pc = "trees", NEW ts \in SUBSET DataTables, Upsert(ts, cur),
           UNCHANGED <<next, stats, meta, target, node>>
    PROVE  /\ db' \in [Tables -> [Blocks -> {"none", "main", "side"}]]
           /\ invalid' \in [ValidTables -> SUBSET Blocks]
           /\ \A t \in DataTables : db'[t][cur] = IF t \in ts THEN "main" ELSE db[t][cur]
           /\ Solid(Parent(cur), db', next', stats')
           /\ Heights'
<1>1. cur \in Blocks /\ cur # Genesis /\ Solid(Parent(cur), db, next, stats)
  BY EarlyFacts, Zenon DEF Early
<1>2. DataTables \subseteq Tables /\ ts \in SUBSET Tables /\ "blocks" \notin ts /\ "blocks" \in Tables
  BY Zenon DEF Tables, DataTables
<1>3. /\ db' \in [Tables -> [Blocks -> {"none", "main", "side"}]]
      /\ invalid' \in [ValidTables -> SUBSET Blocks]
      /\ \A t \in Tables, c \in Blocks : db'[t][c] = IF t \in ts /\ c = cur THEN "main" ELSE db[t][c]
  <2>1. db \in [Tables -> [Blocks -> {"none", "main", "side"}]] /\ invalid \in [ValidTables -> SUBSET Blocks]
    BY Zenon DEF TypeOK
  <2> QED BY <1>1, <1>2, <2>1, UpsertFacts DEF Upsert
<1>4. \A b \in Blocks : db'["blocks"][b] = db["blocks"][b]
  BY <1>2, <1>3, Zenon
<1>5. OnlyRowsOf(cur, db, next, stats, db', next', stats')
  BY <1>3, Zenon DEF OnlyRowsOf
<1>6. Solid(Parent(cur), db', next', stats')
  BY <1>1, <1>4, <1>5, TopChanges, BaseFacts, Zenon
<1> QED BY <1>1, <1>2, <1>3, <1>4, <1>6, HeightsKept, Zenon

\* A commit of the regular tree.
LEMMA RegularCommitStep ==
    ASSUME TypeOK, Phases, fails = 0, RegularCommit
    PROVE  TypeOK' /\ Phases'
<1>1. /\ pc = "trees" /\ reg < 2 /\ Upsert(RegularSteps[reg + 1], cur) /\ reg' = reg + 1
      /\ UNCHANGED <<next, stats, mined, meta, best, lastBlock, pc, mode, cur, up, stk, k, floor, target, root,
                     prev, node, crashes, fails>>
  BY StepLists, Zenon DEF RegularCommit, memory, env, bounds
<1>2. pc \in Early /\ pc' \in Early
  BY <1>1, Zenon DEF Early
<1>3. reg \in 0 .. 1 /\ reg' \in 1 .. 2 /\ stk \in 0 .. 4
  BY <1>1, <1>2, EarlyFacts
<1>4. RegularSteps[reg + 1] \in SUBSET DataTables
  BY <1>3, StepLists
<1>5. /\ db' \in [Tables -> [Blocks -> {"none", "main", "side"}]]
      /\ invalid' \in [ValidTables -> SUBSET Blocks]
      /\ \A t \in DataTables : db'[t][cur] = IF t \in RegularSteps[reg + 1] THEN "main" ELSE db[t][cur]
      /\ Solid(Parent(cur), db', next', stats')
      /\ Heights'
  BY <1>1, <1>4, CommitFacts, Zenon
<1>6. TypeOK'
  BY <1>1, <1>3, <1>5 DEF TypeOK
<1>7. Stored'
  BY <1>1, <1>2, StoredKept, Zenon
<1>8. \A i \in 1 .. reg' : \A t \in RegularSteps[i] : db'[t][cur] = "main"
  BY <1>1, <1>2, <1>3, <1>5, EarlyFacts, StepLists
<1>9. \A i \in 1 .. stk : \A t \in StakeSteps[i] : db'[t][cur] = "main"
  BY <1>2, <1>3, <1>5, EarlyFacts, StepLists
<1>10. StoredEarly'
  BY <1>1, <1>3, <1>5, <1>8, <1>9 DEF StoredEarly
<1> QED BY <1>2, <1>5, <1>6, <1>7, <1>10, InPhase, Zenon

\* A commit of the stake tree.
LEMMA StakeCommitStep ==
    ASSUME TypeOK, Phases, fails = 0, StakeCommit
    PROVE  TypeOK' /\ Phases'
<1>1. /\ pc = "trees" /\ stk < 4 /\ Upsert(StakeSteps[stk + 1], cur) /\ stk' = stk + 1
      /\ UNCHANGED <<next, stats, mined, meta, best, lastBlock, pc, mode, cur, up, reg, k, floor, target, root,
                     prev, node, crashes, fails>>
  BY StepLists, Zenon DEF StakeCommit, memory, env, bounds
<1>2. pc \in Early /\ pc' \in Early
  BY <1>1, Zenon DEF Early
<1>3. stk \in 0 .. 3 /\ stk' \in 1 .. 4 /\ reg \in 0 .. 2
  BY <1>1, <1>2, EarlyFacts
<1>4. StakeSteps[stk + 1] \in SUBSET DataTables
  BY <1>3, StepLists
<1>5. /\ db' \in [Tables -> [Blocks -> {"none", "main", "side"}]]
      /\ invalid' \in [ValidTables -> SUBSET Blocks]
      /\ \A t \in DataTables : db'[t][cur] = IF t \in StakeSteps[stk + 1] THEN "main" ELSE db[t][cur]
      /\ Solid(Parent(cur), db', next', stats')
      /\ Heights'
  BY <1>1, <1>4, CommitFacts, Zenon
<1>6. TypeOK'
  BY <1>1, <1>3, <1>5 DEF TypeOK
<1>7. Stored'
  BY <1>1, <1>2, StoredKept, Zenon
<1>8. \A i \in 1 .. stk' : \A t \in StakeSteps[i] : db'[t][cur] = "main"
  BY <1>1, <1>2, <1>3, <1>5, EarlyFacts, StepLists
<1>9. \A i \in 1 .. reg : \A t \in RegularSteps[i] : db'[t][cur] = "main"
  BY <1>2, <1>3, <1>5, EarlyFacts, StepLists
<1>10. StoredEarly'
  BY <1>1, <1>3, <1>5, <1>8, <1>9 DEF StoredEarly
<1> QED BY <1>2, <1>5, <1>6, <1>7, <1>10, InPhase, Zenon

\* Both trees are stored.
LEMMA TreesDoneStep ==
    ASSUME TypeOK, Phases, fails = 0, TreesDone
    PROVE  TypeOK' /\ Phases'
<1>1. /\ pc = "trees" /\ reg >= 2 /\ stk >= 4
      /\ UNCHANGED <<db, invalid, next, stats, mined, meta, best, lastBlock, mode, cur, up, reg, stk, k, floor,
                     target, root, prev, node, crashes, fails>>
  BY StepLists, Zenon DEF TreesDone, tables, memory, work, env, bounds
<1>2. pc \in Early /\ reg = 2 /\ stk = 4
  BY <1>1, EarlyFacts DEF Early
<1>3. pc' = "block"
  BY <1>2 DEF TreesDone, Failed
<1>4. TypeOK'
  BY <1>1, <1>3 DEF TypeOK
<1>5. Stored' /\ Heights' /\ pc' \in Early
  BY <1>1, <1>2, <1>3, StoredKept, HeightsKept, Zenon DEF Early
<1>6. StoredEarly'
  BY <1>1, <1>2, EarlyFacts, Zenon DEF StoredEarly
<1> QED BY <1>4, <1>5, <1>6, InPhase, Zenon

\* The blocks row makes the stored block the end of the main chain.
LEMMA InsertBlockStep ==
    ASSUME TypeOK, Phases, fails = 0, fails' = 0, InsertBlock
    PROVE  TypeOK' /\ Phases'
<1>1. /\ pc = "block" /\ Upsert({"blocks"}, cur) /\ lastBlock' = lastBlock \cup {cur} /\ pc' = "miners"
      /\ UNCHANGED <<next, stats, mined, meta, best, mode, cur, up, reg, stk, k, floor, target, root, prev, node,
                     crashes, fails>>
  BY NoFail, Zenon DEF InsertBlock, StoreFails, env
<1>2. pc \in Early /\ pc' \in Late
  BY <1>1, Zenon DEF Early, Late
<1>3. /\ cur \in Blocks /\ cur # Genesis /\ Solid(Parent(cur), db, next, stats) /\ Height(cur) <= Height(node)
      /\ \A i \in 1 .. 2 : \A t \in RegularSteps[i] : db[t][cur] = "main"
      /\ \A i \in 1 .. 4 : \A t \in StakeSteps[i] : db[t][cur] = "main"
  BY <1>1, <1>2, EarlyFacts, Zenon
<1>4. {"blocks"} \in SUBSET Tables /\ DataTables \subseteq Tables /\ "blocks" \notin DataTables
  BY Zenon DEF Tables, DataTables
<1>5. /\ db' \in [Tables -> [Blocks -> {"none", "main", "side"}]]
      /\ invalid' \in [ValidTables -> SUBSET Blocks]
      /\ \A t \in Tables, c \in Blocks : db'[t][c] = IF t \in {"blocks"} /\ c = cur THEN "main" ELSE db[t][c]
  <2>1. db \in [Tables -> [Blocks -> {"none", "main", "side"}]] /\ invalid \in [ValidTables -> SUBSET Blocks]
    BY Zenon DEF TypeOK
  <2> QED BY <1>1, <1>3, <1>4, <2>1, UpsertFacts DEF Upsert
<1>6. Below(cur, db', next', stats')
  <2>1. OnlyRowsOf(cur, db, next, stats, db', next', stats')
    BY <1>1, <1>5, Zenon DEF OnlyRowsOf
  <2>2. db'["blocks"][cur] = "main"
    BY <1>3, <1>4, <1>5, Zenon
  <2> QED BY <1>3, <2>1, <2>2, TopChanges, Zenon
<1>7. \A t \in DataTables : db'[t][cur] = "main"
  <2>1. \A t \in DataTables : db[t][cur] = "main"
    BY <1>3, StepLists, Zenon
  <2> QED BY <1>3, <1>4, <1>5, <2>1, Zenon
<1>8. TypeOK'
  BY <1>1, <1>3, <1>5 DEF TypeOK
<1>9. Heights'
  BY <1>1, <1>3, <1>4, <1>5, Zenon DEF Phases, Heights
<1>10. Stored'
  BY <1>1, <1>2, StoredKept, Zenon
<1>11. StoredLate'
  BY <1>1, <1>6, <1>7, Zenon DEF StoredLate
<1> QED BY <1>2, <1>8, <1>9, <1>10, <1>11, InPhase, Zenon

\* What is known after insertBlock.
LEMMA LateFacts ==
    ASSUME Phases, pc \in Late
    PROVE  /\ cur \in Blocks /\ cur # Genesis /\ Parent(cur) \in Blocks /\ Below(cur, db, next, stats)
           /\ db["blocks"][cur] = "main" /\ db["chain"][Parent(cur)] = "main"
           /\ Height(cur) \in 0 .. MaxHeight /\ Height(cur) <= Height(node)
<1>1. cur \in Blocks /\ cur # Genesis /\ Below(cur, db, next, stats) /\ Height(cur) <= Height(node)
  BY Zenon DEF Phases, Stored, StoredLate
<1>2. Parent(cur) \in Blocks /\ Parent(cur) # cur /\ IsAncestor(Parent(cur), cur) /\ IsAncestor(cur, cur)
  BY <1>1, ProperAncestor, AncestorParent, Zenon
<1>3. Whole(Parent(cur), db, next, stats) /\ db["blocks"][cur] = "main"
  BY <1>1, <1>2, Zenon DEF Below
<1> QED BY <1>1, <1>2, <1>3, ChainType, Zenon DEF Whole, Tables

\* The miners table is not read by the repair.
LEMMA UpsertMinerStep ==
    ASSUME TypeOK, Phases, fails = 0, fails' = 0, UpsertMiner
    PROVE  TypeOK' /\ Phases'
<1>1. /\ pc = "miners" /\ pc' = "chain" /\ mined' = [mined EXCEPT ![Miner[cur]] = @ + 1]
      /\ UNCHANGED <<db, invalid, next, stats, meta, best, lastBlock, mode, cur, up, reg, stk, k, floor, target, root,
                     prev, node, crashes, fails>>
  BY NoFail, Zenon DEF UpsertMiner, memory, work, env
<1>2. pc \in Late /\ pc' \in Late
  BY <1>1, Zenon DEF Late
<1>3. mined' \in [Miners -> Nat]
  <2>1. cur \in Blocks /\ mined \in [Miners -> Nat] /\ Miner \in [Blocks -> Miners]
    BY <1>2, LateFacts, DataAssumption, Zenon DEF TypeOK
  <2> QED BY <1>1, <2>1
<1>4. TypeOK'
  BY <1>1, <1>3 DEF TypeOK
<1>5. Stored' /\ Heights'
  BY <1>1, <1>2, StoredKept, HeightsKept, Zenon
<1>6. StoredLate'
  BY <1>1, <1>2, Zenon DEF Phases, StoredLate
<1> QED BY <1>2, <1>4, <1>5, <1>6, InPhase, Zenon

\* The block_chain row of the stored block.
LEMMA InsertBlockPrevNextStep ==
    ASSUME TypeOK, Phases, fails = 0, fails' = 0, InsertBlockPrevNext
    PROVE  TypeOK' /\ Phases'
<1>1. /\ pc = "chain" /\ pc' = "last" /\ db' = [db EXCEPT !["chain"][cur] = "main"]
      /\ next' = IF db["chain"][cur] = "none" THEN [next EXCEPT ![cur] = NoBlock] ELSE next
      /\ UNCHANGED <<invalid, stats, mined, meta, best, lastBlock, mode, cur, up, reg, stk, k, floor, target, root,
                     prev, node, crashes, fails>>
  BY NoFail, Zenon DEF InsertBlockPrevNext, StoreFails, memory, work, env
<1>2. pc \in Late /\ pc' \in Late
  BY <1>1, Zenon DEF Late
<1>3. cur \in Blocks /\ cur # Genesis /\ Below(cur, db, next, stats) /\ db["blocks"][cur] = "main"
  BY <1>2, LateFacts, Zenon
<1>4. /\ db' \in [Tables -> [Blocks -> {"none", "main", "side"}]]
      /\ \A t \in Tables, c \in Blocks : db'[t][c] = IF t = "chain" /\ c = cur THEN "main" ELSE db[t][c]
  BY <1>1, <1>3, Zenon DEF TypeOK, Tables
<1>5. next' \in [Blocks -> Blocks \cup {NoBlock}] /\ (\A b \in Blocks : b # cur => next'[b] = next[b])
  BY <1>1, <1>3, Zenon DEF TypeOK
<1>6. /\ \A b \in Blocks : db'["blocks"][b] = db["blocks"][b]
      /\ \A t \in DataTables : db'[t][cur] = db[t][cur]
      /\ db'["chain"][cur] = "main"
  BY <1>3, <1>4, Zenon DEF Tables, DataTables
<1>7. Below(cur, db', next', stats')
  <2>1. OnlyRowsOf(cur, db, next, stats, db', next', stats')
    BY <1>1, <1>4, <1>5, Zenon DEF OnlyRowsOf
  <2> QED BY <1>3, <1>6, <2>1, TopChanges, Zenon
<1>8. TypeOK'
  BY <1>1, <1>4, <1>5 DEF TypeOK
<1>9. Stored' /\ Heights'
  BY <1>1, <1>2, <1>6, StoredKept, HeightsKept, Zenon
<1>10. StoredLate'
  <2>1. \A t \in DataTables : db[t][cur] = "main"
    BY <1>2, Zenon DEF Phases, StoredLate
  <2> QED BY <1>1, <1>6, <1>7, <2>1, Zenon DEF StoredLate
<1> QED BY <1>2, <1>8, <1>9, <1>10, InPhase, Zenon

\* The next hash of the parent, which has a block_chain row.
LEMMA UpdateBlockNextStep ==
    ASSUME TypeOK, Phases, fails = 0, fails' = 0, UpdateBlockNext
    PROVE  TypeOK' /\ Phases'
<1>1. /\ pc = "last" /\ k' = 1
      /\ UNCHANGED <<db, invalid, stats, mined, meta, best, lastBlock, mode, cur, up, reg, stk, floor, target, root,
                     prev, node, crashes>>
  BY Zenon DEF UpdateBlockNext, memory, env
<1>2. pc \in Late
  BY <1>1, Zenon DEF Late
<1>3. /\ cur \in Blocks /\ cur # Genesis /\ Parent(cur) \in Blocks /\ Below(cur, db, next, stats)
      /\ db["blocks"][cur] = "main" /\ db["chain"][Parent(cur)] = "main"
  BY <1>2, LateFacts, Zenon
<1>4. next' = [next EXCEPT ![Parent(cur)] = cur] /\ pc' \in {"invalid", "stats"}
  BY <1>3, NoFail, Zenon DEF UpdateBlockNext, StoreFails
<1>5. /\ next'[Parent(cur)] = cur /\ next' \in [Blocks -> Blocks \cup {NoBlock}]
      /\ \A b \in Blocks : b # Parent(cur) => next'[b] = next[b]
  BY <1>3, <1>4, Zenon DEF TypeOK
<1>6. Below(cur, db', next', stats')
  <2>1. OnlyRowsOf(cur, db, next, stats, db', next', stats')
    BY <1>1, <1>5, Zenon DEF OnlyRowsOf
  <2> QED BY <1>1, <1>3, <2>1, TopChanges, Zenon
<1>7. TypeOK'
  BY <1>1, <1>4, <1>5 DEF TypeOK
<1>8. Stored' /\ Heights' /\ pc' \in Late
  BY <1>1, <1>2, <1>4, StoredKept, HeightsKept, Zenon DEF Late
<1>9. StoredLate'
  <2>1. db["chain"][cur] = "main" /\ (\A t \in DataTables : db[t][cur] = "main")
    BY <1>1, <1>2, Zenon DEF Phases, StoredLate
  <2> QED BY <1>1, <1>4, <1>5, <1>6, <2>1 DEF StoredLate
<1> QED BY <1>7, <1>8, <1>9, InPhase, Zenon

\* The flags of a disapproved parent.
LEMMA InvalidateStep ==
    ASSUME TypeOK, Phases, fails = 0, fails' = 0, Invalidate
    PROVE  TypeOK' /\ Phases'
<1>1. /\ pc = "invalid" /\ invalid' = [invalid EXCEPT ![InvalidSteps[k]] = @ \cup {Parent(cur)}] /\ k' = k + 1
      /\ pc' = IF k = 4 THEN "stats" ELSE "invalid"
      /\ UNCHANGED <<db, next, stats, mined, meta, best, lastBlock, mode, cur, up, reg, stk, floor, target, root,
                     prev, node, crashes, fails>>
  BY NoFail, StepLists, Zenon DEF Invalidate, SetInvalid, StoreFails, memory, env
<1>2. pc \in Late /\ pc' \in Late
  BY <1>1, Zenon DEF Late
<1>3. Parent(cur) \in Blocks /\ k \in 1 .. 4
  BY <1>1, <1>2, LateFacts, Zenon DEF Phases, StoredLate
<1>4. invalid' \in [ValidTables -> SUBSET Blocks]
  <2>1. invalid \in [ValidTables -> SUBSET Blocks]
    BY Zenon DEF TypeOK
  <2> QED BY <1>1, <1>3, <2>1, Zenon
<1>5. k' \in 0 .. 7 /\ (pc' = "invalid" => k' \in 1 .. 4)
  BY <1>1, <1>3
<1>6. TypeOK'
  BY <1>1, <1>4, <1>5 DEF TypeOK
<1>7. Stored' /\ Heights'
  BY <1>1, <1>2, StoredKept, HeightsKept, Zenon
<1>8. StoredLate'
  BY <1>1, <1>2, <1>5, Zenon DEF Phases, StoredLate
<1> QED BY <1>2, <1>6, <1>7, <1>8, InPhase, Zenon

\* The stats row, on the height of the stored block.
LEMMA InsertBlockStatsStep ==
    ASSUME TypeOK, Phases, fails = 0, fails' = 0, InsertBlockStats
    PROVE  TypeOK' /\ Phases'
<1>1. /\ pc = "stats" /\ pc' = "meta" /\ best' = cur /\ stats' = [stats EXCEPT ![Height(cur)] = cur]
      /\ UNCHANGED <<db, invalid, next, mined, meta, lastBlock, mode, cur, up, reg, stk, k, floor, target, root,
                     prev, node, crashes, fails>>
  BY NoFail, Zenon DEF InsertBlockStats, StoreFails, work, env
<1>2. pc \in Late /\ pc' \in Late
  BY <1>1, Zenon DEF Late
<1>3. /\ cur \in Blocks /\ cur # Genesis /\ Below(cur, db, next, stats) /\ db["blocks"][cur] = "main"
      /\ Height(cur) \in 0 .. MaxHeight
  BY <1>2, LateFacts, Zenon
<1>4. /\ stats' \in [0 .. MaxHeight -> Blocks \cup {NoBlock}] /\ stats'[Height(cur)] = cur
      /\ \A h \in 0 .. MaxHeight : h # Height(cur) => stats'[h] = stats[h]
  BY <1>1, <1>3, Zenon DEF TypeOK
<1>5. Below(cur, db', next', stats')
  <2>1. OnlyRowsOf(cur, db, next, stats, db', next', stats')
    BY <1>1, <1>4, Zenon DEF OnlyRowsOf
  <2> QED BY <1>1, <1>3, <2>1, TopChanges, Zenon
<1>6. TypeOK'
  BY <1>1, <1>3, <1>4 DEF TypeOK
<1>7. Stored' /\ Heights'
  BY <1>1, <1>2, StoredKept, HeightsKept, Zenon
<1>8. StoredLate'
  <2>1. db["chain"][cur] = "main" /\ (\A t \in DataTables : db[t][cur] = "main") /\ next[Parent(cur)] = cur
    BY <1>1, <1>2, Zenon DEF Phases, StoredLate
  <2> QED BY <1>1, <1>4, <1>5, <2>1, Zenon DEF StoredLate
<1> QED BY <1>2, <1>6, <1>7, <1>8, InPhase, Zenon

\* The meta table, when the stored block is complete.
LEMMA SetDBBestBlockStep ==
    ASSUME TypeOK, Phases, fails = 0, fails' = 0, SetDBBestBlock
    PROVE  TypeOK' /\ Phases'
<1>1. /\ pc = "meta" /\ meta' = cur /\ Return(TRUE)
      /\ UNCHANGED <<db, invalid, next, stats, mined, best, lastBlock, mode, cur, up, reg, stk, k, floor, target, root,
                     prev, node, crashes, fails>>
  BY NoFail, Zenon DEF SetDBBestBlock, StoreFails, memory, work, env
<1>2. pc \in Late
  BY <1>1, Zenon DEF Late
<1>3. cur \in Blocks /\ cur # Genesis /\ Below(cur, db, next, stats) /\ db["blocks"][cur] = "main"
  BY <1>2, LateFacts, Zenon
<1>4. Solid(cur, db, next, stats) /\ best = cur
  <2>1. /\ db["chain"][cur] = "main" /\ (\A t \in DataTables : db[t][cur] = "main")
        /\ next[Parent(cur)] = cur /\ stats[Height(cur)] = cur /\ best = cur
    BY <1>1, <1>2, Zenon DEF Phases, StoredLate
  <2> QED BY <1>3, <2>1, Zenon DEF Solid, Whole, Tables
<1>5. /\ pc' = IF mode = "sync" THEN "sync" ELSE IF mode = "reorg" THEN "connect" ELSE "live"
      /\ mode \in {"sync", "live", "reorg"}
  BY <1>1, Zenon DEF Return, TypeOK
<1>6. /\ mode = "live" => prev = cur
      /\ mode = "reorg" => prev = target /\ target \in Blocks
      /\ Height(cur) <= Height(node)
  BY <1>2, Zenon DEF Phases, Stored
<1>7. TypeOK'
  BY <1>1, <1>3, <1>5 DEF TypeOK
<1>8. Heights'
  BY <1>1, <1>6, Zenon DEF Phases, Heights
<1>9. CASE mode = "sync"
  <2>1. pc' \in Syncing /\ Opening'
    BY <1>1, <1>4, <1>5, <1>9, Zenon DEF Opening, Syncing
  <2> QED BY <1>7, <1>8, <2>1, InPhase, Zenon
<1>10. CASE mode = "live"
  <2>1. pc' = "live" /\ Resting'
    BY <1>1, <1>4, <1>5, <1>6, <1>10, Zenon DEF Resting
  <2> QED BY <1>7, <1>8, <2>1, InPhase, Zenon
<1>11. CASE mode = "reorg"
  <2>1. pc' = "connect" /\ Connecting'
    BY <1>1, <1>3, <1>4, <1>5, <1>6, <1>11, Zenon DEF Connecting
  <2> QED BY <1>7, <1>8, <2>1, InPhase, Zenon
<1> QED BY <1>5, <1>9, <1>10, <1>11, Zenon

\* Storing a block preserves the invariant.
LEMMA StoringStep ==
    ASSUME TypeOK, Phases, fails = 0, fails' = 0, Storing
    PROVE  TypeOK' /\ Phases'
<1>1. ~RegularFails /\ ~StakeFails
  BY NoFail, Zenon DEF RegularFails, StakeFails
<1> QED BY <1>1, RegularCommitStep, StakeCommitStep, TreesDoneStep, InsertBlockStep, UpsertMinerStep,
        InsertBlockPrevNextStep, UpdateBlockNextStep, InvalidateStep, InsertBlockStatsStep, SetDBBestBlockStep, Zenon
        DEF Storing

-----------------------------------------------------------------------------
(* Announced blocks, reorganizations, starts and exits. *)

\* The node's best block only gets higher.
LEMMA NodeMovesStep ==
    ASSUME TypeOK, Phases, fails = 0, NEW b \in Blocks, NodeMoves(b)
    PROVE  TypeOK' /\ Phases'
<1>1. /\ node' = b /\ Height(b) > Height(node)
      /\ UNCHANGED <<db, invalid, next, stats, mined, meta, best, lastBlock, pc, mode, cur, up, reg, stk, k, floor,
                     target, root, prev, crashes, fails>>
  BY Zenon DEF NodeMoves, tables, memory, work, bounds
<1>2. \A c \in Blocks : Height(c) \in Nat
  BY ChainType, HeightAssumption
<1>3. \A c \in Blocks : /\ Height(c) <= Height(node) => Height(c) <= Height(b)
                        /\ Height(c) < Height(node) => Height(c) < Height(b)
  BY <1>1, <1>2 DEF TypeOK
<1>4. TypeOK'
  BY <1>1 DEF TypeOK
<1>5. meta \in Blocks
  BY Zenon DEF TypeOK
<1>6. Heights'
  BY <1>1, <1>3, <1>5, Zenon DEF Phases, Heights
<1>7. Deleted' /\ Opening' /\ Stored'
  <2>1. Deleted'
    BY <1>1, <1>3, Zenon DEF Phases, Deleted
  <2>2. Opening'
    BY <1>1, <1>3, <1>5, Zenon DEF Phases, Opening
  <2>3. Stored'
    BY <1>1, <1>3, Zenon DEF Phases, Stored
  <2> QED BY <2>1, <2>2, <2>3, Zenon
<1>8. Stopped' /\ Resting'
  BY <1>1, Zenon DEF Phases, Stopped, Resting
<1>9. StoredEarly' /\ StoredLate'
  BY <1>1, Zenon DEF Phases, StoredEarly, StoredLate
<1>10. Siding' /\ Connecting'
  BY <1>1, Zenon DEF Phases, Siding, Connecting
<1> QED BY <1>4, <1>6, <1>7, <1>8, <1>9, <1>10, Zenon DEF Phases

\* StoreBlock begins with a child of the best block.
LEMMA StartStoreStep ==
    ASSUME TypeOK, Phases, fails = 0, NEW b \in Blocks, b # Genesis, NEW caller \in {"sync", "live", "reorg"},
           StartStore(b, caller), Solid(Parent(b), db, next, stats), meta # b, Height(b) <= Height(node),
           prev' \in Blocks \cup {NoBlock},
           caller = "live" => prev' = b,
           caller = "reorg" => prev' = target /\ target \in Blocks
    PROVE  TypeOK' /\ Phases'
<1>1. /\ pc' = "trees" /\ cur' = b /\ mode' = caller /\ reg' = 0 /\ stk' = 0
      /\ UNCHANGED <<db, invalid, next, stats, mined, meta, best, lastBlock, up, k, floor, target, root, node,
                     crashes, fails>>
  BY Zenon DEF StartStore, tables, memory, bounds
<1>2. pc' \in Early
  BY <1>1, Zenon DEF Early
<1>3. TypeOK'
  BY <1>1 DEF TypeOK
<1>4. Heights'
  BY <1>1, HeightsKept, Zenon
<1>5. Stored'
  BY <1>1, Zenon DEF Stored
<1>6. StoredEarly'
  BY <1>1 DEF StoredEarly
<1> QED BY <1>2, <1>3, <1>4, <1>5, <1>6, InPhase, Zenon

\* The next block is stored on top of the best block.
LEMMA NewBlockStep ==
    ASSUME TypeOK, Phases, fails = 0, NEW b \in Blocks, NewBlock(b)
    PROVE  TypeOK' /\ Phases'
<1>1. /\ b # Genesis /\ Parent(b) = meta /\ Solid(meta, db, next, stats) /\ prev' = b
      /\ StartStore(b, "live") /\ IsAncestor(b, node) /\ node \in Blocks
  BY Zenon DEF NewBlock, Phases, Resting, TypeOK
<1>2. meta # b /\ Height(b) <= Height(node)
  BY <1>1, ProperAncestor, AncestorHeight, Zenon
<1> QED BY <1>1, <1>2, StartStoreStep, Zenon

\* A reorganization begins at the best block, which the node has left.
LEMMA ReorgStep ==
    ASSUME TypeOK, Phases, fails = 0, NEW c \in Blocks, Reorg(c)
    PROVE  TypeOK' /\ Phases'
<1>1. /\ meta \in Blocks /\ node \in Blocks /\ Solid(meta, db, next, stats) /\ best = meta /\ prev = meta
      /\ ~IsAncestor(meta, node) /\ IsAncestor(c, meta) /\ Height(meta) <= Height(node)
      /\ \A b \in Blocks : db["blocks"][b] = "main" => Height(b) <= Height(node)
  BY Zenon DEF Reorg, CommonAncestor, Phases, Resting, Heights, TypeOK
<1>2. c # node
  <2> SUFFICES ASSUME c = node PROVE FALSE
    OBVIOUS
  <2>1. Height(node) <= Height(meta) /\ (Height(node) = Height(meta) => node = meta)
    BY <1>1, AncestorHeight, Zenon
  <2>2. Height(meta) \in Nat /\ Height(node) \in Nat
    BY <1>1, ChainType, HeightAssumption
  <2> QED BY <1>1, <2>1, <2>2, AncestorParent
<1>3. /\ pc' = IF meta = c THEN "connect" ELSE "side"
      /\ cur' = meta /\ root' = c /\ target' = node /\ prev' = node /\ mode' = "reorg" /\ k' = 1
      /\ UNCHANGED <<db, invalid, next, stats, mined, meta, best, lastBlock, up, reg, stk, floor, node, crashes, fails>>
  BY <1>1, Zenon DEF Reorg, tables, memory, bounds
<1>4. TypeOK'
  BY <1>1, <1>3 DEF TypeOK
<1>5. Heights'
  <2>1. Height(node) <= Height(node)
    BY <1>1, ChainType, HeightAssumption
  <2> QED BY <1>1, <1>3, <2>1, Zenon DEF Heights
<1>6. CASE meta = c
  <2>1. pc' = "connect" /\ Connecting'
    BY <1>1, <1>3, <1>6, Zenon DEF Connecting
  <2> QED BY <1>4, <1>5, <2>1, InPhase, Zenon
<1>7. CASE meta # c
  <2>1. pc' = "side" /\ Siding'
    BY <1>1, <1>2, <1>3, <1>7 DEF Siding
  <2> QED BY <1>4, <1>5, <2>1, InPhase, Zenon
<1> QED BY <1>6, <1>7, Zenon

-----------------------------------------------------------------------------
(* switchToSideChain. *)

\* One update of TipToSideChain; the first takes the block off the main chain.
LEMMA SideUpdateStep ==
    ASSUME TypeOK, Phases, fails = 0, fails' = 0, SideUpdate
    PROVE  TypeOK' /\ Phases'
<1>1. /\ pc = "side" /\ k <= 6 /\ k' = k + 1 /\ ToSide(SideSteps[k], cur)
      /\ up' = IF k > 1 THEN up ELSE IF db["blocks"][cur] = "none" \/ cur = Genesis THEN NoBlock ELSE Parent(cur)
      /\ UNCHANGED <<invalid, next, stats, mined, meta, best, lastBlock, pc, mode, cur, reg, stk, floor, target, root,
                     prev, node, crashes, fails>>
  BY NoFail, StepLists, Zenon DEF SideUpdate, memory, env
<1>2. /\ cur \in Blocks /\ cur # Genesis /\ Parent(cur) \in Blocks /\ IsAncestor(cur, cur)
      /\ k = 1 => Solid(cur, db, next, stats)
      /\ k > 1 => up = Parent(cur) /\ Solid(Parent(cur), db, next, stats)
  BY <1>1, SideFacts, Zenon
<1>3. k \in 1 .. 6 /\ (k = 1 \/ k > 1)
  BY <1>1, SideFacts
<1>4. /\ SideSteps[k] \subseteq Tables
      /\ k = 1 => SideSteps[k] = {"blocks"} /\ db["blocks"][cur] = "main"
      /\ k > 1 => "blocks" \notin SideSteps[k] /\ db["blocks"][cur] # "main"
  <2>1. CASE k = 1
    BY <2>1, <1>2, StepLists DEF Tables, Solid, Below
  <2>2. CASE k > 1
    <3>1. SideSteps[k] \subseteq DataTables
      BY <2>2, <1>3, StepLists
    <3>2. db["blocks"][cur] # "main"
      BY <2>2, <1>2, BaseFacts, Zenon
    <3> QED BY <2>2, <3>1, <3>2 DEF Tables, DataTables
  <2> QED BY <1>3, <2>1, <2>2, Zenon
<1>5. /\ db' \in [Tables -> [Blocks -> {"none", "main", "side"}]]
      /\ \A t \in Tables, b \in Blocks : db'[t][b] = db[t][b] \/ (b = cur /\ t \in SideSteps[k] /\ db'[t][b] = "side")
      /\ k = 1 => db'["blocks"][cur] = "side"
  <2>1. db \in [Tables -> [Blocks -> {"none", "main", "side"}]] /\ "blocks" \in Tables
    BY Zenon DEF TypeOK, Tables
  <2>2. db' = [t \in Tables |-> IF t \in SideSteps[k] /\ db[t][cur] # "none" THEN [db[t] EXCEPT ![cur] = "side"]
                                ELSE db[t]]
    BY <1>1, Zenon DEF ToSide
  <2> QED BY <1>2, <1>4, <2>1, <2>2, Zenon
<1>6. up' = Parent(cur)
  BY <1>1, <1>2, <1>3, <1>4, Zenon
<1>7. Solid(Parent(cur), db', next', stats')
  <2>1. OnlyRowsOf(cur, db, next, stats, db', next', stats')
    BY <1>1, <1>5, Zenon DEF OnlyRowsOf
  <2>2. db'["blocks"][cur] # "main"
    BY <1>2, <1>3, <1>4, <1>5, Zenon DEF Tables
  <2>3. Below(cur, db, next, stats) \/ Solid(Parent(cur), db, next, stats)
    BY <1>2, <1>3, Zenon DEF Solid
  <2> QED BY <1>2, <2>1, <2>2, <2>3, TopChanges, Zenon
<1>8. TypeOK'
  <2>1. k' \in 0 .. 7 /\ up' \in Blocks \cup {NoBlock}
    BY <1>1, <1>2, <1>3, <1>6
  <2>2. db' \in [Tables -> [Blocks -> {"none", "main", "side"}]]
    BY <1>5, Zenon
  <2> QED BY <1>1, <2>1, <2>2, ZenonT(60) DEF TypeOK
<1>9. Siding'
  <2>1. /\ root \in Blocks /\ cur # root /\ IsAncestor(root, cur)
        /\ target \in Blocks /\ prev = target /\ root # target /\ ~IsAncestor(meta, target) /\ mode = "reorg"
    BY <1>1, SideFacts, Zenon
  <2>2. k' >= 1 /\ k' # 1
    BY <1>1, <1>3
  <2> QED BY <1>1, <1>2, <1>6, <1>7, <2>1, <2>2, Zenon DEF Siding
<1>10. Heights'
  <2>1. \A b \in Blocks : db'["blocks"][b] = "main" => db["blocks"][b] = "main"
    BY <1>5, Zenon DEF Tables
  <2> QED BY <1>1, <2>1, HeightsKept, Zenon
<1> QED BY <1>1, <1>8, <1>9, <1>10, InPhase, Zenon

\* On to the previous block, until it is the common ancestor.
LEMMA SideNextStep ==
    ASSUME TypeOK, Phases, fails = 0, fails' = 0, SideNext
    PROVE  TypeOK' /\ Phases'
<1>1. /\ pc = "side" /\ k > 6 /\ cur' = up /\ best' = up /\ k' = 1 /\ pc' = IF up = root THEN "connect" ELSE "side"
      /\ UNCHANGED <<db, invalid, next, stats, meta, lastBlock, mode, up, reg, stk, floor, target, root, prev, node,
                     crashes>>
  BY StepLists, Zenon DEF SideNext, env
<1>2. mined' = mined \/ mined' = [mined EXCEPT ![Miner[cur]] = IF @ > 0 THEN @ - 1 ELSE 0]
  BY NoFail, Zenon DEF SideNext
<1>3. /\ cur \in Blocks /\ cur # Genesis /\ Parent(cur) \in Blocks
      /\ root \in Blocks /\ cur # root /\ IsAncestor(root, cur) /\ k > 1
      /\ target \in Blocks /\ prev = target /\ root # target /\ ~IsAncestor(meta, target) /\ mode = "reorg"
      /\ up = Parent(cur) /\ Solid(Parent(cur), db, next, stats)
  BY <1>1, SideFacts
<1>4. IsAncestor(root, up)
  BY <1>3, ProperAncestor, Zenon
<1>5. mined' \in [Miners -> Nat]
  <2>1. mined \in [Miners -> Nat] /\ Miner[cur] \in Miners
    BY <1>3, DataAssumption, Zenon DEF TypeOK
  <2> QED BY <1>2, <2>1, SMTT(60)
<1>6. TypeOK'
  BY <1>1, <1>3, <1>5, SMTT(60) DEF TypeOK
<1>7. Heights'
  BY <1>1, HeightsKept, Zenon
<1>8. CASE up = root
  <2>1. pc' = "connect" /\ Connecting'
    BY <1>1, <1>3, <1>8, Zenon DEF Connecting
  <2> QED BY <1>6, <1>7, <2>1, InPhase, Zenon
<1>9. CASE up # root
  <2>1. pc' = "side" /\ Siding'
    BY <1>1, <1>3, <1>4, <1>9 DEF Siding
  <2> QED BY <1>6, <1>7, <2>1, InPhase, Zenon
<1> QED BY <1>8, <1>9, Zenon

\* The next block of the new chain is stored.
LEMMA ConnectStep ==
    ASSUME TypeOK, Phases, fails = 0, NEW b \in Blocks, Connect(b)
    PROVE  TypeOK' /\ Phases'
<1>1. /\ pc = "connect" /\ b # Genesis /\ Parent(b) = cur /\ StartStore(b, "reorg") /\ prev' = prev
      /\ IsAncestor(b, target)
  BY Zenon DEF Connect
<1>2. /\ cur \in Blocks /\ Solid(cur, db, next, stats) /\ prev = target /\ target \in Blocks /\ node \in Blocks
      /\ Height(target) <= Height(node) /\ meta \in Blocks
      /\ cur = meta \/ ~IsAncestor(meta, target)
  BY <1>1, Zenon DEF Phases, Connecting, Heights, TypeOK
<1>3. meta # b
  BY <1>1, <1>2, ProperAncestor, Zenon
<1>4. Height(b) <= Height(node)
  BY <1>1, <1>2, AncestorHeight, ChainType, HeightAssumption
<1>5. Solid(Parent(b), db, next, stats) /\ prev' \in Blocks \cup {NoBlock} /\ prev' = target
  BY <1>1, <1>2, Zenon
<1> QED BY <1>1, <1>2, <1>3, <1>4, <1>5, StartStoreStep, Zenon

\* The new chain is stored.
LEMMA ConnectedStep ==
    ASSUME TypeOK, Phases, fails = 0, Connected
    PROVE  TypeOK' /\ Phases'
<1>1. /\ pc = "connect" /\ cur = target /\ pc' = "live"
      /\ UNCHANGED <<db, invalid, next, stats, mined, meta, best, lastBlock, mode, cur, up, reg, stk, k, floor, target,
                     root, prev, node, crashes, fails>>
  BY Zenon DEF Connected, tables, env, bounds, memory, work
<1>2. TypeOK'
  BY <1>1 DEF TypeOK
<1>3. Heights'
  BY <1>1, HeightsKept, Zenon
<1>4. Resting'
  BY <1>1, Zenon DEF Phases, Connecting, Resting
<1> QED BY <1>1, <1>2, <1>3, <1>4, InPhase, Zenon

-----------------------------------------------------------------------------
(* Starting. *)

\* A purge of the best block, by any of its callers.
LEMMA PurgeStep ==
    ASSUME TypeOK, Phases, fails = 0, MetaAhead \/ Purge \/ PurgeOrphan
    PROVE  TypeOK' /\ Phases'
<1>1. PICK w \in Blocks : /\ Below(w, db, next, stats)
                          /\ PurgeOrphan => w = meta
  <2>1. CASE MetaAhead \/ Purge
    <3>1. pc \in Halted /\ ~PurgeOrphan
      BY <2>1, Zenon DEF MetaAhead, Purge, PurgeOrphan, Halted
    <3> QED BY <3>1, Zenon DEF Phases, Stopped
  <2>2. CASE PurgeOrphan
    <3>1. pc \in Syncing /\ meta \in Blocks
      BY <2>2, Zenon DEF PurgeOrphan, Syncing, TypeOK
    <3> QED BY <3>1, Zenon DEF Phases, Opening, Solid
  <2> QED BY <2>1, <2>2, Zenon
<1>2. TableBest = w
  BY <1>1, BestIs, Zenon
<1>3. PICK then \in Purged : DeleteBlockData(w, then) /\ (then = "orphanMeta" => PurgeOrphan)
  BY <1>2, Zenon DEF MetaAhead, Purge, PurgeOrphan, Purged
<1>4. /\ w # Genesis /\ pc' = then
      /\ UNCHANGED <<mined, meta, best, lastBlock, mode, cur, up, reg, stk, k, floor, target, root, prev, node,
                     crashes, fails>>
  BY <1>3, Zenon DEF DeleteBlockData, memory, work, env, bounds
<1>5. /\ Solid(Parent(w), db', next', stats') /\ Parent(w) \in Blocks
      /\ db' \in [Tables -> [Blocks -> {"none", "main", "side"}]]
      /\ invalid' \in [ValidTables -> SUBSET Blocks]
      /\ next' \in [Blocks -> Blocks \cup {NoBlock}]
      /\ stats' \in [0 .. MaxHeight -> Blocks \cup {NoBlock}]
      /\ \A b \in Blocks : db'["blocks"][b] = "main" => db["blocks"][b] = "main"
  BY <1>1, <1>3, <1>4, DeleteFacts, Zenon
<1>6. TypeOK'
  BY <1>3, <1>4, <1>5, SMTT(60) DEF TypeOK, Purged
<1>7. then = "orphanMeta" => Height(Parent(w)) < Height(node)
  <2>1. then = "orphanMeta" => Height(w) <= Height(node)
    BY <1>1, <1>3, Zenon DEF Phases, Heights
  <2>2. Height(Parent(w)) = Height(w) - 1 /\ Height(w) \in Nat /\ Height(node) \in Nat
    BY <1>4, ParentFacts, HeightNat, Zenon DEF TypeOK
  <2> QED BY <2>1, <2>2
<1>8. Deleted'
  BY <1>4, <1>5, <1>7, Zenon DEF Deleted
<1>9. Heights'
  BY <1>4, <1>5, HeightsKept, Zenon
<1> QED BY <1>3, <1>4, <1>6, <1>8, <1>9, InPhase, Zenon

\* The meta table is set to the best block that is left.
LEMMA SetMetaStep ==
    ASSUME TypeOK, Phases, fails = 0, SetMeta
    PROVE  TypeOK' /\ Phases'
<1>1. PICK w \in Blocks : Solid(w, db, next, stats) /\ (pc = "orphanMeta" => Height(w) < Height(node))
  BY Zenon DEF SetMeta, Phases, Deleted, Purged
<1>2. TableBest = w
  BY <1>1, BestIs, Zenon DEF Solid
<1>3. Height(w) <= Height(node) /\ Height(w) \in 0 .. MaxHeight
  BY <1>1, AncestorParent, ChainType, Zenon DEF Phases, Heights, Solid, Below
<1>4. /\ meta' = w /\ floor' = (IF pc = "checkMeta" THEN Height(w) ELSE floor)
      /\ pc' = IF pc = "orphanMeta" THEN "orphan" ELSE "purge"
      /\ UNCHANGED <<db, invalid, next, stats, mined, best, lastBlock, mode, cur, up, reg, stk, k, target, root, prev,
                     node, crashes, fails>>
  BY <1>2, Zenon DEF SetMeta, memory, env, bounds
<1>5. TypeOK'
  BY <1>3, <1>4 DEF TypeOK
<1>6. Heights'
  BY <1>3, <1>4, Zenon DEF Phases, Heights
<1>7. CASE pc = "orphanMeta"
  <2>1. pc' \in Syncing /\ Opening'
    BY <1>1, <1>4, <1>7, Zenon DEF Opening, Syncing
  <2> QED BY <1>5, <1>6, <2>1, InPhase, Zenon
<1>8. CASE pc # "orphanMeta"
  <2>1. pc' \in Halted /\ Stopped'
    BY <1>1, <1>4, <1>8, Zenon DEF Stopped, Halted, Solid
  <2> QED BY <1>5, <1>6, <2>1, InPhase, Zenon
<1> QED BY <1>7, <1>8, Zenon

\* The best blocks are read, and the meta table is not ahead.
LEMMA OpenStep ==
    ASSUME TypeOK, Phases, fails = 0, Open \/ MetaNotAhead
    PROVE  TypeOK' /\ Phases'
<1>1. /\ pc \in Halted /\ pc' \in {"check", "purge"} /\ floor' \in {floor, Height(meta)}
      /\ UNCHANGED <<db, invalid, next, stats, mined, meta, best, lastBlock, mode, cur, up, reg, stk, k, target, root,
                     prev, node, crashes, fails>>
  BY Zenon DEF Open, MetaNotAhead, tables, memory, env, bounds, work, Halted
<1>2. Height(meta) \in 0 .. MaxHeight
  BY ChainType, Zenon DEF TypeOK
<1>3. TypeOK'
  BY <1>1, <1>2 DEF TypeOK
<1>4. Heights'
  BY <1>1, HeightsKept, Zenon
<1>5. pc' \in Halted
  BY <1>1, Zenon DEF Halted
<1>6. Stopped'
  BY <1>1, Zenon DEF Phases, Stopped
<1> QED BY <1>3, <1>4, <1>5, <1>6, InPhase, Zenon

\* The ChainDB is created when the two best blocks agree.
LEMMA OpenedStep ==
    ASSUME TypeOK, Phases, fails = 0, NEW c \in Blocks, Opened(c)
    PROVE  TypeOK' /\ Phases'
<1>1. /\ pc = "purge" /\ meta = TableBest /\ best' = TableBest /\ lastBlock' = {} /\ floor' = Height(c)
      /\ pc' \in {"orphan", "exit"}
      /\ UNCHANGED <<db, invalid, next, stats, mined, meta, mode, cur, up, reg, stk, k, target, root, prev, node,
                     crashes, fails>>
  BY Zenon DEF Opened, PurgeNeeded, tables, env, bounds
<1>2. PICK w \in Blocks : Below(w, db, next, stats) /\ (meta = w => Solid(w, db, next, stats))
  BY <1>1, Zenon DEF Phases, Stopped, Halted
<1>3. TableBest = w
  BY <1>2, BestIs, Zenon
<1>4. Solid(meta, db, next, stats) /\ best' = meta /\ meta \in Blocks /\ Height(c) \in 0 .. MaxHeight
  BY <1>1, <1>2, <1>3, ChainType, Zenon
<1>5. TypeOK'
  BY <1>1, <1>4 DEF TypeOK
<1>6. Heights'
  BY <1>1, HeightsKept, Zenon
<1>7. CASE pc' = "orphan"
  <2>1. pc' \in Syncing /\ Opening'
    BY <1>1, <1>4, <1>7, Zenon DEF Opening, Syncing
  <2> QED BY <1>5, <1>6, <2>1, InPhase, Zenon
<1>8. CASE pc' = "exit"
  <2>1. pc' \in Halted /\ Stopped'
    BY <1>1, <1>4, <1>8, Zenon DEF Stopped, Halted, Solid
  <2> QED BY <1>5, <1>6, <2>1, InPhase, Zenon
<1> QED BY <1>1, <1>7, <1>8, Zenon

\* Down to the last block that the node has too, the chain is in place.
LEMMA StartSyncStep ==
    ASSUME TypeOK, Phases, fails = 0, StartSync
    PROVE  TypeOK' /\ Phases'
<1>1. /\ pc = "orphan" /\ pc' = "sync"
      /\ UNCHANGED <<db, invalid, next, stats, mined, meta, best, lastBlock, mode, cur, up, reg, stk, k, floor, target,
                     root, prev, node, crashes, fails>>
  BY Zenon DEF StartSync, tables, env, bounds, memory, work
<1>2. TypeOK'
  BY <1>1 DEF TypeOK
<1>3. Heights'
  BY <1>1, HeightsKept, Zenon
<1>4. pc' \in Syncing /\ Opening'
  BY <1>1, Zenon DEF Phases, Opening, Syncing
<1> QED BY <1>2, <1>3, <1>4, InPhase, Zenon

\* A block of the node's chain is stored, or refused.
LEMMA SyncBlockStep ==
    ASSUME TypeOK, Phases, fails = 0, SyncBlock
    PROVE  TypeOK' /\ Phases'
<1> DEFINE b == Chain[node][Height(meta) + 1]
<1>1. /\ pc = "sync" /\ Height(meta) < Height(node)
      /\ IF Parent(b) = meta THEN StartStore(b, "sync") /\ UNCHANGED prev
         ELSE pc' = "exit" /\ UNCHANGED <<tables, memory, work, env, bounds>>
  BY Zenon DEF SyncBlock
<1>2. Solid(meta, db, next, stats) /\ meta \in Blocks /\ node \in Blocks
  BY <1>1, Zenon DEF Phases, Opening, Syncing, TypeOK
<1>3. Height(meta) \in Nat /\ Height(node) \in Nat
  BY <1>2, HeightNat, Zenon
<1>4. Height(meta) + 1 \in 1 .. Height(node)
  BY <1>1, <1>3
<1>5. b \in Blocks /\ Height(b) = Height(meta) + 1
  BY <1>2, <1>4, OnChain, Zenon
<1>6. b # Genesis /\ b # meta /\ Height(b) <= Height(node)
  BY <1>2, <1>3, <1>4, <1>5, GenesisHeight
<1> HIDE DEF b
<1>7. CASE Parent(b) = meta
  <2>1. StartStore(b, "sync") /\ prev' = prev
    BY <1>1, <1>7, Zenon
  <2>2. Solid(Parent(b), db, next, stats) /\ prev' \in Blocks \cup {NoBlock}
    BY <1>2, <1>7, <2>1, Zenon DEF TypeOK
  <2> QED BY <1>5, <1>6, <2>1, <2>2, StartStoreStep, Zenon
<1>8. CASE Parent(b) # meta
  <2>1. /\ pc' = "exit"
        /\ UNCHANGED <<db, invalid, next, stats, mined, meta, best, lastBlock, mode, cur, up, reg, stk, k, floor,
                       target, root, prev, node, crashes, fails>>
    BY <1>1, <1>8, Zenon DEF tables, env, bounds, memory, work
  <2>2. TypeOK'
    BY <2>1 DEF TypeOK
  <2>3. Heights'
    BY <2>1, HeightsKept, Zenon
  <2>4. pc' \in Halted /\ Stopped'
    BY <1>2, <2>1, Zenon DEF Stopped, Halted, Solid
  <2> QED BY <2>2, <2>3, <2>4, InPhase, Zenon
<1> QED BY <1>7, <1>8, Zenon

\* The database has reached the node's best block, and the best block in memory
\* is that of the tables, also after orphaned blocks were purged.
LEMMA SyncedStep ==
    ASSUME TypeOK, Phases, fails = 0, Synced
    PROVE  TypeOK' /\ Phases'
<1>1. /\ pc = "sync" /\ Height(meta) >= Height(node) /\ prev' = best /\ pc' = "live"
      /\ UNCHANGED <<db, invalid, next, stats, mined, meta, best, lastBlock, mode, cur, up, reg, stk, k, floor, target,
                     root, node, crashes, fails>>
  BY Zenon DEF Synced, tables, bounds, memory, work
<1>2. Solid(meta, db, next, stats) /\ best = meta
  <2>1. Height(meta) \in Nat /\ Height(node) \in Nat
    BY HeightNat, Zenon DEF TypeOK
  <2>2. Solid(meta, db, next, stats) /\ (best = meta \/ Height(meta) < Height(node))
    BY <1>1, Zenon DEF Phases, Opening, Syncing
  <2> QED BY <1>1, <2>1, <2>2, SMTT(60)
<1>3. TypeOK'
  BY <1>1 DEF TypeOK
<1>4. Heights'
  BY <1>1, HeightsKept, Zenon
<1>5. Resting'
  BY <1>1, <1>2, Zenon DEF Resting
<1> QED BY <1>1, <1>3, <1>4, <1>5, InPhase, Zenon

\* A process that stops leaves the tables as they are.
LEMMA StopStep ==
    ASSUME TypeOK, Phases, fails = 0, Stop, crashes' \in 0 .. MaxCrashes
    PROVE  TypeOK' /\ Phases'
<1>1. /\ pc' = "down" /\ mode' = "sync" /\ best' = NoBlock /\ lastBlock' = {} /\ cur' = NoBlock /\ up' = NoBlock
      /\ reg' = 0 /\ stk' = 0 /\ k' = 0 /\ floor' = 0 /\ target' = NoBlock /\ root' = NoBlock /\ prev' = NoBlock
      /\ UNCHANGED <<db, invalid, next, stats, mined, meta, node, fails>>
  BY Zenon DEF Stop, tables
<1>2. TypeOK'
  BY <1>1, HeightAssumption, SMTT(60) DEF TypeOK
<1>3. Heights'
  BY <1>1, ChainAssumption, Zenon DEF Phases, Heights
<1>4. pc' \in Halted
  BY <1>1, Zenon DEF Halted
<1>5. Stopped'
  BY <1>1, SomeBest, Zenon DEF Stopped
<1> QED BY <1>2, <1>3, <1>4, <1>5, InPhase, Zenon

-----------------------------------------------------------------------------
(* The invariant is preserved. *)

\* The invariant is inductive.
LEMMA NextIInv == IInv /\ [Next]_vars => IInv'
<1> SUFFICES ASSUME IInv, [Next]_vars PROVE IInv'
  OBVIOUS
<1>1. fails' \in Nat /\ (fails' = 0 => fails = 0)
  <2>1. fails' = fails \/ Fail \/ FailOfItself
    BY FailsStep, Zenon
  <2> QED BY <2>1 DEF Fail, FailOfItself, IInv
<1> SUFFICES ASSUME fails = 0, fails' = 0, TypeOK, Phases PROVE TypeOK' /\ Phases'
  BY <1>1, Zenon DEF IInv
<1>2. CASE Storing
  BY <1>2, StoringStep, Zenon
<1>3. CASE Switching
  BY <1>3, SideUpdateStep, SideNextStep, ConnectStep, ConnectedStep, NoFail, Zenon DEF Switching, ConnectRejected
<1>4. CASE Starting
  <2>1. CASE Exit
    BY <2>1, StopStep, Zenon DEF Exit, TypeOK
  <2> QED BY <1>4, <2>1, OpenStep, PurgeStep, SetMetaStep, OpenedStep, StartSyncStep, SyncBlockStep, SyncedStep, Zenon
          DEF Starting
<1>5. CASE \E b \in Blocks : NodeMoves(b) \/ NewBlock(b) \/ NewBlockRejected(b) \/ Reorg(b)
  BY <1>5, NodeMovesStep, NewBlockStep, ReorgStep, NoFail, SMTT(60) DEF NewBlockRejected
<1>6. CASE Crash
  <2>1. crashes' \in 0 .. MaxCrashes
    BY <1>6, BoundAssumption, SMTT(60) DEF Crash, TypeOK
  <2> QED BY <1>6, <2>1, StopStep, Zenon DEF Crash
<1>7. CASE UNCHANGED vars
  <2>1. TypeOK'
    BY <1>7, SMTT(60) DEF vars, TypeOK
  <2>2. Heights' /\ Stopped' /\ Deleted' /\ Opening' /\ Resting'
    BY <1>7, ZenonT(60) DEF vars, Phases, Heights, Stopped, Deleted, Opening, Resting
  <2>3. Stored' /\ StoredEarly' /\ StoredLate' /\ Siding' /\ Connecting'
    BY <1>7, ZenonT(30) DEF vars, Phases, Stored, StoredEarly, StoredLate, Siding, Connecting
  <2> QED BY <2>1, <2>2, <2>3, Zenon DEF Phases
<1> QED BY <1>2, <1>3, <1>4, <1>5, <1>6, <1>7, Zenon DEF Next

-----------------------------------------------------------------------------
(* The flags, the miners table and the rows of blocks off the main chain, as long
   as no statement fails.  Each says of the best block of the blocks table, or of
   its parent while the best block may be incomplete, that its whole chain is
   accounted for. *)

\* The best block of the blocks table in each phase.
Top ==
    /\ TableBest \in Blocks
    /\ pc \in Early => cur \in Blocks /\ cur # Genesis /\ TableBest = Parent(cur)
    /\ pc \in Late => cur \in Blocks /\ cur # Genesis /\ TableBest = cur /\ meta # cur
    /\ pc \in Syncing => TableBest = meta
    /\ pc = "live" => TableBest = meta /\ best = meta
    /\ pc = "side" => /\ cur \in Blocks /\ cur # Genesis /\ k \in 1 .. 7
                      /\ TableBest = (IF k = 1 THEN cur ELSE Parent(cur))
                      /\ k > 1 => up = Parent(cur)
    /\ pc = "connect" => TableBest = cur

\* Every block of w's chain that its successor there disapproves is flagged.
Marked(w, flags) ==
    \A b \in Disapproving \ {Genesis} :
        IsAncestor(b, w) => \A t \in ValidTables : Parent(b) \in flags[t]

MinedOn(w, m) == {b \in Blocks : IsAncestor(b, w) /\ Miner[b] = m}

\* Every block of w's chain is counted.
Counted(w, n) == \A m \in Miners : n[m] >= Cardinality(MinedOn(w, m))

\* Only a process that ended leaves a best block that may not be complete.
Complete == pc \in Halted => meta = TableBest

\* The blocks without a valid row in each table.
Void == [t \in ValidTables |-> {b \in Blocks : NoneValid(t, b)}]

Flags ==
    /\ TableBest # Genesis => Marked(Parent(TableBest), Void)
    /\ Complete /\ pc \notin {"miners", "chain", "last", "invalid"} => Marked(TableBest, Void)
    /\ pc = "invalid" => cur \in Disapproving /\ \A i \in 1 .. k - 1 : Parent(cur) \in Void[InvalidSteps[i]]

Counts ==
    /\ TableBest # Genesis => Counted(Parent(TableBest), mined)
    /\ Complete /\ pc # "miners" => Counted(TableBest, mined)
    /\ pc = "side" => Counted(cur, mined)

\* Rows of the main chain, of the block that is stored, and those that
\* TipToSideChain has not come to.
Rows ==
    crashes = 0 =>
        \A t \in DataTables, b \in Blocks :
            HasMainRows(t, b) =>
                \/ IsAncestor(b, TableBest)
                \/ pc \in Early /\ b = cur
                \/ pc = "side" /\ b = cur /\ \A i \in 1 .. k - 1 : t \notin SideSteps[i]

Extra == fails = 0 => RowsTypeOK /\ Flags /\ Counts /\ Rows

-----------------------------------------------------------------------------
\* The invariant of the phases says which block is the best.
LEMMA TopIs == TypeOK /\ Phases => Top
<1> SUFFICES ASSUME TypeOK, Phases PROVE Top
  OBVIOUS
<1>1. \A w \in Blocks : Below(w, db, next, stats) => TableBest = w
  BY BestIs
<1>2. TableBest \in Blocks
  BY <1>1, SomeBest, Zenon
<1>3. ASSUME pc \in Early
      PROVE  cur \in Blocks /\ cur # Genesis /\ TableBest = Parent(cur)
  <2>1. cur \in Blocks /\ cur # Genesis /\ Below(Parent(cur), db, next, stats)
    BY <1>3, Zenon DEF Phases, Stored, StoredEarly, Solid
  <2>2. Parent(cur) \in Blocks
    BY <2>1, ProperAncestor, Zenon
  <2> QED BY <1>1, <2>1, <2>2, Zenon
<1>4. ASSUME pc \in Late
      PROVE  cur \in Blocks /\ cur # Genesis /\ TableBest = cur /\ meta # cur
  BY <1>1, <1>4, Zenon DEF Phases, Stored, StoredLate
<1>5. pc \in Syncing => TableBest = meta
  BY <1>1, Zenon DEF Phases, Opening, Solid, TypeOK
<1>6. pc = "live" => TableBest = meta /\ best = meta
  BY <1>1, Zenon DEF Phases, Resting, Solid, TypeOK
<1>7. ASSUME pc = "side"
      PROVE  /\ cur \in Blocks /\ cur # Genesis /\ k \in 1 .. 7
             /\ TableBest = (IF k = 1 THEN cur ELSE Parent(cur))
             /\ k > 1 => up = Parent(cur)
  <2>1. /\ cur \in Blocks /\ cur # Genesis /\ Parent(cur) \in Blocks /\ k \in 1 .. 7
        /\ k = 1 => Solid(cur, db, next, stats)
        /\ k > 1 => up = Parent(cur) /\ Solid(Parent(cur), db, next, stats)
    BY <1>7, SideFacts, Zenon
  <2>2. k = 1 \/ (k # 1 /\ k > 1)
    BY <2>1
  <2> QED BY <1>1, <2>1, <2>2, Zenon DEF Solid
<1>8. pc = "connect" => TableBest = cur
  BY <1>1, Zenon DEF Phases, Connecting, Solid
<1> QED BY <1>2, <1>3, <1>4, <1>5, <1>6, <1>7, <1>8, Zenon DEF Top

\* The same after a step.
LEMMA TopIsPrime == TypeOK' /\ Phases' => Top'
BY TopIs, PTL

-----------------------------------------------------------------------------
(* Chains that get longer or shorter by one block. *)

\* A chain is accounted for if its end's parent's is, and the end.
LEMMA MarkedParent ==
    ASSUME NEW w \in Blocks, w # Genesis, NEW flags
    PROVE  /\ Marked(w, flags) => Marked(Parent(w), flags)
           /\ Marked(Parent(w), flags) /\ (w \in Disapproving => \A t \in ValidTables : Parent(w) \in flags[t])
                 => Marked(w, flags)
<1>1. Disapproving \subseteq Blocks
  BY DataAssumption
<1>2. \A b \in Blocks : IsAncestor(b, Parent(w)) <=> IsAncestor(b, w) /\ b # w
  BY ProperAncestor, Zenon
<1> QED BY <1>1, <1>2, Zenon DEF Marked

\* An upsert, or a deletion, of rows of c resets no flag that the chain of its
\* parent needs.
LEMMA MarkedKept ==
    ASSUME NEW c \in Blocks, c # Genesis, NEW w \in Blocks, IsAncestor(w, Parent(c)), NEW i, NEW i2, Marked(w, i),
           \A t \in ValidTables : \A b \in Blocks : b \in i[t] /\ b # c => b \in i2[t]
    PROVE  Marked(w, i2)
<1> SUFFICES ASSUME NEW b \in Disapproving \ {Genesis}, IsAncestor(b, w), NEW t \in ValidTables
             PROVE  Parent(b) \in i2[t]
  BY Zenon DEF Marked
<1>1. b \in Blocks /\ b # Genesis /\ Parent(c) \in Blocks
  BY DataAssumption, ProperAncestor, Zenon
<1>2. /\ Parent(b) \in Blocks /\ Height(Parent(b)) = Height(b) - 1 /\ Height(Parent(c)) = Height(c) - 1
      /\ Height(b) <= Height(w) /\ Height(w) <= Height(Parent(c))
  BY <1>1, ParentFacts, AncestorHeight, Zenon
<1>3. Height(b) \in Nat /\ Height(w) \in Nat /\ Height(c) \in Nat
  BY <1>1, HeightNat, Zenon
<1>4. Parent(b) # c
  BY <1>2, <1>3
<1>5. Parent(b) \in i[t]
  BY <1>1, Zenon DEF Marked
<1> QED BY <1>2, <1>4, <1>5, Zenon

-----------------------------------------------------------------------------
(* Rows that several blocks write.  Void and HasMainRows say what is known of a
   block's own rows and of those it shares. *)

\* Steps that write no row leave both as they are.
LEMMA SameRows ==
    /\ UNCHANGED <<invalid, shared, ids>> => Void' = Void
    /\ UNCHANGED <<db, shared, ids>> => \A t \in DataTables, b \in Blocks : HasMainRows(t, b)' <=> HasMainRows(t, b)
<1>1. UNCHANGED <<invalid, shared, ids>> => Void' = Void
  BY Zenon DEF Void, NoneValid
<1>2. UNCHANGED <<db, shared, ids>> => \A t \in DataTables, b \in Blocks : HasMainRows(t, b)' <=> HasMainRows(t, b)
  BY Zenon DEF HasMainRows
<1> QED BY <1>1, <1>2, Zenon

\* The rows that an upsert takes over become the stored block's.
LEMMA UpsertRows ==
    ASSUME db \in [Tables -> [Blocks -> {"none", "main", "side"}]], cur \in Blocks, NEW ts, Upsert(ts, cur)
    PROVE  /\ \A t \in ValidTables : \A b \in Blocks : b \in Void[t] /\ b # cur => b \in Void'[t]
           /\ \A t \in DataTables, b \in Blocks :
                 HasMainRows(t, b)' => HasMainRows(t, b) \/ (b = cur /\ ts # {"blocks"})
<1>1. \A t \in SharedTables, x \in Txs :
          shared'[t][x] = shared[t][x] \/ (t \in ts /\ shared'[t][x] = [block |-> cur, flag |-> "main", valid |-> TRUE])
  BY Zenon DEF Upsert
<1>2. \A t \in SharedTables, x \in Txs : shared'[t][x] = shared[t][x] \/ (t \in ts /\ shared'[t][x].block = cur)
  BY <1>1
<1>3. \A x \in Txs, b \in Blocks : b \in ids'[x] => b \in ids[x] \/ (b = cur /\ ts # {"blocks"})
  BY Zenon DEF Upsert
<1>4. \A t \in ValidTables : \A b \in Blocks : b \in invalid[t] /\ b # cur => b \in invalid'[t]
  BY Zenon DEF Upsert
<1>5. ASSUME NEW t \in ValidTables, NEW b \in Blocks, NoneValid(t, b), b # cur
      PROVE  NoneValid(t, b)'
  BY <1>2, <1>3, <1>4, <1>5, Zenon DEF NoneValid
<1>6. ASSUME NEW t \in DataTables, NEW b \in Blocks, db'[t][b] = "main"
      PROVE  db[t][b] = "main" \/ (b = cur /\ ts # {"blocks"})
  <2>1. t \in Tables /\ t # "blocks"
    BY Zenon DEF Tables, DataTables
  <2> QED BY <1>6, <2>1, Zenon DEF Upsert
<1>7. ASSUME NEW t \in SharedTables, NEW b \in Blocks, NEW x \in Txs,
             shared'[t][x].flag = "main" /\ shared'[t][x].block = b /\ b \in ids'[x]
      PROVE  \/ shared[t][x].flag = "main" /\ shared[t][x].block = b /\ b \in ids[x]
             \/ b = cur /\ ts # {"blocks"}
  <2>1. t # "blocks"
    BY Zenon DEF SharedTables
  <2> QED BY <1>2, <1>3, <1>7, <2>1, Zenon
<1> QED BY <1>5, <1>6, <1>7, Zenon DEF Void, HasMainRows

\* TipToSideChain takes the flags of the block's rows in one or two tables.
LEMMA SideRows ==
    ASSUME RowsTypeOK, db \in [Tables -> [Blocks -> {"none", "main", "side"}]], cur \in Blocks, NEW ts,
           ToSide(ts, cur), UNCHANGED <<invalid, ids>>
    PROVE  /\ \A t \in ValidTables : \A b \in Blocks : b \in Void[t] => b \in Void'[t]
           /\ \A t \in DataTables, b \in Blocks : HasMainRows(t, b)' => HasMainRows(t, b) /\ (b = cur => t \notin ts)
<1>1. \A t \in SharedTables, x \in Txs :
          \/ shared'[t][x] = shared[t][x] /\ (t \notin ts \/ cur \notin ids[x] \/ shared[t][x].flag = "none")
          \/ shared'[t][x] = [shared[t][x] EXCEPT !.flag = "side"]
  BY Zenon DEF ToSide
<1>2. \A t \in SharedTables, x \in Txs : 
          /\ shared'[t][x].block = shared[t][x].block /\ shared'[t][x].valid = shared[t][x].valid
          /\ shared'[t][x].flag = "main" => /\ shared[t][x].flag = "main"
                                            /\ t \notin ts \/ cur \notin ids[x]
  <2> TAKE t \in SharedTables, x \in Txs
  <2>1. shared[t][x] \in [block : Blocks \cup {NoBlock}, flag : {"none", "main", "side"}, valid : BOOLEAN]
    BY Zenon DEF RowsTypeOK
  <2>2. CASE shared'[t][x] = shared[t][x] /\ (t \notin ts \/ cur \notin ids[x] \/ shared[t][x].flag = "none")
    BY <2>2, SMT
  <2>3. CASE shared'[t][x] = [shared[t][x] EXCEPT !.flag = "side"]
    BY <2>1, <2>3, SMT
  <2> QED BY <1>1, <2>2, <2>3, Zenon
<1>3. ASSUME NEW t \in ValidTables, NEW b \in Blocks, NoneValid(t, b)
      PROVE  NoneValid(t, b)'
  BY <1>2, <1>3, Zenon DEF NoneValid
<1>4. ASSUME NEW t \in DataTables, NEW b \in Blocks, db'[t][b] = "main"
      PROVE  db[t][b] = "main" /\ (b = cur => t \notin ts)
  <2>1. t \in Tables
    BY Zenon DEF Tables
  <2> QED BY <1>4, <2>1, Zenon DEF ToSide
<1>5. ASSUME NEW t \in DataTables, NEW b \in Blocks, HasMainRows(t, b)'
      PROVE  HasMainRows(t, b) /\ (b = cur => t \notin ts)
  BY <1>2, <1>4, <1>5, Zenon DEF HasMainRows
<1> QED BY <1>3, <1>5, Zenon DEF Void

\* updateLastBlock leaves no row of the parent valid in a table.
LEMMA SetInvalidRows ==
    ASSUME RowsTypeOK, invalid \in [ValidTables -> SUBSET Blocks], Parent(cur) \in Blocks,
           InvalidSteps[k] \in ValidTables, SetInvalid(InvalidSteps[k], Parent(cur)), UNCHANGED <<db, ids>>
    PROVE  /\ \A t \in ValidTables : Void[t] \subseteq Void'[t]
           /\ Parent(cur) \in Void'[InvalidSteps[k]]
           /\ \A t \in DataTables, b \in Blocks : HasMainRows(t, b)' => HasMainRows(t, b)
<1> DEFINE s == InvalidSteps[k]
           p == Parent(cur)
<1>1. \A t \in SharedTables, x \in Txs :
          \/ shared'[t][x] = shared[t][x] /\ ~(t = s /\ (IF t = "rvins" THEN shared[t][x].block = p ELSE p \in ids[x]))
          \/ shared'[t][x] = [shared[t][x] EXCEPT !.valid = FALSE]
  BY Zenon DEF SetInvalid
<1>2. \A t \in SharedTables, x \in Txs :
          /\ shared'[t][x].block = shared[t][x].block /\ shared'[t][x].flag = shared[t][x].flag
          /\ ~shared'[t][x].valid \/ (shared'[t][x].valid = shared[t][x].valid 
                /\ ~(t = s /\ (IF t = "rvins" THEN shared[t][x].block = p ELSE p \in ids[x])))
  <2> TAKE t \in SharedTables, x \in Txs
  <2> HIDE DEF s, p
  <2>1. shared[t][x] \in [block : Blocks \cup {NoBlock}, flag : {"none", "main", "side"}, valid : BOOLEAN]
    BY Zenon DEF RowsTypeOK
  <2>2. CASE shared'[t][x] = [shared[t][x] EXCEPT !.valid = FALSE]
    BY <2>1, <2>2, SMT
  <2> QED BY <1>1, <2>2, Zenon
<1>3. \A t \in ValidTables : invalid[t] \subseteq invalid'[t] /\ (t = s => p \in invalid'[t])
  BY Zenon DEF SetInvalid
<1> HIDE DEF s, p
<1>4. ASSUME NEW t \in ValidTables, NEW b \in Blocks, NoneValid(t, b)
      PROVE  NoneValid(t, b)'
  BY <1>2, <1>3, <1>4, Zenon DEF NoneValid
<1>5. ASSUME NEW t \in ValidTables, NEW b \in Blocks, t = s, b = p
      PROVE  NoneValid(t, b)'
  <2>1. t \in SharedTables => t \in {"rvins", "raddrs"}
    BY Zenon DEF SharedTables, ValidTables
  <2>2. b \in invalid'[t]
    BY <1>3, <1>5, Zenon
  <2>3. ASSUME NEW x \in Txs, t \in SharedTables, shared'[t][x].block = b, t = "raddrs" => b \in ids'[x]
        PROVE  ~shared'[t][x].valid
    <3>1. CASE t = "rvins"
      BY <1>2, <1>5, <2>3, <3>1, Zenon
    <3>2. CASE t # "rvins"
      BY <1>2, <1>5, <2>1, <2>3, <3>2, Zenon
    <3> QED BY <3>1, <3>2, Zenon
  <2> QED BY <2>2, <2>3, Zenon DEF NoneValid
<1>6. ASSUME NEW t \in DataTables, NEW b \in Blocks, HasMainRows(t, b)'
      PROVE  HasMainRows(t, b)
  BY <1>2, <1>6, Zenon DEF HasMainRows
<1> QED BY <1>4, <1>5, <1>6, Zenon DEF Void, s, p

\* A purge takes the rows that the block wrote or shares.
LEMMA DeleteRows ==
    ASSUME db \in [Tables -> [Blocks -> {"none", "main", "side"}]], NEW w \in Blocks, NEW then,
           DeleteBlockData(w, then)
    PROVE  /\ \A t \in ValidTables : \A b \in Blocks : b \in Void[t] /\ b # w => b \in Void'[t]
           /\ \A t \in DataTables, b \in Blocks : HasMainRows(t, b)' => HasMainRows(t, b) /\ b # w
<1>1. \A t \in SharedTables, x \in Txs :
          /\ w \in ids[x] => shared'[t][x] = NoRow /\ ids'[x] = {}
          /\ w \notin ids[x] => shared'[t][x] = shared[t][x] /\ ids'[x] = ids[x]
  BY Zenon DEF DeleteBlockData
<1>2. NoRow.valid = FALSE
  BY DEF NoRow
<1>3. \A t \in ValidTables : \A b \in Blocks : b \in invalid[t] /\ b # w => b \in invalid'[t]
  BY Zenon DEF DeleteBlockData
<1>4. ASSUME NEW t \in ValidTables, NEW b \in Blocks, NoneValid(t, b), b # w
      PROVE  NoneValid(t, b)'
  BY <1>1, <1>2, <1>3, <1>4, Zenon DEF NoneValid
<1>5. ASSUME NEW t \in DataTables, NEW b \in Blocks, db'[t][b] = "main"
      PROVE  db[t][b] = "main" /\ b # w
  <2>1. t \in Tables
    BY Zenon DEF Tables
  <2> QED BY <1>5, <2>1, Zenon DEF DeleteBlockData
<1>6. ASSUME NEW t \in DataTables, NEW b \in Blocks, HasMainRows(t, b)'
      PROVE  HasMainRows(t, b) /\ b # w
  BY <1>1, <1>5, <1>6, Zenon DEF HasMainRows
<1> QED BY <1>4, <1>6, Zenon DEF Void

-----------------------------------------------------------------------------
\* The last block of a chain is one more block of its miner: MinedParent, below.
MinersAdd ==
    \A w \in Blocks, m \in Miners :
        /\ Cardinality(MinedOn(w, m)) \in Nat
        /\ w # Genesis =>
              /\ Cardinality(MinedOn(Parent(w), m)) \in Nat
              /\ Cardinality(MinedOn(w, m)) = Cardinality(MinedOn(Parent(w), m)) + (IF Miner[w] = m THEN 1 ELSE 0)

\* What counts a chain counts it without its end.
LEMMA CountedParent ==
    ASSUME MinersAdd, NEW w \in Blocks, w # Genesis, NEW n \in [Miners -> Nat]
    PROVE  Counted(w, n) => Counted(Parent(w), n)
<1> SUFFICES ASSUME NEW m \in Miners, n[m] >= Cardinality(MinedOn(w, m))
             PROVE  n[m] >= Cardinality(MinedOn(Parent(w), m))
  BY DEF Counted
<1>1. /\ Cardinality(MinedOn(w, m)) \in Nat /\ Cardinality(MinedOn(Parent(w), m)) \in Nat
      /\ Cardinality(MinedOn(w, m)) = Cardinality(MinedOn(Parent(w), m)) + (IF Miner[w] = m THEN 1 ELSE 0)
  BY Zenon DEF MinersAdd
<1>2. n[m] \in Nat
  OBVIOUS
<1>3. Cardinality(MinedOn(w, m)) >= Cardinality(MinedOn(Parent(w), m))
  BY <1>1
<1> QED BY <1>1, <1>2, <1>3

-----------------------------------------------------------------------------
(* Steps. *)

\* A step that leaves the rows, the flags and the miners, between phases in which
\* the best block is complete.
LEMMA StillStep ==
    ASSUME Flags, Counts, Rows, UNCHANGED <<db, invalid, shared, ids, mined, crashes>>,
           {pc, pc'} \cap {"miners", "chain", "last", "invalid", "side"} = {},
           Complete' => Complete, pc \in Early => pc' \in Early /\ cur' = cur
    PROVE  Flags' /\ Counts' /\ Rows'
<1>1. TableBest' = TableBest
  BY SameBest, Zenon
<1>2. pc \notin {"miners", "chain", "last", "invalid", "side"} /\ pc' \notin {"miners", "chain", "last", "invalid", "side"}
  BY Zenon
<1>3. Flags'
  BY <1>1, <1>2, SameRows, Zenon DEF Flags
<1>4. Counts'
  BY <1>1, <1>2, Zenon DEF Counts
<1>5. Rows'
  BY <1>1, <1>2, SameRows, Zenon DEF Rows
<1> QED BY <1>3, <1>4, <1>5, SMTT(60)

\* Most of the steps are of that kind.
LEMMA StillSteps ==
    ASSUME TypeOK, Phases, Flags, Counts, Rows, fails = 0, fails' = 0,
           \/ TreesDone \/ InsertBlockStats \/ SetDBBestBlock \/ Connected \/ Open \/ MetaNotAhead \/ SetMeta
           \/ StartSync \/ SyncBlock \/ Synced \/ Exit
           \/ \E b \in Blocks : NewBlock(b) \/ Connect(b) \/ Opened(b)
    PROVE  Flags' /\ Counts' /\ Rows'
<1>0. UNCHANGED db => TableBest' = TableBest
  BY SameBest, Zenon
<1>1. CASE TreesDone
  <2>1. pc = "trees" /\ reg >= 2 /\ stk >= 4 /\ cur' = cur /\ UNCHANGED <<db, invalid, shared, ids, mined, crashes>>
    BY <1>1, StepLists, Zenon DEF TreesDone, tables, work, bounds
  <2>2. reg = 2 /\ stk = 4
    BY <2>1, EarlyFacts, SMTT(60) DEF Early
  <2>3. pc' = "block"
    BY <1>1, <2>2 DEF TreesDone, Failed
  <2> QED BY <2>1, <2>3, StillStep, Zenon DEF Complete, Early, Halted
<1>2. CASE InsertBlockStats
  <2>1. pc = "stats" /\ pc' = "meta" /\ UNCHANGED <<db, invalid, shared, ids, mined, crashes>>
    BY <1>2, NoFail, Zenon DEF InsertBlockStats, StoreFails
  <2> QED BY <2>1, StillStep, Zenon DEF Complete, Early, Halted
<1>3. CASE SetDBBestBlock
  <2>1. pc = "meta" /\ Return(TRUE) /\ UNCHANGED <<db, invalid, shared, ids, mined, crashes>>
    BY <1>3, NoFail, Zenon DEF SetDBBestBlock, StoreFails
  <2>2. pc' \in {"sync", "connect", "live"}
    BY <2>1, Zenon DEF Return, TypeOK
  <2> QED BY <2>1, <2>2, StillStep, Zenon DEF Complete, Early, Halted
<1>4. CASE Connected
  <2>1. pc = "connect" /\ pc' = "live" /\ UNCHANGED <<db, invalid, shared, ids, mined, crashes>>
    BY <1>4, Zenon DEF Connected, tables, bounds
  <2> QED BY <2>1, StillStep, Zenon DEF Complete, Early, Halted
<1>5. CASE Open \/ MetaNotAhead
  <2>1. pc \in {"down", "check"} /\ pc' \in {"check", "purge"} /\ UNCHANGED <<db, invalid, shared, ids, mined, crashes, meta>>
    BY <1>5, Zenon DEF Open, MetaNotAhead, tables, bounds
  <2> QED BY <1>0, <2>1, StillStep, Zenon DEF Complete, Early, Halted
<1>6. CASE SetMeta
  <2>1. pc \in Purged /\ pc' \in {"orphan", "purge"} /\ UNCHANGED <<db, invalid, shared, ids, mined, crashes>>
    BY <1>6, Zenon DEF SetMeta, Purged, bounds
  <2> QED BY <2>1, StillStep, Zenon DEF Complete, Early, Halted, Purged
<1>7. CASE StartSync \/ Synced
  <2>1. pc \in {"orphan", "sync"} /\ pc' \in {"sync", "live"} /\ UNCHANGED <<db, invalid, shared, ids, mined, crashes>>
    BY <1>7, Zenon DEF StartSync, Synced, tables, bounds
  <2> QED BY <2>1, StillStep, Zenon DEF Complete, Early, Halted
<1>8. CASE SyncBlock
  <2>1. pc = "sync" /\ pc' \in {"trees", "exit"} /\ UNCHANGED <<db, invalid, shared, ids, mined, crashes>>
    BY <1>8, Zenon DEF SyncBlock, StartStore, tables, bounds
  <2> QED BY <2>1, StillStep, Zenon DEF Complete, Early, Halted
<1>9. CASE Exit
  <2>1. pc = "exit" /\ pc' = "down" /\ UNCHANGED <<db, invalid, shared, ids, mined, crashes, meta>>
    BY <1>9, Zenon DEF Exit, Stop, tables
  <2> QED BY <1>0, <2>1, StillStep, Zenon DEF Complete, Early, Halted
<1>10. ASSUME NEW b \in Blocks, NewBlock(b) \/ Connect(b)
       PROVE  Flags' /\ Counts' /\ Rows'
  <2>1. pc \in {"live", "connect"} /\ pc' = "trees" /\ UNCHANGED <<db, invalid, shared, ids, mined, crashes>>
    BY <1>10, Zenon DEF NewBlock, Connect, StartStore, tables, bounds
  <2> QED BY <2>1, StillStep, Zenon DEF Complete, Early, Halted
<1>11. ASSUME NEW b \in Blocks, Opened(b)
       PROVE  Flags' /\ Counts' /\ Rows'
  <2>1. pc = "purge" /\ meta = TableBest /\ pc' \in {"orphan", "exit"} /\ UNCHANGED <<db, invalid, shared, ids, mined, crashes>>
    BY <1>11, Zenon DEF Opened, PurgeNeeded, tables, bounds
  <2> QED BY <2>1, StillStep, Zenon DEF Complete, Early, Halted
<1> QED BY <1>1, <1>2, <1>3, <1>4, <1>5, <1>6, <1>7, <1>8, <1>9, <1>10, <1>11, Zenon

\* The commits of the two trees leave rows of the stored block.
LEMMA CommitRows ==
    ASSUME TypeOK, Phases, TypeOK', Phases', Flags, Counts, Rows, RegularCommit \/ StakeCommit
    PROVE  Flags' /\ Counts' /\ Rows'
<1>1. /\ pc = "trees" /\ pc' = "trees" /\ UNCHANGED <<cur, meta, mined, crashes>>
      /\ \E ts : Upsert(ts, cur)
  BY Zenon DEF RegularCommit, StakeCommit, bounds
<1>2. PICK ts : Upsert(ts, cur)
  BY <1>1
<1>3. Top /\ Top'
  BY TopIs, TopIsPrime
<1>4. /\ cur \in Blocks /\ cur # Genesis /\ TableBest = Parent(cur) /\ TableBest' = Parent(cur)
      /\ Parent(cur) \in Blocks
  BY <1>1, <1>3, Zenon DEF Top, Early
<1>5. \A t \in ValidTables : \A b \in Blocks : b \in Void[t] /\ b # cur => b \in Void'[t]
  BY <1>2, <1>4, UpsertRows, Zenon DEF TypeOK
<1>6. \A t \in DataTables, b \in Blocks : HasMainRows(t, b)' => HasMainRows(t, b) \/ b = cur
  BY <1>2, <1>4, UpsertRows, Zenon DEF TypeOK
<1>7. Complete /\ Complete'
  BY <1>1, Zenon DEF Complete, Halted
<1>8. Marked(Parent(cur), Void')
  <2>1. Marked(Parent(cur), Void) /\ IsAncestor(Parent(cur), Parent(cur))
    BY <1>1, <1>4, <1>7, AncestorParent, Zenon DEF Flags
  <2> QED BY <1>4, <1>5, <2>1, MarkedKept, Zenon
<1>9. Flags'
  BY <1>1, <1>4, <1>8, MarkedParent, Zenon DEF Flags
<1>10. Counts'
  BY <1>1, <1>4, <1>7, Zenon DEF Counts
<1>11. Rows'
  BY <1>1, <1>4, <1>6, Zenon DEF Rows, Early
<1> QED BY <1>9, <1>10, <1>11

\* The blocks row puts the stored block on top; what is known is known of its
\* parent.
LEMMA InsertBlockRows ==
    ASSUME TypeOK, Phases, TypeOK', Phases', Flags, Counts, Rows, fails = 0, fails' = 0, InsertBlock
    PROVE  Flags' /\ Counts' /\ Rows'
<1>1. pc = "block" /\ Upsert({"blocks"}, cur) /\ pc' = "miners" /\ UNCHANGED <<cur, meta, mined, crashes>>
  BY NoFail, Zenon DEF InsertBlock, StoreFails
<1>2. Top /\ Top'
  BY TopIs, TopIsPrime
<1>3. cur \in Blocks /\ cur # Genesis /\ TableBest = Parent(cur) /\ TableBest' = cur /\ Parent(cur) \in Blocks
  BY <1>1, <1>2, Zenon DEF Top, Early, Late
<1>4. \A t \in ValidTables : \A b \in Blocks : b \in Void[t] /\ b # cur => b \in Void'[t]
  BY <1>1, <1>3, UpsertRows, Zenon DEF TypeOK
<1>5. \A t \in DataTables, b \in Blocks : HasMainRows(t, b)' => HasMainRows(t, b)
  BY <1>1, <1>3, UpsertRows, Zenon DEF TypeOK
<1>6. Complete
  BY <1>1, Zenon DEF Complete, Halted
<1>7. Marked(Parent(cur), Void')
  <2>1. Marked(Parent(cur), Void) /\ IsAncestor(Parent(cur), Parent(cur))
    BY <1>1, <1>3, <1>6, AncestorParent, Zenon DEF Flags
  <2> QED BY <1>3, <1>4, <2>1, MarkedKept, Zenon
<1>8. Flags'
  BY <1>1, <1>3, <1>7, Zenon DEF Flags
<1>9. Counts'
  BY <1>1, <1>3, <1>6, Zenon DEF Counts
<1>10. \A b \in Blocks : b = cur \/ IsAncestor(b, Parent(cur)) => IsAncestor(b, cur)
  BY <1>3, AncestorParent, Zenon
<1>11. Rows'
  BY <1>1, <1>3, <1>5, <1>10, Zenon DEF Rows, Early
<1> QED BY <1>8, <1>9, <1>11

\* The stored block is counted.
LEMMA UpsertMinerRows ==
    ASSUME MinersAdd, TypeOK, Phases, TypeOK', Phases', Flags, Counts, Rows, fails = 0, fails' = 0, UpsertMiner
    PROVE  Flags' /\ Counts' /\ Rows'
<1>1. /\ pc = "miners" /\ pc' = "chain" /\ mined' = [mined EXCEPT ![Miner[cur]] = @ + 1]
      /\ UNCHANGED <<cur, db, invalid, shared, ids, crashes>>
  BY NoFail, Zenon DEF UpsertMiner, work
<1>2. cur \in Blocks /\ cur # Genesis /\ TableBest = cur /\ TableBest' = cur
  BY <1>1, TopIs, SameBest, Zenon DEF Top, Late
<1>3. mined \in [Miners -> Nat] /\ mined' \in [Miners -> Nat] /\ Miner[cur] \in Miners
  BY <1>2, DataAssumption, Zenon DEF TypeOK
<1>4. Counted(cur, mined')
  <2> SUFFICES ASSUME NEW m \in Miners
               PROVE  mined'[m] >= Cardinality(MinedOn(cur, m))
    BY DEF Counted
  <2>1. mined[m] >= Cardinality(MinedOn(Parent(cur), m))
    BY <1>2, Zenon DEF Counts, Counted
  <2>2. /\ Cardinality(MinedOn(Parent(cur), m)) \in Nat
        /\ Cardinality(MinedOn(cur, m)) = Cardinality(MinedOn(Parent(cur), m)) + (IF Miner[cur] = m THEN 1 ELSE 0)
    BY <1>2, Zenon DEF MinersAdd
  <2>3. mined'[m] = mined[m] + (IF Miner[cur] = m THEN 1 ELSE 0)
    BY <1>1, <1>3
  <2>4. mined[m] \in Nat
    BY <1>3
  <2> QED BY <2>1, <2>2, <2>3, <2>4, SMTT(60)
<1>5. Counts'
  BY <1>1, <1>2, <1>3, <1>4, CountedParent, Zenon DEF Counts
<1>6. Flags' /\ Rows'
  BY <1>1, <1>2, SameRows, Zenon DEF Flags, Rows, Early
<1> QED BY <1>5, <1>6

\* The block_chain rows are none of these.
LEMMA InsertBlockPrevNextRows ==
    ASSUME TypeOK, Phases, TypeOK', Phases', Flags, Counts, Rows, fails = 0, fails' = 0, InsertBlockPrevNext
    PROVE  Flags' /\ Counts' /\ Rows'
<1>1. /\ pc = "chain" /\ pc' = "last" /\ db' = [db EXCEPT !["chain"][cur] = "main"]
      /\ UNCHANGED <<cur, invalid, shared, ids, mined, crashes>>
  BY NoFail, Zenon DEF InsertBlockPrevNext, StoreFails, work
<1>2. Top /\ Top'
  BY TopIs, TopIsPrime
<1>3. cur \in Blocks /\ TableBest = cur /\ TableBest' = cur
  BY <1>1, <1>2, Zenon DEF Top, Late
<1>4. \A t \in DataTables, b \in Blocks : HasMainRows(t, b)' => HasMainRows(t, b)
  <2>1. \A t \in DataTables, b \in Blocks : db'[t][b] = db[t][b]
    BY <1>1, <1>3, Zenon DEF TypeOK, Tables, DataTables
  <2> QED BY <1>1, <2>1, Zenon DEF HasMainRows
<1>5. Complete
  BY <1>1, Zenon DEF Complete, Halted
<1>6. Flags' /\ Counts'
  BY <1>1, <1>3, <1>5, SameRows, Zenon DEF Flags, Counts
<1>7. Rows'
  BY <1>1, <1>3, <1>4, Zenon DEF Rows, Early
<1> QED BY <1>6, <1>7

\* A block that disapproves its parent goes on to set the flags; another one has
\* nothing to flag.
LEMMA UpdateBlockNextRows ==
    ASSUME TypeOK, Phases, TypeOK', Phases', Flags, Counts, Rows, fails = 0, fails' = 0, UpdateBlockNext
    PROVE  Flags' /\ Counts' /\ Rows'
<1>1. pc = "last" /\ k' = 1 /\ UNCHANGED <<cur, db, invalid, shared, ids, mined, crashes>>
  BY Zenon DEF UpdateBlockNext
<1>2. db["chain"][Parent(cur)] = "main"
  BY <1>1, LateFacts, Zenon DEF Late
<1>3. pc' = IF cur \in Disapproving THEN "invalid" ELSE "stats"
  BY <1>2, NoFail, Zenon DEF UpdateBlockNext, StoreFails
<1>4. cur \in Blocks /\ cur # Genesis /\ TableBest = cur /\ TableBest' = cur
  BY <1>1, TopIs, SameBest, Zenon DEF Top, Late
<1>5. Complete
  BY <1>1, Zenon DEF Complete, Halted
<1>6. cur \notin Disapproving => Marked(cur, Void)
  BY <1>4, MarkedParent, Zenon DEF Flags
<1>7. \A i \in 1 .. k' - 1 : FALSE
  BY <1>1
<1>8. Flags'
  BY <1>1, <1>3, <1>4, <1>6, <1>7, SameRows, Zenon DEF Flags
<1>9. Counts' /\ Rows'
  BY <1>1, <1>3, <1>4, <1>5, SameRows, Zenon DEF Counts, Rows, Early
<1> QED BY <1>8, <1>9

\* The last of the flags makes the chain of the stored block flagged.
LEMMA InvalidateRows ==
    ASSUME TypeOK, Phases, TypeOK', Phases', RowsTypeOK, Flags, Counts, Rows, fails = 0, fails' = 0, Invalidate
    PROVE  Flags' /\ Counts' /\ Rows'
<1>1. /\ pc = "invalid" /\ SetInvalid(InvalidSteps[k], Parent(cur)) /\ k' = k + 1
      /\ pc' = IF k = 4 THEN "stats" ELSE "invalid"
      /\ UNCHANGED <<cur, db, ids, mined, crashes>>
  BY NoFail, StepLists, Zenon DEF Invalidate, StoreFails
<1>2. cur \in Blocks /\ cur # Genesis /\ TableBest = cur /\ TableBest' = cur
  BY <1>1, TopIs, SameBest, Zenon DEF Top, Late
<1>3. k \in 1 .. 4
  BY <1>1, Zenon DEF Phases, StoredLate, Late
<1>4. /\ InvalidSteps[k] \in ValidTables
      /\ \A t \in ValidTables : Void[t] \subseteq Void'[t]
      /\ Parent(cur) \in Void'[InvalidSteps[k]]
      /\ \A t \in DataTables, b \in Blocks : HasMainRows(t, b)' => HasMainRows(t, b)
  <2>1. invalid \in [ValidTables -> SUBSET Blocks] /\ InvalidSteps[k] \in ValidTables
    BY <1>3, StepLists, Zenon DEF TypeOK
  <2>2. Parent(cur) \in Blocks
    BY <1>2, ProperAncestor, Zenon
  <2> QED BY <1>1, <2>1, <2>2, SetInvalidRows, Zenon
<1>5. \A i \in 1 .. k : Parent(cur) \in Void'[InvalidSteps[i]]
  <2> TAKE i \in 1 .. k
  <2>1. CASE i = k
    BY <1>4, <2>1
  <2>2. CASE i # k
    <3>1. i \in 1 .. k - 1 /\ i \in 1 .. 4
      BY <1>3, <2>2
    <3>2. Parent(cur) \in Void[InvalidSteps[i]] /\ InvalidSteps[i] \in ValidTables
      BY <1>1, <3>1, StepLists, Zenon DEF Flags
    <3> QED BY <1>4, <3>2, Zenon
  <2> QED BY <2>1, <2>2, SMTT(60)
<1>6. Marked(Parent(cur), Void')
  BY <1>2, <1>4, Zenon DEF Flags, Marked
<1>7. k = 4 => Marked(cur, Void')
  <2> SUFFICES ASSUME k = 4 PROVE Marked(cur, Void')
    OBVIOUS
  <2>1. \A t \in ValidTables : \E i \in 1 .. 4 : t = InvalidSteps[i]
    BY DEF ValidTables, InvalidSteps
  <2>2. \A t \in ValidTables : Parent(cur) \in Void'[t]
    BY <1>5, <2>1, Zenon
  <2> QED BY <1>2, <1>6, <2>2, MarkedParent, Zenon
<1>8. k' - 1 = k /\ cur \in Disapproving
  BY <1>1, <1>3 DEF Flags
<1>9. Flags'
  BY <1>1, <1>2, <1>5, <1>6, <1>7, <1>8, Zenon DEF Flags
<1>10. Complete
  BY <1>1, Zenon DEF Complete, Halted
<1>11. Counts' /\ Rows'
  BY <1>1, <1>2, <1>4, <1>10, Zenon DEF Counts, Rows, Early
<1> QED BY <1>9, <1>11

\* A reorganization begins with the best block.
LEMMA ReorgRows ==
    ASSUME TypeOK, Phases, TypeOK', Phases', Flags, Counts, Rows, NEW c \in Blocks, Reorg(c)
    PROVE  Flags' /\ Counts' /\ Rows'
<1>1. /\ pc = "live" /\ cur' = best /\ k' = 1 /\ pc' \in {"side", "connect"}
      /\ UNCHANGED <<db, invalid, shared, ids, mined, crashes>>
  BY Zenon DEF Reorg, tables, bounds
<1>2. TableBest = best /\ TableBest' = best
  BY <1>1, TopIs, SameBest, Zenon DEF Top
<1>3. Complete
  BY <1>1, Zenon DEF Complete, Halted
<1>4. Flags'
  BY <1>1, <1>2, <1>3, SameRows, Zenon DEF Flags
<1>5. Counts'
  BY <1>1, <1>2, <1>3, Zenon DEF Counts
<1>6. Rows'
  BY <1>1, <1>2, SameRows, Zenon DEF Rows, Early
<1> QED BY <1>4, <1>5, <1>6, SMTT(60)

\* TipToSideChain takes the block off the main chain, then its other rows.
LEMMA SideUpdateRows ==
    ASSUME MinersAdd, TypeOK, Phases, TypeOK', Phases', RowsTypeOK, Flags, Counts, Rows, fails = 0, fails' = 0, SideUpdate
    PROVE  Flags' /\ Counts' /\ Rows'
<1>1. /\ pc = "side" /\ pc' = "side" /\ k' = k + 1 /\ ToSide(SideSteps[k], cur) /\ k <= 6
      /\ UNCHANGED <<cur, invalid, ids, mined, crashes>>
  BY NoFail, StepLists, Zenon DEF SideUpdate
<1>2. Top /\ Top'
  BY TopIs, TopIsPrime
<1>3. cur \in Blocks /\ cur # Genesis /\ k \in 1 .. 7 /\ TableBest = (IF k = 1 THEN cur ELSE Parent(cur))
  BY <1>1, <1>2, Zenon DEF Top
<1>4. TableBest' = Parent(cur) /\ Parent(cur) \in Blocks
  BY <1>1, <1>2, <1>3 DEF Top
<1>5. Complete
  BY <1>1, Zenon DEF Complete, Halted
<1>6. Marked(Parent(cur), Void')
  <2>1. Marked(Parent(cur), Void)
    BY <1>1, <1>3, <1>5, MarkedParent, Zenon DEF Flags
  <2>2. \A t \in ValidTables : \A b \in Blocks : b \in Void[t] => b \in Void'[t]
    BY <1>1, <1>3, SideRows, Zenon DEF TypeOK
  <2>3. IsAncestor(Parent(cur), Parent(cur))
    BY <1>4, AncestorParent, Zenon
  <2> QED BY <1>3, <1>4, <2>1, <2>2, <2>3, MarkedKept, Zenon
<1>7. Flags'
  BY <1>1, <1>4, <1>6, MarkedParent, Zenon DEF Flags
<1>8. Counts'
  <2>1. mined \in [Miners -> Nat]
    BY Zenon DEF TypeOK
  <2>2. Counted(cur, mined) /\ Counted(Parent(cur), mined)
    BY <1>1, <1>3, <2>1, CountedParent, Zenon DEF Counts
  <2> QED BY <1>1, <1>4, <2>1, <2>2, CountedParent, Zenon DEF Counts
<1>9. \A t \in DataTables, b \in Blocks : HasMainRows(t, b)' => HasMainRows(t, b) /\ (b = cur => t \notin SideSteps[k])
  BY <1>1, <1>3, SideRows, Zenon DEF TypeOK
<1>10. Rows'
  <2> SUFFICES ASSUME crashes = 0, NEW t \in DataTables, NEW b \in Blocks, HasMainRows(t, b)'
               PROVE  \/ IsAncestor(b, Parent(cur))
                      \/ b = cur /\ \A i \in 1 .. k' - 1 : t \notin SideSteps[i]
    BY <1>1, <1>4, Zenon DEF Rows
  <2>1. \/ IsAncestor(b, TableBest)
        \/ b = cur /\ \A i \in 1 .. k - 1 : t \notin SideSteps[i]
    <3>1. HasMainRows(t, b) /\ pc \notin Early
      BY <1>1, <1>9, Zenon DEF Early
    <3> QED BY <1>1, <3>1, Zenon DEF Rows
  <2>2. b = cur => \A i \in 1 .. k' - 1 : t \notin SideSteps[i]
    <3> SUFFICES ASSUME b = cur, NEW i \in 1 .. k' - 1
                 PROVE  t \notin SideSteps[i]
      OBVIOUS
    <3>1. CASE i = k
      <4>1. t \notin SideSteps[k]
        BY <1>9, Zenon
      <4> QED BY <3>1, <4>1, Zenon
    <3>2. CASE i # k
      <4>1. i \in 1 .. k - 1 /\ k > 1
        BY <1>1, <1>3, <3>2, SMTT(60)
      <4>2. ~IsAncestor(b, Parent(cur)) /\ k # 1
        BY <1>3, <4>1, ProperAncestor, SMTT(60)
      <4> QED BY <1>3, <2>1, <4>1, <4>2, Zenon
    <3> QED BY <3>1, <3>2, SMTT(60)
  <2>3. IsAncestor(b, TableBest) => b = cur \/ IsAncestor(b, Parent(cur))
    BY <1>3, ProperAncestor, Zenon
  <2> QED BY <2>1, <2>2, <2>3, Zenon
<1> QED BY <1>7, <1>8, <1>10

\* RevertOrphanMinerUpdate counts the block that has left the main chain, once.
LEMMA SideNextRows ==
    ASSUME MinersAdd, TypeOK, Phases, TypeOK', Phases', Flags, Counts, Rows, fails = 0, fails' = 0, SideNext
    PROVE  Flags' /\ Counts' /\ Rows'
<1>1. /\ pc = "side" /\ k > 6 /\ cur' = up /\ k' = 1 /\ pc' \in {"side", "connect"}
      /\ UNCHANGED <<db, invalid, shared, ids, crashes>>
  BY StepLists, Zenon DEF SideNext
<1>2. mined' = mined \/ mined' = [mined EXCEPT ![Miner[cur]] = IF @ > 0 THEN @ - 1 ELSE 0]
  BY NoFail, Zenon DEF SideNext
<1>3. Top
  BY TopIs
<1>4. cur \in Blocks /\ cur # Genesis /\ k = 7 /\ TableBest = Parent(cur) /\ up = Parent(cur) /\ Parent(cur) \in Blocks
  BY <1>1, <1>3 DEF Top
<1>5. TableBest' = Parent(cur)
  BY <1>1, <1>4, SameBest, Zenon
<1>6. Complete
  BY <1>1, Zenon DEF Complete, Halted
<1>7. Flags'
  BY <1>1, <1>4, <1>5, <1>6, SameRows, Zenon DEF Flags
<1>8. mined \in [Miners -> Nat] /\ mined' \in [Miners -> Nat] /\ Miner[cur] \in Miners
  BY <1>4, DataAssumption, Zenon DEF TypeOK
<1>9. Counted(Parent(cur), mined')
  <2> SUFFICES ASSUME NEW m \in Miners
               PROVE  mined'[m] >= Cardinality(MinedOn(Parent(cur), m))
    BY DEF Counted
  <2>1. mined[m] >= Cardinality(MinedOn(cur, m))
    BY <1>1, Zenon DEF Counts, Counted
  <2>2. /\ Cardinality(MinedOn(Parent(cur), m)) \in Nat
        /\ Cardinality(MinedOn(cur, m)) = Cardinality(MinedOn(Parent(cur), m)) + (IF Miner[cur] = m THEN 1 ELSE 0)
    BY <1>4, Zenon DEF MinersAdd
  <2>3. mined[m] \in Nat /\ mined'[m] \in Nat
    BY <1>8
  <2>4. m # Miner[cur] => mined'[m] = mined[m]
    BY <1>2, <1>8, SMTT(60)
  <2>5. mined'[Miner[cur]] >= mined[Miner[cur]] - 1
    BY <1>2, <1>8, SMTT(60)
  <2>6. CASE m # Miner[cur]
    BY <2>1, <2>2, <2>3, <2>4, <2>6, SMTT(60)
  <2>7. CASE m = Miner[cur]
    BY <2>1, <2>2, <2>3, <2>5, <2>7, SMTT(60)
  <2> QED BY <2>6, <2>7
<1>10. Counts'
  BY <1>1, <1>4, <1>5, <1>8, <1>9, CountedParent, Zenon DEF Counts
<1>11. \A t \in DataTables : \E i \in 1 .. k - 1 : t \in SideSteps[i]
  BY <1>4 DEF DataTables, SideSteps
<1>12. Rows'
  BY <1>1, <1>4, <1>5, <1>11, SameRows, Zenon DEF Rows, Early
<1> QED BY <1>7, <1>10, <1>12

\* A purge deletes all rows of the best block.
LEMMA PurgeRows ==
    ASSUME MinersAdd, TypeOK, Phases, TypeOK', Phases', Flags, Counts, Rows, fails = 0, fails' = 0, MetaAhead \/ Purge \/ PurgeOrphan
    PROVE  Flags' /\ Counts' /\ Rows'
<1>1. PICK w \in Blocks : Below(w, db, next, stats)
  BY SomeBest, Zenon
<1>2. TableBest = w
  BY <1>1, BestIs, Zenon
<1>3. /\ pc \in {"check", "purge", "orphan"}
      /\ \E then \in Purged : DeleteBlockData(w, then)
  BY <1>2, Zenon DEF MetaAhead, Purge, PurgeOrphan, Purged
<1>4. PICK then \in Purged : DeleteBlockData(w, then)
  BY <1>3
<1>5. /\ w # Genesis /\ pc' \in Purged /\ UNCHANGED <<mined, crashes>>
  BY <1>4, Zenon DEF DeleteBlockData, bounds
<1>6. Solid(Parent(w), db', next', stats') /\ Parent(w) \in Blocks
  BY <1>1, <1>4, <1>5, DeleteFacts, Zenon
<1>7. TableBest' = Parent(w)
  BY <1>6, BestIsPrime, Zenon DEF Solid
<1>8. \A t \in ValidTables : \A b \in Blocks : b \in Void[t] /\ b # w => b \in Void'[t]
  BY <1>4, DeleteRows, Zenon DEF TypeOK
<1>9. Marked(Parent(w), Void')
  <2>1. Marked(Parent(w), Void) /\ IsAncestor(Parent(w), Parent(w))
    BY <1>2, <1>5, <1>6, AncestorParent, Zenon DEF Flags
  <2> QED BY <1>5, <1>6, <1>8, <2>1, MarkedKept, Zenon
<1>10. pc' \notin {"miners", "chain", "last", "invalid", "side"}
  BY <1>5, Zenon DEF Purged
<1>11. Flags'
  BY <1>6, <1>7, <1>9, <1>10, MarkedParent, Zenon DEF Flags
<1>12. Counts'
  <2>1. mined \in [Miners -> Nat] /\ Counted(Parent(w), mined)
    BY <1>2, <1>5, Zenon DEF Counts, TypeOK
  <2> QED BY <1>5, <1>6, <1>7, <1>10, <2>1, CountedParent, Zenon DEF Counts
<1>13. \A t \in DataTables, b \in Blocks : HasMainRows(t, b)' => HasMainRows(t, b) /\ b # w
  BY <1>4, DeleteRows, Zenon DEF TypeOK
<1>14. \A b \in Blocks : IsAncestor(b, w) /\ b # w => IsAncestor(b, Parent(w))
  BY <1>5, ProperAncestor, Zenon
<1>15. Rows'
  BY <1>2, <1>3, <1>5, <1>7, <1>13, <1>14, Zenon DEF Rows, Early
<1> QED BY <1>11, <1>12, <1>15, SMTT(60)

\* A process that stops leaves a best block that is complete if the meta table
\* names it.
LEMMA CrashRows ==
    ASSUME TypeOK, Phases, TypeOK', Phases', Flags, Counts, Rows, Crash
    PROVE  Flags' /\ Counts' /\ Rows'
<1>1. pc' = "down" /\ crashes' = crashes + 1 /\ UNCHANGED <<db, invalid, shared, ids, mined, meta>>
  BY Zenon DEF Crash, Stop, tables
<1>2. TableBest' = TableBest
  BY <1>1, SameBest, Zenon
<1>3. crashes' # 0
  BY <1>1 DEF TypeOK
<1>4. meta = TableBest => Complete /\ pc \notin Late
  BY TopIs, Zenon DEF Top, Complete
<1>5. Complete' => meta = TableBest
  BY <1>1, <1>2, Zenon DEF Complete, Halted
<1>6. Flags'
  BY <1>1, <1>2, <1>4, <1>5, SameRows, Zenon DEF Flags, Late
<1>7. Counts'
  BY <1>1, <1>2, <1>4, <1>5, Zenon DEF Counts, Late
<1>8. Rows'
  BY <1>3, Zenon DEF Rows
<1> QED BY <1>6, <1>7, <1>8

\* An upsert leaves the shared rows and their ids in their types.
LEMMA UpsertTyped == ASSUME RowsTypeOK, cur \in Blocks, NEW ts, Upsert(ts, cur) PROVE RowsTypeOK'
<1> DEFINE R == [block : Blocks \cup {NoBlock}, flag : {"none", "main", "side"}, valid : BOOLEAN]
<1>1. shared \in [SharedTables -> [Txs -> R]] /\ ids \in [Txs -> SUBSET Blocks]
  BY Zenon DEF RowsTypeOK
<1>2. [block |-> cur, flag |-> "main", valid |-> TRUE] \in R
  BY SMT
<1> HIDE DEF R
<1>3. shared' \in [SharedTables -> [Txs -> R]]
  BY <1>1, <1>2, Zenon DEF Upsert
<1>4. ids' \in [Txs -> SUBSET Blocks]
  <2>1. \A x \in Txs : ids[x] \in SUBSET Blocks /\ ids[x] \cup {cur} \in SUBSET Blocks
    BY <1>1, Zenon
  <2> QED BY <2>1, Zenon DEF Upsert
<1> QED BY <1>3, <1>4, Zenon DEF RowsTypeOK, R

\* Every step leaves the shared rows and their ids in their types.
LEMMA NextTyped ==
    ASSUME TypeOK, Phases, RowsTypeOK, [Next]_vars, fails = 0, fails' = 0
    PROVE  RowsTypeOK'
<1> DEFINE R == [block : Blocks \cup {NoBlock}, flag : {"none", "main", "side"}, valid : BOOLEAN]
<1>1. shared \in [SharedTables -> [Txs -> R]] /\ ids \in [Txs -> SUBSET Blocks]
  BY Zenon DEF RowsTypeOK
<1>2. /\ \A r \in R : [r EXCEPT !.flag = "side"] \in R /\ [r EXCEPT !.valid = FALSE] \in R
      /\ NoRow \in R
  BY Zenon DEF NoRow
<1> HIDE DEF R
<1>3. ASSUME UNCHANGED <<shared, ids>> PROVE RowsTypeOK'
  BY <1>3, Zenon DEF RowsTypeOK
<1>4. ASSUME NEW ts, Upsert(ts, cur), pc \in Early PROVE RowsTypeOK'
  BY <1>4, EarlyFacts, UpsertTyped, Zenon
<1>5. ASSUME NEW ts, NEW b, ToSide(ts, b), UNCHANGED ids PROVE RowsTypeOK'
  <2>1. shared' \in [SharedTables -> [Txs -> R]]
    BY <1>1, <1>2, <1>5, Zenon DEF ToSide
  <2> QED BY <1>1, <1>5, <2>1, Zenon DEF RowsTypeOK, R
<1>6. ASSUME NEW t, NEW b, SetInvalid(t, b), UNCHANGED ids PROVE RowsTypeOK'
  <2>1. shared' \in [SharedTables -> [Txs -> R]]
    BY <1>1, <1>2, <1>6, Zenon DEF SetInvalid
  <2> QED BY <1>1, <1>6, <2>1, Zenon DEF RowsTypeOK, R
<1>7. ASSUME NEW b, NEW then, DeleteBlockData(b, then) PROVE RowsTypeOK'
  <2>1. shared' \in [SharedTables -> [Txs -> R]] /\ ids' \in [Txs -> SUBSET Blocks]
    BY <1>1, <1>2, <1>7, Zenon DEF DeleteBlockData
  <2> QED BY <2>1, Zenon DEF RowsTypeOK, R
<1>8. CASE RegularCommit \/ StakeCommit \/ InsertBlock
  BY <1>8, <1>3, <1>4, Zenon DEF RegularCommit, StakeCommit, InsertBlock, Early
<1>9. CASE Invalidate
  BY <1>9, <1>3, <1>6, Zenon DEF Invalidate
<1>10. CASE SideUpdate
  BY <1>10, <1>3, <1>5, Zenon DEF SideUpdate
<1>11. CASE MetaAhead \/ Purge \/ PurgeOrphan
  BY <1>11, <1>7, Zenon DEF MetaAhead, Purge, PurgeOrphan
<1>12. CASE Storing
  BY <1>12, <1>3, <1>8, <1>9, Zenon
     DEF Storing, RegularFails, StakeFails, TreesDone, UpsertMiner, InsertBlockPrevNext, UpdateBlockNext,
         InsertBlockStats, SetDBBestBlock, tables
<1>13. CASE Switching
  BY <1>13, <1>3, <1>10, Zenon DEF Switching, SideNext, Connect, ConnectRejected, Connected, StartStore, tables
<1>14. CASE Starting
  BY <1>14, <1>3, <1>11, Zenon
     DEF Starting, Open, MetaNotAhead, SetMeta, Opened, StartSync, SyncBlock, Synced, Exit, Stop, StartStore, tables
<1>15. CASE \/ Crash \/ UNCHANGED vars
            \/ \E b \in Blocks : NodeMoves(b) \/ NewBlock(b) \/ NewBlockRejected(b) \/ Reorg(b)
  BY <1>15, <1>3, Zenon DEF Crash, Stop, NodeMoves, NewBlock, NewBlockRejected, Reorg, StartStore, tables, vars
<1> QED BY <1>12, <1>13, <1>14, <1>15, Zenon DEF Next

\* The three are preserved by every step.
LEMMA NextExtra == MinersAdd /\ IInv /\ IInv' /\ Extra /\ [Next]_vars => Extra'
<1> SUFFICES ASSUME MinersAdd, IInv, IInv', Extra, [Next]_vars, fails' = 0
             PROVE  RowsTypeOK' /\ Flags' /\ Counts' /\ Rows'
  BY Zenon DEF Extra
<1>1. fails = 0
  <2>1. fails' = fails \/ Fail \/ FailOfItself
    BY FailsStep, Zenon
  <2> QED BY <2>1 DEF Fail, FailOfItself, IInv
<1>2. TypeOK /\ Phases /\ TypeOK' /\ Phases' /\ RowsTypeOK /\ Flags /\ Counts /\ Rows /\ ~Fail
  BY <1>1, NoFail, Zenon DEF IInv, Extra
<1>10. RowsTypeOK'
  BY <1>1, <1>2, NextTyped, Zenon
<1> SUFFICES Flags' /\ Counts' /\ Rows'
  BY <1>10, Zenon
<1>3. CASE Storing
  BY <1>1, <1>2, <1>3, StillSteps, CommitRows, InsertBlockRows, UpsertMinerRows, InsertBlockPrevNextRows,
     UpdateBlockNextRows, InvalidateRows, Zenon
     DEF Storing, RegularFails, StakeFails
<1>4. CASE Switching
  BY <1>1, <1>2, <1>4, StillSteps, SideUpdateRows, SideNextRows, Zenon DEF Switching, ConnectRejected
<1>5. CASE Starting
  BY <1>1, <1>2, <1>5, StillSteps, PurgeRows, Zenon DEF Starting
<1>6. ASSUME NEW b \in Blocks, NodeMoves(b) \/ UNCHANGED vars
      PROVE  Flags' /\ Counts' /\ Rows'
  <2>1. UNCHANGED <<db, invalid, shared, ids, mined, meta, pc, cur, k, crashes>>
    BY <1>6, Zenon DEF NodeMoves, tables, work, bounds, vars
  <2>2. TableBest' = TableBest
    BY <2>1, SameBest, Zenon
  <2>3. Flags'
    BY <1>2, <2>1, <2>2, SameRows, Zenon DEF Flags, Complete
  <2>4. Counts' /\ Rows'
    BY <1>2, <2>1, <2>2, SameRows, Zenon DEF Counts, Rows, Complete
  <2> QED BY <2>3, <2>4, Zenon
<1>7. CASE \E b \in Blocks : NodeMoves(b) \/ NewBlock(b) \/ NewBlockRejected(b) \/ Reorg(b)
  BY <1>1, <1>2, <1>6, <1>7, StillSteps, ReorgRows, Zenon DEF NewBlockRejected
<1>8. CASE Crash
  BY <1>2, <1>8, CrashRows, Zenon
<1>9. CASE UNCHANGED vars
  BY <1>6, <1>9, ChainAssumption, Zenon
<1> QED BY <1>3, <1>4, <1>5, <1>7, <1>8, <1>9, Zenon DEF Next


-----------------------------------------------------------------------------
(* The invariants hold initially. *)

\* The synchronized database that the process starts with.
LEMMA InitIInv == MinersAdd /\ Init => IInv
<1> SUFFICES ASSUME MinersAdd, Init PROVE IInv
  BY Zenon
<1> USE DataAssumption, BoundAssumption, HeightAssumption
<1>1. \A b \in Blocks : Height(b) \in 0 .. MaxHeight
  BY ChainType, Zenon
<1>2. \A h \in 1 .. Height(InitTip) : Chain[InitTip][h] \in Blocks
  BY ChainType, Zenon
<1>3. TypeOK
  <2>1. next \in [Blocks -> Blocks \cup {NoBlock}]
    <3>1. ASSUME NEW b \in Blocks, IsAncestor(b, InitTip), b # InitTip
          PROVE  BlockAt(Chain[InitTip], Height(b) + 1) \in Blocks
      <4>1. Height(b) \in Nat /\ Height(InitTip) \in Nat /\ Height(b) < Height(InitTip)
        BY <3>1, <1>1, AncestorHeight
      <4>2. Height(b) + 1 \in 1 .. Height(InitTip) /\ Height(b) + 1 # 0
        BY <4>1
      <4> QED BY <4>2, <1>2, Zenon DEF BlockAt
    <3> QED BY <3>1, Zenon DEF Init
  <2>2. stats \in [0 .. MaxHeight -> Blocks \cup {NoBlock}]
    <3>1. ASSUME NEW h \in 0 .. MaxHeight, h <= Height(InitTip)
          PROVE  BlockAt(Chain[InitTip], h) \in Blocks
      BY <3>1, <1>1, <1>2, ChainAssumption DEF BlockAt
    <3> QED BY <3>1, Zenon DEF Init
  <2>3. mined \in [Miners -> Nat]
    <3>1. \A m \in Miners : Cardinality({b \in Blocks : IsAncestor(b, InitTip) /\ Miner[b] = m}) \in Nat
      BY Zenon DEF MinersAdd, MinedOn
    <3> QED BY <3>1, Zenon DEF Init
  <2>4. db \in [Tables -> [Blocks -> {"none", "main", "side"}]]
    BY Zenon DEF Init
  <2>5. invalid \in [ValidTables -> SUBSET Blocks]
    BY Zenon DEF Init
  <2>6. /\ meta \in Blocks /\ best \in Blocks \cup {NoBlock} /\ lastBlock \subseteq Blocks /\ pc = "down"
        /\ mode = "sync" /\ cur = NoBlock /\ up = NoBlock /\ reg = 0 /\ stk = 0 /\ k = 0 /\ floor = 0
        /\ target = NoBlock /\ root = NoBlock /\ prev = NoBlock /\ node \in Blocks /\ crashes = 0 /\ fails = 0
    BY Zenon DEF Init
  <2> QED BY <2>1, <2>2, <2>3, <2>4, <2>5, <2>6, SMTT(60) DEF TypeOK
<1>4. Solid(InitTip, db, next, stats)
  <2>1. \A b \in Blocks : IsAncestor(b, InitTip) =>
                          (\A t \in Tables : db[t][b] = "main") /\ stats[Height(b)] = b
    <3>1. ASSUME NEW b \in Blocks, IsAncestor(b, InitTip)
          PROVE  stats[Height(b)] = b
      <4>1. Height(b) <= Height(InitTip)
        BY <3>1, AncestorHeight, Zenon
      <4>2. BlockAt(Chain[InitTip], Height(b)) = b
        <5>1. CASE b = Genesis
          BY <5>1, GenesisHeight, Zenon DEF BlockAt
        <5>2. CASE b # Genesis
          <6>1. PICK i \in 1 .. Height(InitTip) : Chain[InitTip][i] = b
            BY <3>1, <5>2, Zenon DEF IsAncestor
          <6>2. Height(b) = i
            BY <1>1, <6>1, OnChain, Zenon
          <6>3. Height(b) # 0
            BY <5>2, GenesisHeight, Zenon
          <6> QED BY <6>1, <6>2, <6>3, Zenon DEF BlockAt
        <5> QED BY <5>1, <5>2
      <4> QED BY <4>1, <4>2, <1>1, Zenon DEF Init
    <3> QED BY <3>1, Zenon DEF Init
  <2>2. \A b \in Blocks : IsAncestor(b, InitTip) /\ b # Genesis => next[Parent(b)] = b
    <3> SUFFICES ASSUME NEW b \in Blocks, IsAncestor(b, InitTip), b # Genesis
                 PROVE  next[Parent(b)] = b
      OBVIOUS
    <3>1. PICK i \in 1 .. Height(InitTip) : Chain[InitTip][i] = b
      BY Zenon DEF IsAncestor
    <3>2. Parent(b) = BlockAt(Chain[InitTip], i - 1) /\ Height(b) = i
      BY <3>1, OnChain, Zenon
    <3>3. Parent(b) \in Blocks /\ Height(Parent(b)) = i - 1
      BY <3>2, ParentFacts, Zenon
    <3>4. IsAncestor(Parent(b), InitTip)
      BY <3>2, <1>1 DEF BlockAt, IsAncestor
    <3>5. Parent(b) # InitTip
      BY <3>3, <1>1
    <3>6. BlockAt(Chain[InitTip], Height(Parent(b)) + 1) = b
      BY <3>1, <3>3, <1>1 DEF BlockAt
    <3> QED BY <3>3, <3>4, <3>5, <3>6, Zenon DEF Init
  <2>3. \A b \in Blocks : db["blocks"][b] = "main" <=> IsAncestor(b, InitTip)
    BY Zenon DEF Init, Tables
  <2>4. \A b \in Blocks : IsAncestor(b, InitTip) => Whole(b, db, next, stats)
    BY <2>1, <2>2, Zenon DEF Whole
  <2>5. IsAncestor(InitTip, InitTip)
    BY AncestorParent, Zenon
  <2> QED BY <2>3, <2>4, <2>5, Zenon DEF Solid, Below
<1>5. Phases
  <2>1. Stopped
    BY <1>4, Zenon DEF Init, Stopped, Solid, Halted
  <2>2. Heights
    <3>1. \A b \in Blocks : db["blocks"][b] = "main" => Height(b) <= Height(InitTip)
      BY AncestorHeight, Zenon DEF Init, Tables
    <3>2. meta = InitTip /\ node = InitTip /\ target \notin Blocks
      BY ChainAssumption, Zenon DEF Init
    <3> QED BY <3>1, <3>2, <1>1 DEF Heights
  <2>3. pc = "down"
    BY Zenon DEF Init
  <2>4. Deleted /\ Opening /\ Resting /\ Stored
    BY <2>3, Zenon DEF Deleted, Opening, Resting, Stored, Purged, Syncing, Early, Late
  <2>5. StoredEarly /\ StoredLate /\ Siding /\ Connecting
    BY <2>3, Zenon DEF StoredEarly, StoredLate, Siding, Connecting, Early, Late
  <2> QED BY <2>1, <2>2, <2>4, <2>5, Zenon DEF Phases
<1> QED BY <1>3, <1>5, Zenon DEF Init, IInv

\* The synchronized database of the start is accounted for.
LEMMA InitExtra == MinersAdd /\ Init => Extra
<1> SUFFICES ASSUME MinersAdd, Init PROVE RowsTypeOK /\ Flags /\ Counts /\ Rows
  BY DEF Extra
<1>1. fails = 0 /\ TypeOK /\ Phases
  BY InitIInv, Zenon DEF IInv, Init
<1>2. /\ pc = "down" /\ meta = InitTip /\ InitTip \in Blocks
      /\ db = [t \in Tables |-> [b \in Blocks |-> IF IsAncestor(b, InitTip) THEN "main" ELSE "none"]]
      /\ invalid = [t \in ValidTables |-> {b \in Blocks : \E c \in Disapproving \ {Genesis} :
                                                             IsAncestor(c, InitTip) /\ Parent(c) = b}]
      /\ mined = [m \in Miners |-> Cardinality({b \in Blocks : IsAncestor(b, InitTip) /\ Miner[b] = m})]
  BY DataAssumption, Zenon DEF Init
<1>3. TableBest = InitTip
  <2>1. PICK w \in Blocks : Below(w, db, next, stats)
    BY <1>1, SomeBest, Zenon
  <2>2. TableBest = w
    BY <1>1, <2>1, BestIs, Zenon
  <2>3. "blocks" \in Tables
    BY DEF Tables
  <2>4. \A b \in Blocks : db["blocks"][b] = "main" <=> IsAncestor(b, InitTip)
    BY <1>2, <2>3, Zenon
  <2>5. \A b \in Blocks : IsAncestor(b, w) <=> IsAncestor(b, InitTip)
    BY <2>1, <2>4, Zenon DEF Below
  <2>6. IsAncestor(w, InitTip) /\ IsAncestor(InitTip, w)
    BY <1>2, <2>5, AncestorParent, Zenon
  <2>7. w = InitTip
    <3>1. Height(w) <= Height(InitTip) /\ Height(InitTip) <= Height(w)
      BY <1>2, <2>6, AncestorHeight, Zenon
    <3>2. Height(w) \in 0 .. MaxHeight /\ Height(InitTip) \in 0 .. MaxHeight
      BY <1>2, ChainType, Zenon
    <3>3. Height(w) = Height(InitTip)
      BY <3>1, <3>2, HeightAssumption, SMTT(60)
    <3> QED BY <1>2, <2>6, <3>3, AncestorHeight, Zenon
  <2> QED BY <2>2, <2>7
<1>9. /\ RowsTypeOK
      /\ \A t \in SharedTables, x \in Txs :
            \/ shared[t][x].flag = "none" /\ ~shared[t][x].valid
            \/ /\ IsAncestor(shared[t][x].block, InitTip)
               /\ t \in ValidTables /\ shared[t][x].block \in invalid[t] => ~shared[t][x].valid
  <2> DEFINE R == [block : Blocks \cup {NoBlock}, flag : {"none", "main", "side"}, valid : BOOLEAN]
             Row(t, b) == [block |-> b, flag |-> "main", valid |-> t \in ValidTables => b \notin invalid[t]]
             Last(t, x) == CHOOSE d \in LastMiner(t, x, InitTip) : TRUE
  <2>1. \A t \in SharedTables, x \in Txs :
            shared[t][x] = IF LastMiner(t, x, InitTip) = {} THEN NoRow ELSE Row(t, Last(t, x))
    BY Zenon DEF Init
  <2>2. \A t \in SharedTables, x \in Txs : LastMiner(t, x, InitTip) # {} =>
            Last(t, x) \in Blocks /\ IsAncestor(Last(t, x), InitTip)
    BY Zenon DEF LastMiner
  <2> HIDE DEF Last
  <2>3. NoRow \in R /\ NoRow.flag = "none" /\ ~NoRow.valid
    BY Zenon DEF NoRow
  <2>4. ASSUME NEW t \in SharedTables, NEW b \in Blocks
        PROVE  /\ Row(t, b) \in R /\ Row(t, b).block = b
               /\ t \in ValidTables /\ b \in invalid[t] => ~Row(t, b).valid
    BY Zenon
  <2> HIDE DEF R, Row
  <2>5. \A t \in SharedTables, x \in Txs : shared[t][x] \in R
    BY <2>1, <2>2, <2>3, <2>4, Zenon
  <2>6. shared \in [SharedTables -> [Txs -> R]]
    <3>1. shared = [t \in SharedTables |-> [x \in Txs |-> shared[t][x]]]
      BY Zenon DEF Init
    <3> QED BY <2>5, <3>1, Zenon
  <2>7. ids \in [Txs -> SUBSET Blocks]
    BY Zenon DEF Init
  <2>8. RowsTypeOK
    BY <2>6, <2>7, Zenon DEF RowsTypeOK, R
  <2>9. ASSUME NEW t \in SharedTables, NEW x \in Txs
        PROVE  \/ shared[t][x].flag = "none" /\ ~shared[t][x].valid
               \/ /\ IsAncestor(shared[t][x].block, InitTip)
                  /\ t \in ValidTables /\ shared[t][x].block \in invalid[t] => ~shared[t][x].valid
    <3>1. CASE LastMiner(t, x, InitTip) = {}
      BY <2>1, <2>3, <3>1, Zenon
    <3>2. CASE LastMiner(t, x, InitTip) # {}
      <4>1. shared[t][x] = Row(t, Last(t, x)) /\ Last(t, x) \in Blocks /\ IsAncestor(Last(t, x), InitTip)
        BY <2>1, <2>2, <3>2, Zenon
      <4> QED BY <2>4, <4>1, Zenon
    <3> QED BY <3>1, <3>2, Zenon
  <2> QED BY <2>8, <2>9, Zenon
<1>4. Marked(InitTip, Void)
  <2> SUFFICES ASSUME NEW c \in Disapproving \ {Genesis}, IsAncestor(c, InitTip), NEW t \in ValidTables
               PROVE  Parent(c) \in Void[t]
    BY Zenon DEF Marked
  <2>1. Parent(c) \in Blocks
    BY DataAssumption, ProperAncestor, Zenon
  <2>2. Parent(c) \in invalid[t]
    BY <1>2, <2>1, Zenon
  <2>3. NoneValid(t, Parent(c))
    BY <1>9, <2>2, Zenon DEF NoneValid
  <2> QED BY <2>1, <2>3, Zenon DEF Void
<1>5. Counted(InitTip, mined)
  <2> SUFFICES ASSUME NEW m \in Miners
               PROVE  mined[m] >= Cardinality(MinedOn(InitTip, m))
    BY SMTT(60) DEF Counted
  <2>1. mined[m] = Cardinality(MinedOn(InitTip, m)) /\ mined[m] \in Nat
    BY <1>1, <1>2, Zenon DEF MinedOn, TypeOK
  <2> QED BY <2>1
<1>6. Flags
  BY <1>2, <1>3, <1>4, MarkedParent, Zenon DEF Flags
<1>7. Counts
  <2>1. mined \in [Miners -> Nat]
    BY <1>1, Zenon DEF TypeOK
  <2> QED BY <1>2, <1>3, <1>5, <2>1, CountedParent, Zenon DEF Counts
<1>8. Rows
  <2>1. \A t \in DataTables, b \in Blocks : db[t][b] = "main" => IsAncestor(b, InitTip)
    BY <1>2, Zenon DEF Tables
  <2>2. \A t \in DataTables, b \in Blocks : HasMainRows(t, b) => IsAncestor(b, InitTip)
    BY <1>9, <2>1, Zenon DEF HasMainRows
  <2> QED BY <1>3, <2>2, Zenon DEF Rows
<1> QED BY <1>6, <1>7, <1>8, <1>9, Zenon


-----------------------------------------------------------------------------
(* Two facts about finite sets. *)

INSTANCE FiniteSetTheorems

\* retrieveBestBlock finds a block if there is one.
LEMMA HighestIs == BestIsHighest
<1> SUFFICES ASSUME MainBlocks # {}
             PROVE  TableBest \in MainBlocks /\ \A c \in MainBlocks : Height(c) <= Height(TableBest)
  BY Zenon DEF BestIsHighest
<1> DEFINE T == {MaxHeight - Height(c) : c \in MainBlocks}
<1>1. \A c \in MainBlocks : Height(c) \in 0 .. MaxHeight
  BY ChainType, Zenon DEF MainBlocks
<1>2. T \subseteq Nat /\ T # {}
  BY <1>1, HeightAssumption
<1>3. PICK x \in T : \A y \in T : <<y, x>> \notin OpToRel(<, Nat)
  <2> HIDE DEF T
  <2> QED BY <1>2, NatLessThanWellFounded, WFMin, Zenon
<1>4. PICK b \in MainBlocks : x = MaxHeight - Height(b)
  OBVIOUS
<1>5. \A c \in MainBlocks : Height(c) <= Height(b)
  <2> TAKE c \in MainBlocks
  <2>1. <<MaxHeight - Height(c), x>> \notin OpToRel(<, Nat)
    BY <1>3, Zenon
  <2>2. MaxHeight - Height(c) \in Nat /\ x \in Nat
    BY <1>2, <1>3, Zenon
  <2>3. ~(MaxHeight - Height(c) < x)
    BY <2>1, <2>2, Zenon DEF OpToRel
  <2> QED BY <1>1, <1>4, <2>3, HeightAssumption, SMTT(60)
<1> QED BY <1>5, Zenon DEF TableBest

\* The blocks of a miner on a chain, with and without the last block.
LEMMA MinedParent == MinersAdd
<1>1. ASSUME NEW w \in Blocks, NEW m \in Miners
      PROVE  IsFiniteSet(MinedOn(w, m)) /\ Cardinality(MinedOn(w, m)) \in Nat
  <2>1. MinedOn(w, m) \subseteq Blocks
    BY Zenon DEF MinedOn
  <2>2. IsFiniteSet(MinedOn(w, m))
    BY <2>1, FS_Subset, DataAssumption, Zenon
  <2> QED BY <2>2, FS_CardinalityType, Zenon
<1>2. ASSUME NEW w \in Blocks, w # Genesis, NEW m \in Miners
      PROVE  /\ Cardinality(MinedOn(Parent(w), m)) \in Nat
             /\ Cardinality(MinedOn(w, m)) = Cardinality(MinedOn(Parent(w), m)) + (IF Miner[w] = m THEN 1 ELSE 0)
  <2> DEFINE S == MinedOn(Parent(w), m)
  <2>1. Parent(w) \in Blocks /\ \A b \in Blocks : IsAncestor(b, Parent(w)) <=> IsAncestor(b, w) /\ b # w
    BY <1>2, ProperAncestor, Zenon
  <2>2. IsAncestor(w, w)
    BY AncestorParent, Zenon
  <2>3. w \notin S
    BY <2>1, Zenon DEF MinedOn
  <2>4. MinedOn(w, m) = IF Miner[w] = m THEN S \cup {w} ELSE S
    BY <2>1, <2>2 DEF MinedOn
  <2>5. IsFiniteSet(S) /\ Cardinality(S) \in Nat
    BY <1>1, <2>1, Zenon
  <2> HIDE DEF S
  <2>6. Cardinality(S \cup {w}) = Cardinality(S) + 1
    BY <2>3, <2>5, FS_AddElement, Zenon
  <2>7. Cardinality(MinedOn(w, m)) = Cardinality(S) + (IF Miner[w] = m THEN 1 ELSE 0)
    BY <2>4, <2>5, <2>6
  <2> QED BY <2>5, <2>7 DEF S
<1> QED BY <1>1, <1>2, Zenon DEF MinersAdd

-----------------------------------------------------------------------------
(* What follows from the invariants. *)

\* The invariant holds in every reachable state.
LEMMA Invariant == SafeSpec => []IInv
<1>1. Init => IInv
  BY MinedParent, InitIInv, Zenon
<1> QED BY <1>1, NextIInv, PTL DEF SafeSpec

\* The flags, the miners and the rows are in order in every reachable state.
LEMMA ExtraInvariant == SafeSpec => [](IInv /\ Extra)
<1>1. IInv /\ Extra /\ [Next]_vars => (IInv /\ Extra)'
  BY NextIInv, MinedParent, NextExtra, Zenon
<1>2. Init => IInv /\ Extra
  BY MinedParent, InitIInv, InitExtra, Zenon
<1> QED BY <1>1, <1>2, PTL DEF SafeSpec

\* The tables and variables have their types, as long as no statement failed.
THEOREM TypeCorrect == SafeSpec => [](fails = 0 => TypeOK /\ RowsTypeOK)
<1>1. IInv /\ Extra => (fails = 0 => TypeOK /\ RowsTypeOK)
  BY Zenon DEF IInv, Extra
<1> QED BY <1>1, ExtraInvariant, PTL

\* Whenever no block is being processed, the meta table, the blocks table and
\* memory agree on a best block whose whole chain is completely stored: nothing
\* of a block that StoreBlock or a reorganization was interrupted in is left in
\* the main chain when the process is up again.
THEOREM Consistent == SafeSpec => []ConsistentAtRest
<1>1. IInv => ConsistentAtRest
  <2> SUFFICES ASSUME IInv, pc = "live", fails = 0
               PROVE  /\ best \in Blocks /\ meta = best
                      /\ MainBlocks = {b \in Blocks : IsAncestor(b, best)}
                      /\ \A b \in MainBlocks : Full(b) /\ Linked(b)
    BY Zenon DEF ConsistentAtRest
  <2>1. best \in Blocks /\ meta = best /\ Solid(best, db, next, stats)
    BY Zenon DEF IInv, Phases, Resting, TypeOK
  <2>2. MainBlocks = {b \in Blocks : IsAncestor(b, best)}
    BY <2>1 DEF Solid, Below, MainBlocks
  <2>3. \A b \in MainBlocks : Whole(b, db, next, stats)
    BY <2>1, <2>2, Zenon DEF Solid, Below
  <2> QED BY <2>1, <2>2, <2>3, Zenon DEF Whole, Full, Linked
<1> QED BY <1>1, Invariant, PTL

\* As long as no statement fails, the best block of the blocks table behaves as
\* the tip of the abstract chain follower: StoreBlock extends it by a child,
\* TipToSideChain and the purges take it back to its parent, and nothing else
\* moves it, not even a crash between two of their writes.
THEOREM Refines == SafeSpec /\ [](fails = 0) => FollowsChain
<1>3. Init => Follower!Init
  <2> SUFFICES ASSUME Init PROVE TableBest \in Blocks
    BY Zenon DEF Follower!Init
  <2>1. TypeOK /\ Phases
    BY MinedParent, InitIInv, Zenon DEF Init, IInv
  <2> QED BY <2>1, SomeBest, BestIs, Zenon
<1>4. IInv /\ IInv' /\ fails = 0 /\ fails' = 0 /\ [Next]_vars => [Follower!Next]_TableBest
  <2> SUFFICES ASSUME IInv, IInv', fails = 0, fails' = 0, [Next]_vars
               PROVE  [Follower!Next]_TableBest
    OBVIOUS
  <2>1. \/ TableBest' = TableBest
        \/ TableBest # Genesis /\ TableBest' = Parent(TableBest)
        \/ \E b \in Blocks : b # Genesis /\ Parent(b) = TableBest /\ TableBest' = b
    BY BestMoves DEF IInv
  <2> QED BY <2>1 DEF Follower!Next, Follower!Retreat, Follower!Extend, Follower!Parent, Follower!Height, Parent, Height
<1>6. SafeSpec /\ [](fails = 0) => [][Follower!Next]_TableBest
  <2>1. (fails = 0)' <=> fails' = 0
    BY Zenon
  <2> QED BY <1>4, <2>1, Invariant, PTL DEF SafeSpec
<1> QED BY <1>3, <1>6, PTL DEF SafeSpec, FollowsChain, Follower!Spec

\* Whenever no block is being processed, and no statement has failed, every main
\* chain block that its successor disapproves is flagged as invalid in the four
\* tables that updateLastBlock changes: for every tree of blocks, whichever
\* transactions its blocks mine again, and however often the process ended while
\* a block was stored, re-flagged or purged.
THEOREM DisapprovalsAreFlagged == SafeSpec => []DisapprovedIsInvalid
<1>1. IInv /\ Extra => DisapprovedIsInvalid
  <2> SUFFICES ASSUME IInv, Extra, pc = "live", fails = 0
               PROVE  Marked(best, Void)
    BY Zenon DEF DisapprovedIsInvalid, Marked, Void
  <2>1. TableBest = best /\ Flags
    BY TopIs, Zenon DEF IInv, Extra, Top
  <2> QED BY <2>1, Zenon DEF Flags, Complete, Halted
<1> QED BY <1>1, ExtraInvariant, PTL

\* Whenever no block is being processed, and no statement has failed, the miners
\* table counts at least the blocks that a miner has on the main chain:
\* RevertOrphanMinerUpdate never takes more than upsertMiner has given.
THEOREM MinersAreCounted == SafeSpec => []MinersNotUndercounted
<1>1. IInv /\ Extra => MinersNotUndercounted
  <2> SUFFICES ASSUME IInv, Extra, pc = "live", fails = 0
               PROVE  Counted(best, mined)
    BY Zenon DEF MinersNotUndercounted, Counted, MinedOn, MinedOnMain
  <2>1. TableBest = best /\ Counts
    BY TopIs, Zenon DEF IInv, Extra, Top
  <2> QED BY <2>1, Zenon DEF Counts, Complete, Halted
<1> QED BY <1>1, ExtraInvariant, PTL

\* As long as no statement has failed and the process has not ended, every row
\* that is flagged as main chain is of a main chain block: TipToSideChain comes
\* to all that storeBlockTxnTree wrote, and to the rows that it took over from
\* other blocks.
THEOREM SideRowsAreFlagged == SafeSpec => []MainRowsOnMainChain
<1>1. IInv /\ Extra => MainRowsOnMainChain
  <2> SUFFICES ASSUME IInv, Extra, pc = "live", crashes = 0, fails = 0,
                      NEW t \in DataTables, NEW b \in Blocks, HasMainRows(t, b)
               PROVE  IsAncestor(b, best)
    BY Zenon DEF MainRowsOnMainChain
  <2>1. TableBest = best /\ Rows
    BY TopIs, Zenon DEF IInv, Extra, Top
  <2> QED BY <2>1, Zenon DEF Rows, Early
<1> QED BY <1>1, ExtraInvariant, PTL

\* As long as the blocks table has a main chain block, the meta table and the
\* blocks table have the same best block from the end of NewChainDB to the end of
\* SyncChainDB: for every tree of blocks, and whatever exits and failed
\* statements came before.
THEOREM TablesAgree == SafeSpec /\ [](MainBlocks # {}) => []TablesAgreeAfterOpen
<1>1. Init => Agree
  <2> SUFFICES ASSUME Init PROVE Agree
    OBVIOUS
  <2>1. pc = "down" /\ reg = 0 /\ stk = 0 /\ node = InitTip
    BY Zenon DEF Init
  <2>2. db \in [Tables -> [Blocks -> {"none", "main", "side"}]]
    BY Zenon DEF Init
  <2>3. 0 \in 0 .. 2 /\ 0 \in 0 .. 4
    OBVIOUS
  <2> QED BY <2>1, <2>2, <2>3, DataAssumption, Zenon DEF Agree, TablesAgreeAfterOpen, Early, Late
<1>2. Agree /\ MainBlocks # {} /\ [Next]_vars => Agree'
  <2> SUFFICES ASSUME Agree, MainBlocks # {}, [Next]_vars PROVE Agree'
    OBVIOUS
  <2>1. CASE UNCHANGED vars
    BY <2>1, AgreeStill, Zenon DEF vars, Agree, TablesAgreeAfterOpen
  <2> QED BY <2>1, HighestIs, AgreeStoring, AgreeLive, AgreeStarting, Zenon DEF Next
<1>3. Agree => TablesAgreeAfterOpen
  BY DEF Agree
<1> QED BY <1>1, <1>2, <1>3, PTL DEF SafeSpec
=============================================================================
