----------------------------- MODULE SyncProofs -----------------------------
(***************************************************************************)
(* Proofs about Sync: for any number of blocks and of crashes, no upsert    *)
(* and no live program lacks a unique index, and no start skips a batch     *)
(* update that is still due.                                                *)
(***************************************************************************)
EXTENDS Sync, SequenceTheorems, TLAPS

TypeOK ==
    /\ node \in 0 .. MaxHeight
    /\ db \in DatabaseType
    /\ pc \in Stages
    /\ run \in RunType

(* The program works on what SyncChainDB has decided. *)
Deciding == {"deindex", "flag", "import", "store"}
Importing == {"import", "store"}
Rebuilding == {"dedup", "index", "spend", "match"}

(* Blocks are imported from the recorded best block upwards, to a block that   *)
(* the node had.  Spends that wait for the batch update are those of blocks    *)
(* that the import has passed or will come to.                                 *)
HeightInv ==
    /\ \A u \in db.unmatched : u[1] <= node /\ u[1] <= db.height + 1
    /\ pc \in Deciding /\ ~run.drop /\ run.phase = "import" =>
          /\ run.ib = db.height + 1
          /\ \A u \in db.unmatched : u[1] <= db.height \/ u[1] <= run.nodeHeight
    /\ db.height <= node
    /\ pc \in Deciding /\ ~run.drop =>
          run.nodeHeight >= 0 /\ run.ib <= db.height + 1 /\ run.ib <= run.nodeHeight + 1
    /\ pc = "store" => run.ib <= run.nodeHeight
    /\ run.nodeHeight <= node
    /\ pc \in Rebuilding => \A u \in db.unmatched : u[1] <= db.height
    /\ pc \in Rebuilding \cup {"rematch", "finish"} => run.endHeight \in 0 .. db.height

(* The unique indexes are there whenever the program relies on them; while     *)
(* they are created, those missing are still on its list.                      *)
IndexInv ==
    /\ pc = "open" /\ ~run.newIndexes => Tables \subseteq db.indexes
    /\ pc \in Importing \cup {"flag"} /\ (run.dupChecks \/ ~run.reindexing \/ run.phase = "catchup") =>
          Tables \subseteq db.indexes
    /\ pc = "index" => \A t \in Tables : t \in db.indexes \/ \E i \in DOMAIN run.todo : run.todo[i] = t
    /\ pc \in {"spend", "match", "rematch", "finish", "synced", "live"} => Tables \subseteq db.indexes

NoImportLeft == \A u \in db.unmatched : u[2] = "catchup"

(* meta.ibd_complete is false from the moment the batch update is decided on,  *)
(* and before that a crash leaves an index missing.                            *)
SpendInv ==
    /\ db.ibd /\ MissingIndexes = {} => NoImportLeft
    /\ pc \in {"deindex", "flag"} /\ ~run.drop => run.ibdComplete = db.ibd
    /\ pc \in Importing \cup Rebuilding \cup {"rematch", "finish"} /\ run.phase = "import"
          /\ (run.reindexing \/ run.updateAll) => ~db.ibd
    /\ pc = "open" /\ ~run.updateAll /\ db.ibd => NoImportLeft
    /\ pc \in Deciding \cup Rebuilding \cup {"finish"} /\ ~run.drop /\ ~run.updateAll => NoImportLeft
    /\ pc \in Importing /\ run.phase = "catchup" => NoImportLeft
    /\ pc \in {"rematch", "finish", "synced", "live"} => NoImportLeft
    /\ pc \in Rebuilding \cup {"rematch", "finish"} => run.phase = "import"
    /\ pc = "deindex" /\ ~run.drop => run.reindexing
    /\ pc \in {"deindex", "flag"} => run.phase = "import"
    /\ pc \in Stages \ {"deindex"} => ~run.drop

IInv == TypeOK /\ HeightInv /\ IndexInv /\ SpendInv

-----------------------------------------------------------------------------
(* Types. *)

\* What the type invariant says of the fields the arguments below use.
LEMMA FieldTypes ==
    ASSUME MaxHeight \in Nat, TypeOK
    PROVE  /\ run \in RunType /\ db \in DatabaseType
           /\ db.height \in Int /\ db.height \in -1 .. MaxHeight /\ db.ibd \in BOOLEAN
           /\ db.indexes \subseteq IndexDescriptions
           /\ db.unmatched \subseteq Heights \X {"import", "catchup"}
           /\ \A u \in db.unmatched : u[1] \in Int /\ u[1] \in Heights /\ u[2] \in {"import", "catchup"}
           /\ run.ib \in Nat /\ run.ib \in 0 .. MaxHeight + 1
           /\ run.nodeHeight \in Int /\ run.nodeHeight \in -1 .. MaxHeight
           /\ run.endHeight \in Int /\ run.endHeight \in -1 .. MaxHeight
           /\ node \in Nat /\ node \in Heights
           /\ run.todo \in Seq(IndexDescriptions)
           /\ run.phase \in {"import", "catchup"}
           /\ run.updateAll \in BOOLEAN /\ run.dupChecks \in BOOLEAN
           /\ run.newIndexes \in BOOLEAN /\ run.second \in BOOLEAN
BY SMTT(60) DEF TypeOK, DatabaseType, RunType, Heights

\* DeindexAll and IndexAll work through lists of known indexes, and the list of
\* IndexAll and its companions has every unique index.
LEMMA OrderTypes ==
    /\ DeindexAllOrder \in Seq(IndexDescriptions)
    /\ IndexOrder \in Seq(IndexDescriptions)
    /\ \A t \in Tables : \E i \in DOMAIN IndexOrder : IndexOrder[i] = t
<1>1. DeindexAllOrder \in Seq(IndexDescriptions)
  BY DEF IndexDescriptions, Tables, DeindexAllOrder
<1>2. /\ IndexAllOrder \in Seq(IndexDescriptions)
      /\ <<"tickets">> \in Seq(IndexDescriptions) /\ <<"tickets">>[1] = "tickets"
      /\ \A t \in Tables \ {"tickets"} : \E i \in DOMAIN IndexAllOrder : IndexAllOrder[i] = t
  BY DEF IndexDescriptions, Tables, IndexAllOrder
<1>3. PICK mid \in Seq(IndexDescriptions) : IndexOrder = IndexAllOrder \o mid \o <<"tickets">>
  <2>1. CASE run.updateAll
    <3>1. <<>> \in Seq(IndexDescriptions)
      OBVIOUS
    <3> QED BY <2>1, <3>1, Zenon DEF IndexOrder
  <2>2. CASE ~run.updateAll
    <3>1. <<"matching">> \in Seq(IndexDescriptions)
      BY DEF IndexDescriptions
    <3> QED BY <2>2, <3>1, Zenon DEF IndexOrder
  <2> QED BY <2>1, <2>2, Zenon
<1>4. /\ IndexAllOrder \o mid \in Seq(IndexDescriptions)
      /\ \A t \in Tables \ {"tickets"} :
            \E i \in DOMAIN (IndexAllOrder \o mid) : (IndexAllOrder \o mid)[i] = t
  BY <1>2, ConcatProperties, LenProperties, SMTT(60)
<1>5. IndexOrder \in Seq(IndexDescriptions)
  BY <1>2, <1>3, <1>4, ConcatProperties
<1>6. \A t \in Tables \ {"tickets"} : \E i \in DOMAIN IndexOrder : IndexOrder[i] = t
  BY <1>2, <1>3, <1>4, ConcatProperties, LenProperties
<1>7. \E i \in DOMAIN IndexOrder : IndexOrder[i] = "tickets"
  <2>1. /\ Len(IndexOrder) = Len(IndexAllOrder \o mid) + 1
        /\ IndexOrder[Len(IndexAllOrder \o mid) + 1] = "tickets"
        /\ Len(IndexAllOrder \o mid) \in Nat
    BY <1>2, <1>3, <1>4, ConcatProperties, LenProperties
  <2> QED BY <1>5, <2>1, LenProperties
<1> QED BY <1>1, <1>5, <1>6, <1>7

\* Taking the first index off the list loses no other.
LEMMA HeadTail ==
    ASSUME NEW S, NEW s \in Seq(S), s # <<>>
    PROVE  /\ Head(s) \in S
           /\ Tail(s) \in Seq(S)
           /\ \A i \in DOMAIN s : s[i] = Head(s) \/ \E j \in DOMAIN Tail(s) : Tail(s)[j] = s[i]
<1>1. Head(s) \in S /\ Tail(s) \in Seq(S)
  OBVIOUS
<1>2. ASSUME NEW i \in DOMAIN s, s[i] # Head(s)
      PROVE  \E j \in DOMAIN Tail(s) : Tail(s)[j] = s[i]
  <2>1. i \in 1 .. Len(s) /\ i # 1
    BY <1>2
  <2>2. i - 1 \in DOMAIN Tail(s) /\ Tail(s)[i - 1] = s[i]
    BY <2>1
  <2> QED BY <2>2
<1> QED BY <1>1, <1>2

-----------------------------------------------------------------------------
(* One lemma per action. *)

\* A block found by the node changes nothing the program has done.
LEMMA NodeBlockInv ==
    ASSUME MaxHeight \in Nat, IInv, NodeBlock
    PROVE  IInv'
<1>1. TypeOK'
  BY SMTT(60) DEF IInv, TypeOK, DatabaseType, RunType, Heights, Stages, Tables, IndexDescriptions, NodeBlock
<1>2. HeightInv'
  BY SMTT(60) DEF IInv, HeightInv, SpendInv, TypeOK, DatabaseType, RunType, Heights, Stages, Deciding,
     Importing, Rebuilding, NodeBlock
<1>3. IndexInv'
  BY DEF IInv, IndexInv, SpendInv, TypeOK, DatabaseType, RunType, Tables, Importing, NodeBlock
<1>4. SpendInv'
  BY DEF IInv, SpendInv, TypeOK, DatabaseType, RunType, Stages, Deciding, Importing, Rebuilding,
     NoImportLeft, MissingIndexes, NodeBlock
<1> QED BY <1>1, <1>2, <1>3, <1>4 DEF IInv

\* A crash leaves a database that the next start can take up.
LEMMA CrashInv ==
    ASSUME MaxHeight \in Nat, IInv, Crash
    PROVE  IInv'
<1>1. TypeOK'
  BY SMTT(60) DEF IInv, TypeOK, DatabaseType, RunType, Heights, Stages, Tables, IndexDescriptions, Crash,
     Stopped
<1>2. HeightInv'
  BY DEF IInv, HeightInv, SpendInv, TypeOK, DatabaseType, RunType, Heights, Stages, Deciding, Importing,
     Rebuilding, Crash, Stopped
<1>3. IndexInv'
  BY DEF IInv, IndexInv, SpendInv, TypeOK, DatabaseType, RunType, Tables, Importing, Crash, Stopped
<1>4. SpendInv'
  BY DEF IInv, SpendInv, TypeOK, DatabaseType, RunType, Stages, Deciding, Importing, Rebuilding,
     NoImportLeft, MissingIndexes, Crash, Stopped
<1> QED BY <1>1, <1>2, <1>3, <1>4 DEF IInv

\* A start notices a missing index, and removes no spend but those of rows above
\* the recorded best block.
LEMMA StartInv ==
    ASSUME MaxHeight \in Nat, IInv, NEW drop \in BOOLEAN, Start(drop)
    PROVE  IInv'
<1>1. /\ db' \in DatabaseType /\ db'.height = db.height /\ db'.indexes = db.indexes
      /\ db'.ibd = db.ibd /\ db'.unmatched \subseteq db.unmatched
  <2>1. CASE "blocks" \in db.rows
    BY <2>1, FieldTypes, Zenon DEF IInv, Start, PurgeUnrecorded, DatabaseType
  <2>2. CASE "blocks" \notin db.rows
    BY <2>2, FieldTypes DEF IInv, Start, PurgeUnrecorded
  <2> QED BY <2>1, <2>2
<1>2. /\ run' = [Stopped EXCEPT !.newIndexes = ~drop /\ MissingIndexes # {},
                                !.updateAll = ~drop /\ MissingIndexes # {},
                                !.drop = drop,
                                !.todo = IF drop THEN DeindexAllOrder ELSE <<>>]
      /\ pc' = IF drop THEN "deindex" ELSE "open"
      /\ node' = node
  BY DEF Start
<1>3. TypeOK'
  <2>1. Stopped \in RunType
    BY SMTT(60) DEF RunType, Stopped, Heights
  <2>2. run' \in RunType
    <3> DEFINE order == IF drop THEN DeindexAllOrder ELSE <<>>
    <3>1. order \in Seq(IndexDescriptions)
      BY OrderTypes
    <3> HIDE DEF order
    <3>2. run' = [Stopped EXCEPT !.newIndexes = ~drop /\ MissingIndexes # {},
                                 !.updateAll = ~drop /\ MissingIndexes # {},
                                 !.drop = drop, !.todo = order]
      BY <1>2 DEF order
    <3> HIDE DEF Stopped
    <3> QED BY <2>1, <3>1, <3>2, Zenon DEF RunType
  <2> QED BY <1>1, <1>2, <2>2 DEF IInv, TypeOK, Stages
<1>4. HeightInv'
  BY <1>1, <1>2, FieldTypes, SMTT(60) DEF IInv, HeightInv, Stopped, Deciding, Importing, Rebuilding
<1>5. IndexInv'
  BY <1>1, <1>2, Zenon DEF IInv, IndexInv, Stopped, Importing, MissingIndexes, IndexDescriptions
<1>6. SpendInv'
  BY <1>1, <1>2, Zenon DEF IInv, SpendInv, Stopped, Deciding, Importing, Rebuilding, Stages,
                    NoImportLeft, MissingIndexes
<1> QED BY <1>3, <1>4, <1>5, <1>6 DEF IInv

\* The variables of SyncChainDB have their types.
LEMMA SyncChainDBRun ==
    ASSUME MaxHeight \in Nat, IInv, SyncChainDB
    PROVE  run' \in RunType
<1>1. CASE run.newIndexes \/ db.height = -1 \/ ~db.ibd
  <2>1. run' = [run EXCEPT !.nodeHeight = node, !.reindexing = TRUE,
                    !.updateAll = @ \/ ~db.ibd, !.ibdComplete = db.ibd,
                    !.dupChecks = @,
                    !.ib = db.height + 1, !.phase = "import",
                    !.todo = DeindexAllOrder]
    BY <1>1, Zenon DEF SyncChainDB
  <2>2. db.height + 1 \in 0 .. MaxHeight + 1
    BY FieldTypes, SMTT(60) DEF IInv
  <2> QED BY <2>1, <2>2, FieldTypes, OrderTypes, ZenonT(60) DEF IInv, RunType, Heights
<1>2. CASE ~(run.newIndexes \/ db.height = -1 \/ ~db.ibd)
  <2>1. run' = [run EXCEPT !.nodeHeight = node, !.reindexing = FALSE,
                    !.updateAll = @ \/ ~db.ibd, !.ibdComplete = db.ibd,
                    !.dupChecks = TRUE,
                    !.ib = db.height + 1, !.phase = "import",
                    !.todo = <<>>]
    BY <1>2, Zenon DEF SyncChainDB
  <2>2. db.height + 1 \in 0 .. MaxHeight + 1 /\ <<>> \in Seq(IndexDescriptions)
    BY FieldTypes, SMTT(60) DEF IInv
  <2> QED BY <2>1, <2>2, FieldTypes, OrderTypes, ZenonT(60) DEF IInv, RunType, Heights
<1> QED BY <1>1, <1>2

\* SyncChainDB skips a rebuilding only if all indexes are there and nothing waits
\* for the batch update.
LEMMA SyncChainDBInv ==
    ASSUME MaxHeight \in Nat, IInv, SyncChainDB
    PROVE  IInv'
<1>1. TypeOK'
  BY SyncChainDBRun DEF IInv, TypeOK, Stages, SyncChainDB
<1>2. HeightInv'
  BY DEF IInv, HeightInv, SpendInv, TypeOK, DatabaseType, RunType, Heights, Stages, Deciding, Importing,
     Rebuilding, SyncChainDB
<1>3. IndexInv'
  BY DEF IInv, IndexInv, SpendInv, TypeOK, DatabaseType, RunType, Tables, Importing, SyncChainDB
<1>4. SpendInv'
  BY Zenon DEF IInv, SpendInv, TypeOK, DatabaseType, RunType, Stages, Deciding, Importing, Rebuilding,
     NoImportLeft, MissingIndexes, SyncChainDB
<1> QED BY <1>1, <1>2, <1>3, <1>4 DEF IInv

\* DeindexAll ends with duplicate checks off.
LEMMA DeindexAllInv ==
    ASSUME MaxHeight \in Nat, IInv, DeindexAll
    PROVE  IInv'
<1>1. CASE run.todo # <<>>
  <2>1. db' = [db EXCEPT !.indexes = @ \ {Head(run.todo)}] /\ run' = [run EXCEPT !.todo = Tail(@)]
        /\ pc' = pc /\ node' = node /\ pc = "deindex"
    BY <1>1 DEF DeindexAll, DropIndex
  <2>2. Tail(run.todo) \in Seq(IndexDescriptions)
    BY <1>1, FieldTypes, HeadTail DEF IInv
  <2>3. TypeOK'
    BY <2>1, <2>2, Zenon DEF IInv, TypeOK, DatabaseType, RunType
  <2>4. HeightInv'
    BY <2>1, FieldTypes DEF IInv, HeightInv, DatabaseType, RunType, Deciding, Importing, Rebuilding
  <2>5. IndexInv'
    BY <2>1, FieldTypes DEF IInv, IndexInv, DatabaseType, RunType, Importing
  <2>6. SpendInv'
    BY <2>1, FieldTypes DEF IInv, SpendInv, DatabaseType, RunType, Deciding, Importing, Rebuilding,
       NoImportLeft, MissingIndexes, Stages
  <2> QED BY <2>3, <2>4, <2>5, <2>6 DEF IInv
<1>2. CASE run.todo = <<>> /\ run.drop
  <2>1. db' = db /\ run' = Stopped
        /\ pc' = "down" /\ node' = node 
    BY <1>2 DEF DeindexAll
  <2>3. TypeOK'
    BY <2>1 DEF IInv, TypeOK, RunType, Stopped, Heights, Stages
  <2>4. HeightInv'
    BY <2>1, FieldTypes DEF IInv, HeightInv, Stopped, Deciding, Importing, Rebuilding
  <2>5. IndexInv'
    BY <2>1, FieldTypes DEF IInv, IndexInv, Stopped, Importing
  <2>6. SpendInv'
    BY <2>1, FieldTypes DEF IInv, SpendInv, Stopped, Deciding, Importing, Rebuilding, NoImportLeft,
       MissingIndexes, Stages
  <2> QED BY <2>3, <2>4, <2>5, <2>6 DEF IInv
<1>3. CASE run.todo = <<>> /\ ~run.drop
  <2>1. db' = db /\ run' = [run EXCEPT !.dupChecks = FALSE]
        /\ pc' = "flag" /\ node' = node /\ pc = "deindex"
    BY <1>3 DEF DeindexAll
  <2>3. TypeOK'
    BY <2>1, Zenon DEF IInv, TypeOK, DatabaseType, RunType, Stages
  <2>4. HeightInv'
    BY <2>1, FieldTypes DEF IInv, HeightInv, DatabaseType, RunType, Deciding, Importing, Rebuilding
  <2>5. IndexInv'
    BY <1>3, <2>1, FieldTypes DEF IInv, IndexInv, SpendInv, DatabaseType, RunType, Importing
  <2>6. SpendInv'
    BY <1>3, <2>1, FieldTypes DEF IInv, SpendInv, DatabaseType, RunType, Deciding, Importing, Rebuilding,
       NoImportLeft, MissingIndexes, Stages
  <2> QED BY <2>3, <2>4, <2>5, <2>6 DEF IInv
<1> QED BY <1>1, <1>2, <1>3

\* ibd_complete is withdrawn before the first block of a rebuilding.
LEMMA FlagIncompleteInv ==
    ASSUME MaxHeight \in Nat, IInv, FlagIncomplete
    PROVE  IInv'
<1>1. TypeOK'
  BY ZenonT(60) DEF IInv, TypeOK, DatabaseType, RunType, Heights, Stages, Tables, IndexDescriptions,
     FlagIncomplete
<1>2. HeightInv'
  <2>1. /\ db'.height = db.height /\ db'.unmatched = db.unmatched
        /\ pc = "flag" /\ pc' = "import" /\ run' = run /\ node' = node
    BY FieldTypes DEF IInv, FlagIncomplete, DatabaseType
  <2> QED BY <2>1, FieldTypes DEF IInv, HeightInv, SpendInv, Deciding, Importing, Rebuilding, Stages
<1>3. IndexInv'
  BY DEF IInv, IndexInv, SpendInv, TypeOK, DatabaseType, RunType, Tables, Importing, FlagIncomplete
<1>4. SpendInv'
  BY DEF IInv, SpendInv, TypeOK, DatabaseType, RunType, Stages, Deciding, Importing, Rebuilding,
     NoImportLeft, MissingIndexes, FlagIncomplete
<1> QED BY <1>1, <1>2, <1>3, <1>4 DEF IInv

\* The import ends above the last block the node had, so no spend is of a later one.
LEMMA ImportNextInv ==
    ASSUME MaxHeight \in Nat, IInv, ImportNext
    PROVE  IInv'
<1>1. CASE run.ib <= run.nodeHeight
  <2>1. UNCHANGED <<db, node, run>> /\ pc = "import" /\ pc' = "store"
    BY <1>1 DEF ImportNext
  <2>3. TypeOK'
    BY <2>1 DEF IInv, TypeOK, Stages
  <2>4. HeightInv'
    BY <1>1, <2>1, FieldTypes DEF IInv, HeightInv, Deciding, Importing, Rebuilding
  <2>5. IndexInv'
    BY <2>1, FieldTypes DEF IInv, IndexInv, Importing
  <2>6. SpendInv'
    BY <2>1, FieldTypes DEF IInv, SpendInv, Deciding, Importing, Rebuilding, NoImportLeft,
       MissingIndexes, Stages
  <2> QED BY <2>3, <2>4, <2>5, <2>6 DEF IInv
<1>2. CASE run.ib > run.nodeHeight
  <2>1. UNCHANGED <<db, node>> /\ run' = [run EXCEPT !.endHeight = run.nodeHeight] /\ pc = "import"
    BY <1>2, FieldTypes DEF ImportNext, IInv
  <2>2. /\ run.phase = "catchup" => pc' = "synced"
        /\ run.phase = "import" /\ run.reindexing => pc' = "dedup"
        /\ run.phase = "import" /\ ~run.reindexing /\ run.updateAll => pc' = "spend"
        /\ run.phase = "import" /\ ~run.reindexing /\ ~run.updateAll => pc' = "finish"
    <3>1. pc' = AfterImport
      BY <1>2, FieldTypes DEF ImportNext, IInv
    <3> QED BY <3>1 DEF AfterImport
  <2>a. run.phase \in {"catchup", "import"} /\ ~run.drop
    BY <2>1, FieldTypes DEF IInv, SpendInv, Stages
  <2>3. TypeOK'
    BY <2>1, <2>2, <2>a, FieldTypes, Zenon DEF IInv, TypeOK, RunType, Stages, Heights
  <2>4. HeightInv'
    <3>1. CASE run.phase = "catchup"
      BY <3>1, <2>1, <2>2, FieldTypes DEF IInv, HeightInv, Deciding, Importing, Rebuilding, RunType
    <3>2. CASE run.phase = "import"
      <4>1. pc' \notin Deciding /\ pc' \notin Importing
        BY <3>2, <2>2 DEF Deciding, Importing
      <4>2. run.ib = db.height + 1 /\ \A u \in db.unmatched : u[1] <= db.height
        BY <3>2, <2>1, <2>a, <1>2, FieldTypes, SMTT(60) DEF IInv, HeightInv, Deciding
      <4>3. run.nodeHeight \in 0 .. db.height
        BY <4>2, <2>1, <2>a, <3>2, <1>2, FieldTypes DEF IInv, HeightInv, Deciding
      <4> QED BY <4>1, <4>2, <4>3, <2>1, FieldTypes DEF IInv, HeightInv, RunType, Importing
    <3> QED BY <3>1, <3>2, <2>a
  <2>5. IndexInv'
    BY <2>1, <2>2, <2>a, FieldTypes DEF IInv, IndexInv, Importing, RunType
  <2>6. SpendInv'
    BY <2>1, <2>2, <2>a, FieldTypes, Zenon DEF IInv, SpendInv, Deciding, Importing, Rebuilding,
       NoImportLeft, MissingIndexes, Stages, RunType
  <2> QED BY <2>3, <2>4, <2>5, <2>6 DEF IInv
<1> QED BY <1>1, <1>2, FieldTypes DEF IInv

\* A table gets the rows of one block above the recorded best block or of the best
\* block itself.
LEMMA StoreTableInv ==
    ASSUME MaxHeight \in Nat, IInv, NEW t \in Tables, StoreTable(t)
    PROVE  IInv'
<1>1. /\ pc = "store" /\ pc' = "store" /\ node' = node /\ ~run.drop
      /\ run' = [run EXCEPT !.written = @ \union {t}]
      /\ db' = InsertRows(db, t, run.ib)
  BY DEF StoreTable, IInv, SpendInv, Stages
<1>2. run.ib \in Heights /\ run.ib <= node /\ run.ib <= db.height + 1 /\ run.ib <= run.nodeHeight
  BY <1>1, FieldTypes, SMTT(60) DEF IInv, HeightInv, Deciding, Heights
<1>3. /\ db'.height = db.height /\ db'.indexes = db.indexes /\ db'.ibd = db.ibd
      /\ db'.unmatched \subseteq db.unmatched \union {<<run.ib, run.phase>>}
      /\ ~run.updateAll => db'.unmatched \subseteq db.unmatched
  BY <1>1, FieldTypes, SMTT(60) DEF IInv, InsertRows, DatabaseType
<1>4. TypeOK'
  <2>1. db'.rows \in SUBSET Tables /\ db'.dup \in SUBSET (Tables \X Heights)
    BY <1>1, <1>2, FieldTypes, SMTT(60) DEF IInv, InsertRows, DatabaseType
  <2>2. db'.unmatched \in SUBSET (Heights \X {"import", "catchup"})
    BY <1>2, <1>3, FieldTypes, SMTT(60) DEF IInv
  <2>3. db' \in DatabaseType
    BY <1>1, <2>1, <2>2, FieldTypes, Zenon DEF IInv, InsertRows, DatabaseType
  <2> QED BY <1>1, <2>3 DEF IInv, TypeOK, RunType
<1>5. run'.ib = run.ib /\ run'.phase = run.phase /\ run'.nodeHeight = run.nodeHeight
      /\ run'.drop = run.drop /\ run'.updateAll = run.updateAll /\ run'.dupChecks = run.dupChecks
      /\ run'.reindexing = run.reindexing
  BY <1>1, FieldTypes DEF IInv, RunType
<1>6. HeightInv'
  <2>1. \A u \in db'.unmatched : u \in db.unmatched \/ u[1] = run.ib
    BY <1>3
  <2> QED BY <1>1, <1>2, <1>3, <1>5, <2>1, FieldTypes, SMTT(60) DEF IInv, HeightInv, Deciding, Importing,
             Rebuilding
<1>7. IndexInv'
  BY <1>1, <1>3, <1>5 DEF IInv, IndexInv, Importing
<1>8. SpendInv'
  <2>1. \A u \in db'.unmatched : u \in db.unmatched \/ u[2] = run.phase
    BY <1>3
  <2> QED BY <1>1, <1>3, <1>5, <2>1, FieldTypes DEF IInv, SpendInv, Deciding, Importing, Rebuilding, Stages,
                    NoImportLeft, MissingIndexes
<1> QED BY <1>4, <1>6, <1>7, <1>8 DEF IInv

\* The recorded best block rises to the block just stored.
LEMMA SetDBBestBlockInv ==
    ASSUME MaxHeight \in Nat, IInv, SetDBBestBlock
    PROVE  IInv'
<1>1. /\ pc = "store" /\ pc' = "import" /\ node' = node /\ ~run.drop
      /\ run.ib <= node /\ run.ib <= db.height + 1 /\ run.ib <= run.nodeHeight
      /\ db.height <= node /\ run.nodeHeight <= node
  BY DEF SetDBBestBlock, IInv, SpendInv, Stages, HeightInv, Deciding, TypeOK, DatabaseType, RunType, Heights
<1>2. /\ db'.unmatched = db.unmatched /\ db'.indexes = db.indexes /\ db'.ibd = db.ibd
      /\ db'.height = IF run.ib > db.height THEN run.ib ELSE db.height
      /\ db' \in DatabaseType
  <2>1. CASE run.ib > db.height
    <3>1. db' = [db EXCEPT !.height = run.ib, !.rows = {}] /\ run.ib \in Heights
      BY <1>1, <2>1, FieldTypes, SMTT(60) DEF SetDBBestBlock, Heights, IInv
    <3> QED BY <2>1, <3>1, FieldTypes, Zenon DEF DatabaseType, IInv
  <2>2. CASE ~(run.ib > db.height)
    BY <2>2, FieldTypes DEF SetDBBestBlock, IInv
  <2> QED BY <2>1, <2>2
<1>3. /\ run'.ib = run.ib + 1 /\ run'.phase = run.phase /\ run'.drop = run.drop
      /\ run'.nodeHeight = IF run.ib = run.nodeHeight THEN node ELSE run.nodeHeight
      /\ run'.updateAll = run.updateAll /\ run'.dupChecks = run.dupChecks
      /\ run'.reindexing = run.reindexing
      /\ run' \in RunType
  <2> DEFINE nh == IF run.ib = run.nodeHeight THEN node ELSE run.nodeHeight
  <2>1. run' = [run EXCEPT !.ib = run.ib + 1, !.written = {}, !.nodeHeight = nh]
    BY DEF SetDBBestBlock
  <2>2. run.ib + 1 \in 0 .. MaxHeight + 1 /\ nh \in Heights
    BY <1>1, FieldTypes, SMTT(60) DEF IInv, Heights
  <2> HIDE DEF nh
  <2>3. run' \in RunType
    BY <2>1, <2>2, FieldTypes, Zenon DEF IInv, RunType
  <2>4. run'.nodeHeight = nh /\ run'.ib = run.ib + 1
    BY <2>1, FieldTypes DEF IInv, RunType
  <2> QED BY <2>1, <2>3, <2>4, FieldTypes DEF IInv, RunType, nh
<1>4. TypeOK'
  BY <1>1, <1>2, <1>3 DEF IInv, TypeOK, Stages
<1>5. HeightInv'
  <2>1. run'.phase = "import" => run.ib = db.height + 1
    BY <1>1, <1>3 DEF IInv, HeightInv, Deciding
  <2>2. db'.height >= db.height /\ db'.height <= node /\ run'.nodeHeight >= run.nodeHeight
        /\ run'.nodeHeight <= node /\ run'.nodeHeight \in Int /\ db'.height \in Int
    BY <1>1, <1>2, <1>3, FieldTypes, SMTT(60) DEF IInv
  <2>3. \A u \in db'.unmatched : u[1] <= node /\ u[1] <= db'.height + 1
    <3>1. db'.unmatched = db.unmatched /\ db.height \in Int /\ node \in Int
          /\ \A u \in db.unmatched : u[1] \in Int /\ u[1] <= node /\ u[1] <= db.height + 1
      <4>1. db'.unmatched = db.unmatched
        BY <1>2, Zenon
      <4>2. node \in Int
        BY FieldTypes DEF IInv
      <4> QED BY <4>1, <4>2, FieldTypes, Zenon DEF IInv, HeightInv
    <3> QED BY <2>2, <3>1
  <2>4. run'.phase = "import" =>
           /\ run'.ib = db'.height + 1
           /\ \A u \in db'.unmatched : u[1] <= db'.height \/ u[1] <= run'.nodeHeight
    BY <1>1, <1>2, <1>3, <2>1, <2>2, FieldTypes, SMTT(60) DEF IInv, HeightInv, Deciding
  <2>5. run'.nodeHeight >= 0 /\ run'.ib <= db'.height + 1 /\ run'.ib <= run'.nodeHeight + 1
    <3>1. /\ run.ib \in Int /\ run.nodeHeight \in Int /\ node \in Int /\ db.height \in Int
          /\ run.ib <= run.nodeHeight /\ run.nodeHeight >= 0 /\ run.ib <= db.height + 1
      BY <1>1, FieldTypes DEF IInv, HeightInv, Deciding
    <3>2. db'.height >= run.ib
      BY <1>2, <3>1
    <3>3. run'.ib = run.ib + 1 /\ run'.nodeHeight >= run.nodeHeight
      BY <1>3, <2>2, Zenon
    <3> QED BY <2>2, <3>1, <3>2, <3>3
  <2> QED BY <1>1, <2>2, <2>3, <2>4, <2>5 DEF HeightInv, Rebuilding
<1>6. IndexInv'
  BY <1>1, <1>2, <1>3 DEF IInv, IndexInv, Importing
<1>7. SpendInv'
  BY <1>1, <1>2, <1>3 DEF IInv, SpendInv, Deciding, Importing, Rebuilding, Stages, NoImportLeft,
     MissingIndexes
<1> QED BY <1>4, <1>5, <1>6, <1>7 DEF IInv

\* The list of indexes to create has every unique index.
LEMMA DeleteDuplicatesInv ==
    ASSUME MaxHeight \in Nat, IInv, DeleteDuplicates
    PROVE  IInv'
<1>1. TypeOK'
  <2>1. db' \in DatabaseType
    BY FieldTypes, Zenon DEF IInv, DeleteDuplicates, DatabaseType
  <2>2. run' \in RunType
    BY FieldTypes, OrderTypes, Zenon DEF IInv, DeleteDuplicates, RunType
  <2> QED BY <2>1, <2>2 DEF IInv, TypeOK, DeleteDuplicates, Stages
<1>2. HeightInv'
  BY DEF IInv, HeightInv, SpendInv, TypeOK, DatabaseType, RunType, Heights, Stages, Deciding, Importing,
         Rebuilding, DeleteDuplicates
<1>3. IndexInv'
  <2>1. pc' = "index" /\ run'.todo = IndexOrder
    BY FieldTypes DEF IInv, DeleteDuplicates, RunType
  <2> QED BY <2>1, OrderTypes DEF IndexInv, Importing
<1>4. SpendInv'
  BY DEF IInv, SpendInv, TypeOK, DatabaseType, RunType, Stages, Deciding, Importing, Rebuilding,
         NoImportLeft, MissingIndexes, DeleteDuplicates
<1> QED BY <1>1, <1>2, <1>3, <1>4 DEF IInv

\* An index leaves the list when it has been created.
LEMMA CreateIndexInv ==
    ASSUME MaxHeight \in Nat, IInv, CreateIndex
    PROVE  IInv'
<1>1. /\ Head(run.todo) \in IndexDescriptions /\ Tail(run.todo) \in Seq(IndexDescriptions)
      /\ \A i \in DOMAIN run.todo : \/ run.todo[i] = Head(run.todo)
                                    \/ \E j \in DOMAIN Tail(run.todo) : Tail(run.todo)[j] = run.todo[i]
  BY FieldTypes, HeadTail, Zenon DEF IInv, CreateIndex
<1>2. /\ pc = "index" /\ pc' = "index" /\ node' = node
      /\ run'.todo = Tail(run.todo) /\ db'.indexes = db.indexes \union {Head(run.todo)}
  BY FieldTypes DEF IInv, CreateIndex, RunType, DatabaseType
<1>3. TypeOK'
  <2>1. db' \in DatabaseType
    BY <1>1, FieldTypes, Zenon DEF IInv, CreateIndex, DatabaseType
  <2>2. run' \in RunType
    BY <1>1, FieldTypes, Zenon DEF IInv, CreateIndex, RunType
  <2> QED BY <1>2, <2>1, <2>2 DEF IInv, TypeOK
<1>4. HeightInv'
  BY DEF IInv, HeightInv, SpendInv, TypeOK, DatabaseType, RunType, Heights, Stages, Deciding, Importing,
         Rebuilding, CreateIndex
<1>5. IndexInv'
  <2>1. ASSUME NEW t \in Tables, t \notin db'.indexes
        PROVE  \E j \in DOMAIN run'.todo : run'.todo[j] = t
    <3>1. t \notin db.indexes /\ t # Head(run.todo)
      BY <1>2, <2>1
    <3>2. PICK i \in DOMAIN run.todo : run.todo[i] = t
      BY <1>2, <3>1 DEF IInv, IndexInv
    <3> QED BY <1>1, <1>2, <3>1, <3>2
  <2> QED BY <1>2, <2>1 DEF IndexInv, Importing
<1>6. SpendInv'
  BY DEF IInv, SpendInv, TypeOK, DatabaseType, RunType, Stages, Deciding, Importing, Rebuilding,
         NoImportLeft, MissingIndexes, CreateIndex
<1> QED BY <1>3, <1>4, <1>5, <1>6 DEF IInv

\* A failed CREATE INDEX ends the program as a crash does.
LEMMA CreateIndexFailsInv ==
    ASSUME MaxHeight \in Nat, IInv, CreateIndexFails
    PROVE  IInv'
<1>1. TypeOK'
  BY DEF IInv, TypeOK, DatabaseType, RunType, Heights, Stages, Tables, IndexDescriptions,
     CreateIndexFails, Stopped
<1>2. HeightInv'
  BY DEF IInv, HeightInv, SpendInv, TypeOK, DatabaseType, RunType, Heights, Stages, Deciding, Importing,
     Rebuilding, CreateIndexFails, Stopped
<1>3. IndexInv'
  BY DEF IInv, IndexInv, SpendInv, TypeOK, DatabaseType, RunType, Tables, Importing, CreateIndexFails,
     Stopped
<1>4. SpendInv'
  BY DEF IInv, SpendInv, TypeOK, DatabaseType, RunType, Stages, Deciding, Importing, Rebuilding,
     NoImportLeft, MissingIndexes, CreateIndexFails, Stopped
<1> QED BY <1>1, <1>2, <1>3, <1>4 DEF IInv

\* With the list done, every unique index is there.
LEMMA IndexedInv ==
    ASSUME MaxHeight \in Nat, IInv, Indexed
    PROVE  IInv'
<1>1. TypeOK'
  BY SMTT(60) DEF IInv, TypeOK, DatabaseType, RunType, Heights, Stages, Tables, IndexDescriptions, Indexed
<1>2. HeightInv'
  BY DEF IInv, HeightInv, SpendInv, TypeOK, DatabaseType, RunType, Heights, Stages, Deciding, Importing,
     Rebuilding, Indexed
<1>3. IndexInv'
  BY DEF IInv, IndexInv, SpendInv, TypeOK, DatabaseType, RunType, Tables, Importing, Indexed
<1>4. SpendInv'
  BY DEF IInv, SpendInv, TypeOK, DatabaseType, RunType, Stages, Deciding, Importing, Rebuilding,
     NoImportLeft, MissingIndexes, Indexed
<1> QED BY <1>1, <1>2, <1>3, <1>4 DEF IInv

\* The batch update drops no unique index.
LEMMA SpendDropIndexInv ==
    ASSUME MaxHeight \in Nat, IInv, SpendDropIndex
    PROVE  IInv'
<1>1. TypeOK'
  BY ZenonT(60) DEF IInv, TypeOK, DatabaseType, RunType, Heights, Stages, Tables, IndexDescriptions,
     SpendDropIndex, DropIndex
<1>2. HeightInv'
  BY DEF IInv, HeightInv, SpendInv, TypeOK, DatabaseType, RunType, Heights, Stages, Deciding, Importing,
     Rebuilding, SpendDropIndex, DropIndex
<1>3. IndexInv'
  BY DEF IInv, IndexInv, SpendInv, TypeOK, DatabaseType, RunType, Tables, Importing, SpendDropIndex,
     DropIndex
<1>4. SpendInv'
  BY DEF IInv, SpendInv, TypeOK, DatabaseType, RunType, Stages, Deciding, Importing, Rebuilding,
     NoImportLeft, MissingIndexes, SpendDropIndex, DropIndex
<1> QED BY <1>1, <1>2, <1>3, <1>4 DEF IInv

\* The batch update leaves no block of the import behind.
LEMMA UpdateSpendingInfoInv ==
    ASSUME MaxHeight \in Nat, IInv, UpdateSpendingInfoInAllAddresses
    PROVE  IInv'
<1>1. TypeOK'
  BY DEF IInv, TypeOK, DatabaseType, Stages, UpdateSpendingInfoInAllAddresses
<1>2. HeightInv'
  BY DEF IInv, HeightInv, TypeOK, DatabaseType, RunType, Heights, Deciding, Importing, Rebuilding,
         UpdateSpendingInfoInAllAddresses
<1>3. IndexInv'
  BY DEF IInv, IndexInv, TypeOK, DatabaseType, Importing, UpdateSpendingInfoInAllAddresses
<1>4. SpendInv'
  <2>1. /\ db'.unmatched = {u \in db.unmatched : u[1] > db.height}
        /\ db'.ibd = db.ibd /\ db'.indexes = db.indexes
        /\ pc = "match" /\ pc' = "rematch" /\ run' = run
    BY FieldTypes DEF IInv, UpdateSpendingInfoInAllAddresses, DatabaseType
  <2>2. db'.unmatched = {}
    BY <2>1, FieldTypes, SMTT(60) DEF IInv, HeightInv, Rebuilding
  <2> QED BY <2>1, <2>2 DEF IInv, SpendInv, Deciding, Importing, Rebuilding, Stages, NoImportLeft,
             MissingIndexes
<1> QED BY <1>1, <1>2, <1>3, <1>4 DEF IInv

\* The index on matching_tx_hash comes back after the update it would slow down.
LEMMA IndexAddressTableOnMatchingTxHashInv ==
    ASSUME MaxHeight \in Nat, IInv, IndexAddressTableOnMatchingTxHash
    PROVE  IInv'
<1>1. TypeOK'
  BY Zenon DEF IInv, TypeOK, DatabaseType, RunType, Heights, Stages, Tables, IndexDescriptions,
     IndexAddressTableOnMatchingTxHash
<1>2. HeightInv'
  BY DEF IInv, HeightInv, SpendInv, TypeOK, DatabaseType, RunType, Heights, Stages, Deciding, Importing,
     Rebuilding, IndexAddressTableOnMatchingTxHash
<1>3. IndexInv'
  BY DEF IInv, IndexInv, SpendInv, TypeOK, DatabaseType, RunType, Tables, Importing,
     IndexAddressTableOnMatchingTxHash
<1>4. SpendInv'
  BY DEF IInv, SpendInv, TypeOK, DatabaseType, RunType, Stages, Deciding, Importing, Rebuilding,
     NoImportLeft, MissingIndexes, IndexAddressTableOnMatchingTxHash
<1> QED BY <1>1, <1>2, <1>3, <1>4 DEF IInv

\* ibd_complete is set when no block of the import waits for its spends.
LEMMA SetIBDCompleteInv ==
    ASSUME MaxHeight \in Nat, IInv, SetIBDComplete
    PROVE  IInv'
<1>1. TypeOK'
  <2>1. run.endHeight \in 0 .. MaxHeight + 1
    BY FieldTypes DEF IInv, HeightInv, SetIBDComplete
  <2>2. run' \in RunType
    BY <2>1, FieldTypes, Zenon DEF IInv, SetIBDComplete, RunType
  <2> QED BY <2>2, Zenon DEF IInv, TypeOK, DatabaseType, SetIBDComplete, Stages
<1>2. HeightInv'
  BY DEF IInv, HeightInv, SpendInv, TypeOK, DatabaseType, RunType, Heights, Stages, Deciding, Importing,
     Rebuilding, SetIBDComplete
<1>3. IndexInv'
  BY DEF IInv, IndexInv, SpendInv, TypeOK, DatabaseType, RunType, Tables, Importing, SetIBDComplete
<1>4. SpendInv'
  BY DEF IInv, SpendInv, TypeOK, DatabaseType, RunType, Stages, Deciding, Importing, Rebuilding,
     NoImportLeft, MissingIndexes, SetIBDComplete
<1> QED BY <1>1, <1>2, <1>3, <1>4 DEF IInv

\* The last check of main starts a second SyncChainDB on a finished database only.
LEMMA FinalCheckInv ==
    ASSUME MaxHeight \in Nat, IInv, FinalCheck
    PROVE  IInv'
<1>1. CASE ~run.second /\ node # db.height
  <2>1. /\ run' = [run EXCEPT !.second = TRUE, !.newIndexes = FALSE, !.updateAll = FALSE]
        /\ pc = "synced" /\ pc' = "open" /\ UNCHANGED <<node, db>>
    BY <1>1 DEF FinalCheck
  <2>2. TypeOK'
    BY <2>1, Zenon DEF IInv, TypeOK, RunType, Stages
  <2>3. HeightInv'
    BY <2>1, FieldTypes DEF IInv, HeightInv, RunType, Deciding, Importing, Rebuilding
  <2>4. IndexInv'
    BY <2>1, FieldTypes DEF IInv, IndexInv, RunType, Importing
  <2>5. SpendInv'
    BY <2>1, FieldTypes DEF IInv, SpendInv, RunType, Deciding, Importing, Rebuilding, Stages,
                            NoImportLeft, MissingIndexes
  <2> QED BY <2>2, <2>3, <2>4, <2>5 DEF IInv
<1>2. CASE ~(~run.second /\ node # db.height)
  <2>1. pc = "synced" /\ pc' = "live" /\ UNCHANGED <<node, db, run>>
    BY <1>2 DEF FinalCheck
  <2>2. TypeOK'
    BY <2>1 DEF IInv, TypeOK, Stages
  <2>3. HeightInv'
    BY <2>1 DEF IInv, HeightInv, Deciding, Importing, Rebuilding
  <2>4. IndexInv'
    BY <2>1 DEF IInv, IndexInv, Importing
  <2>5. SpendInv'
    BY <2>1 DEF IInv, SpendInv, Deciding, Importing, Rebuilding, Stages, NoImportLeft, MissingIndexes
  <2> QED BY <2>2, <2>3, <2>4, <2>5 DEF IInv
<1> QED BY <1>1, <1>2

-----------------------------------------------------------------------------
(* The theorems. *)

\* The invariant holds of every reachable state, for any number of blocks and of
\* crashes.
LEMMA SyncInvariant ==
    ASSUME MaxHeight \in Nat
    PROVE  Spec => []IInv
<1>1. Init => IInv
  <2> SUFFICES ASSUME Init PROVE IInv
    OBVIOUS
  <2>1. /\ db.unmatched = {} /\ db.height <= 0 /\ db \in DatabaseType
        /\ pc = "down" /\ run = Stopped /\ node \in 0 .. MaxHeight
        /\ db.height \in Int
    <3>1. FreshDB \in DatabaseType /\ FreshDB.unmatched = {} /\ FreshDB.height = -1
      BY DEF FreshDB, DatabaseType, Heights
    <3>2. /\ 0 \in Heights /\ IndexDescriptions \in SUBSET IndexDescriptions
          /\ UpgradedDB = [FreshDB EXCEPT !.height = 0, !.indexes = IndexDescriptions, !.ibd = TRUE]
      BY DEF Heights, UpgradedDB
    <3>3. UpgradedDB \in DatabaseType /\ UpgradedDB.unmatched = {} /\ UpgradedDB.height = 0
      BY <3>1, <3>2, Zenon DEF DatabaseType
    <3> QED BY <3>1, <3>3 DEF Init
  <2>2. TypeOK
    BY <2>1 DEF TypeOK, RunType, Stopped, Heights, Stages
  <2>3. HeightInv
    BY <2>1 DEF HeightInv, Stopped, Deciding, Importing, Rebuilding
  <2>4. IndexInv
    BY <2>1 DEF IndexInv, Importing
  <2>5. SpendInv
    BY <2>1 DEF SpendInv, Stopped, Deciding, Importing, Rebuilding, NoImportLeft, Stages
  <2> QED BY <2>2, <2>3, <2>4, <2>5 DEF IInv
<1>2. IInv /\ [Next]_vars => IInv'
  <2> SUFFICES ASSUME IInv, [Next]_vars PROVE IInv'
    BY Zenon
  <2>1. CASE UNCHANGED vars
    BY <2>1 DEF vars, IInv, TypeOK, HeightInv, IndexInv, SpendInv, NoImportLeft, MissingIndexes
  <2>2. CASE Start(TRUE) \/ Start(FALSE)
    BY <2>2, StartInv, Zenon
  <2>3. CASE \E t \in Tables : StoreTable(t)
    BY <2>3, StoreTableInv
  <2>4. CASE NodeBlock \/ Crash
    BY <2>4, NodeBlockInv, CrashInv
  <2>5. CASE SyncChainDB \/ DeindexAll \/ FlagIncomplete \/ ImportNext \/ SetDBBestBlock
    BY <2>5, SyncChainDBInv, DeindexAllInv, FlagIncompleteInv, ImportNextInv, SetDBBestBlockInv
  <2>6. CASE DeleteDuplicates \/ CreateIndex \/ CreateIndexFails \/ Indexed \/ SpendDropIndex
    BY <2>6, DeleteDuplicatesInv, CreateIndexInv, CreateIndexFailsInv, IndexedInv, SpendDropIndexInv
  <2>7. CASE \/ UpdateSpendingInfoInAllAddresses \/ IndexAddressTableOnMatchingTxHash
             \/ SetIBDComplete \/ FinalCheck
    BY <2>7, UpdateSpendingInfoInv, IndexAddressTableOnMatchingTxHashInv, SetIBDCompleteInv, FinalCheckInv
  <2> QED BY <2>1, <2>2, <2>3, <2>4, <2>5, <2>6, <2>7, Zenon DEF Next, Work
<1> QED BY <1>1, <1>2, PTL DEF Spec

\* Whatever index a crash, a failed start or a run with the flag to drop indexes
\* left missing, StoreBlock never upserts into a table without its unique index,
\* and the program that listens to the node has them all.
THEOREM UpsertsAlwaysHaveIndexes ==
    ASSUME MaxHeight \in Nat
    PROVE  Spec => []UpsertsHaveIndexes
<1>1. IInv => UpsertsHaveIndexes
  BY DEF IInv, IndexInv, UpsertsHaveIndexes, Importing
<1> QED BY <1>1, SyncInvariant, PTL

\* A start that finds ibd_complete set and no index missing, and so skips the
\* batch update of the addresses, skips nothing that was due: every block imported
\* for it has its spending information, wherever the program stopped before.
THEOREM NoBatchUpdateIsSkipped ==
    ASSUME MaxHeight \in Nat
    PROVE  Spec => []NothingLeftUndone
<1>1. IInv => NothingLeftUndone
  BY DEF IInv, SpendInv, NothingLeftUndone, NoImportLeft
<1> QED BY <1>1, SyncInvariant, PTL
=============================================================================
