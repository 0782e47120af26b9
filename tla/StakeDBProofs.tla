--------------------------- MODULE StakeDBProofs ---------------------------
(***************************************************************************)
(* Proofs about StakeDB: as long as no write is lost, the stake node, the  *)
(* pool diffs, the pool and the live ticket cache describe one chain, for  *)
(* any tree of blocks and any sequence of operations and restarts.         *)
(***************************************************************************)
EXTENDS StakeDB, BlockTreeProofs, SequenceTheorems

\* Applying a block's diff to its parent's live tickets gives its own, and
\* applying it backwards gives the parent's again.
LEMMA DiffFacts ==
    ASSUME NEW b \in Blocks
    PROVE  /\ ApplyDiff(Live[Parent(b)], In(b), Out(b)) = Live[b]
           /\ Retreat(Live[b], b) = Live[Parent(b)]
BY DEF ApplyDiff, Retreat, In, Out

-----------------------------------------------------------------------------
(* Types. *)

\* The holder of PoolDB.mtx aims inside the diffs, and a start holds it only
\* while it advances.
GoalInv ==
    /\ goal <= Len(diffs)
    /\ op \in {"down", "level", "recover", "rewind"} => goal = -1

\* A block waits for its diff exactly while ConnectBlock is between its writes.
ConnInv == op = "append" => conn \in Blocks \ {Genesis}

BaseInv == TypeOK /\ GoalInv /\ ConnInv

\* The stake package's tickets stay within Tickets.
LEMMA TicketTypes ==
    ASSUME NEW b \in Blocks
    PROVE  /\ Live[b] \in SUBSET Tickets /\ Parent(b) \in Blocks
           /\ In(b) \in SUBSET Tickets /\ Out(b) \in SUBSET Tickets
<1>1. Parent(b) \in Blocks
  <2>1. CASE b = Genesis
    BY <2>1, GenesisHeight, ChainAssumption DEF Parent
  <2>2. CASE b # Genesis
    BY <2>2, ParentFacts
  <2> QED BY <2>1, <2>2
<1> QED BY <1>1, TicketAssumption DEF In, Out

\* trim keeps the types and leaves the cursor within the shorter diffs.
LEMMA TrimType ==
    ASSUME TypeOK, Len(diffs) >= 1, Trim
    PROVE  /\ diffs' = SubSeq(diffs, 1, Len(diffs) - 1)
           /\ diffs' \in Seq(Blocks)
           /\ Len(diffs') = Len(diffs) - 1
           /\ \A i \in 1 .. Len(diffs) - 1 : diffs'[i] = diffs[i]
           /\ cursor' \in 0 .. Len(diffs) - 1
           /\ pool' \in SUBSET Tickets
           /\ \/ cursor' = cursor /\ pool' = pool
              \/ cursor >= 1 /\ cursor' = cursor - 1 /\ pool' = Retreat(pool, diffs[cursor])
              \/ /\ cursor >= 2 /\ cursor' = cursor - 2
                 /\ pool' = Retreat(Retreat(pool, diffs[cursor]), diffs[cursor - 1])
<1>1. Len(diffs) \in Nat /\ (\A i \in 1 .. Len(diffs) : diffs[i] \in Blocks) /\ cursor \in 0 .. Len(diffs)
  BY LenProperties, ElementOfSeq DEF TypeOK
<1>2. diffs' = SubSeq(diffs, 1, Len(diffs) - 1)
  BY DEF Trim, Tip
<1>3. /\ diffs' \in Seq(Blocks)
      /\ Len(diffs') = Len(diffs) - 1
      /\ \A i \in 1 .. Len(diffs) - 1 : diffs'[i] = diffs[i]
  <2>1. \A j \in 1 .. Len(diffs) - 1 : diffs[j] \in Blocks
    BY <1>1
  <2>2. Len(diffs) - 1 \in Int /\ 1 \in Int
    BY <1>1
  <2>3. /\ SubSeq(diffs, 1, Len(diffs) - 1) \in Seq(Blocks)
        /\ Len(SubSeq(diffs, 1, Len(diffs) - 1)) =
             IF 1 <= Len(diffs) - 1 THEN Len(diffs) - 1 - 1 + 1 ELSE 0
        /\ \A j \in 1 .. Len(diffs) - 1 - 1 + 1 :
             SubSeq(diffs, 1, Len(diffs) - 1)[j] = diffs[1 + j - 1]
    BY <2>1, <2>2, SubSeqProperties
  <2>4. Len(diffs) - 1 - 1 + 1 = Len(diffs) - 1 /\ (\A j \in 1 .. Len(diffs) - 1 : 1 + j - 1 = j)
    BY <1>1
  <2>5. \A j \in 1 .. Len(diffs) - 1 : SubSeq(diffs, 1, Len(diffs) - 1)[j] = diffs[j]
    BY <2>3, <2>4
  <2> QED BY <2>3, <2>4, <2>5, <1>1, <1>2
<1> DEFINE top == MaxCursor(Len(diffs) - 1)
           one == Retreat(pool, diffs[cursor])
           two == Retreat(one, diffs[cursor - 1])
<1>4. \/ cursor <= top /\ cursor' = cursor /\ pool' = pool
      \/ cursor > top /\ cursor' = cursor - 1 /\ pool' = one
      \/ cursor > top + 1 /\ cursor' = cursor - 2 /\ pool' = two
  <2> DEFINE stops == cursor = top + 1 \/ ~SizeOK(pool, one, Out(diffs[cursor]), In(diffs[cursor]))
  <2>1. IF cursor <= top THEN UNCHANGED <<cursor, pool>>
        ELSE IF stops THEN cursor' = cursor - 1 /\ pool' = one
        ELSE cursor' = cursor - 2 /\ pool' = two
    BY DEF Trim, Tip
  <2>2. top \in Nat
    BY <1>1 DEF MaxCursor
  <2>3. cursor <= top \/ cursor = top + 1 \/ cursor > top + 1
    BY <2>2, <1>1
  <2> HIDE DEF top, one, two
  <2> QED BY <2>1, <2>2, <2>3, <1>1
<1>t. (Len(diffs) = 1 /\ top = 0) \/ (Len(diffs) > 1 /\ top = Len(diffs) - 2)
  <2>1. \A n \in Nat : n >= 1 =>
          (n = 1 /\ MaxCursor(n - 1) = 0) \/ (n > 1 /\ MaxCursor(n - 1) = n - 2)
    BY DEF MaxCursor
  <2>2. Len(diffs) \in Nat /\ Len(diffs) >= 1
    BY <1>1
  <2> QED BY <2>1, <2>2, Zenon
<1> HIDE DEF top, one, two
<1>5. cursor' \in 0 .. Len(diffs) - 1
  BY <1>1, <1>4, <1>t
<1>6. pool' \in SUBSET Tickets
  <2>1. pool \in SUBSET Tickets
    BY DEF TypeOK
  <2>2. ASSUME NEW q \in SUBSET Tickets, NEW b \in Blocks
        PROVE  Retreat(q, b) \in SUBSET Tickets
    <3>1. Out(b) \in SUBSET Tickets
      BY TicketTypes
    <3> QED BY <3>1 DEF Retreat, ApplyDiff
  <2>3. cursor > top => diffs[cursor] \in Blocks
    BY <1>1, <1>t
  <2>4. cursor > top + 1 => diffs[cursor - 1] \in Blocks /\ cursor > top
    BY <1>1, <1>t
  <2> QED BY <1>4, <2>1, <2>2, <2>3, <2>4 DEF one, two
<1>7. \/ cursor' = cursor /\ pool' = pool
      \/ cursor >= 1 /\ cursor' = cursor - 1 /\ pool' = one
      \/ cursor >= 2 /\ cursor' = cursor - 2 /\ pool' = two
  BY <1>1, <1>4, <1>t
<1> QED BY <1>2, <1>3, <1>5, <1>6, <1>7 DEF one, two

\* disconnectBlock keeps the types.
LEMMA DisconnectType ==
    ASSUME BaseInv, Disconnect, Height(bestNode) >= 1
    PROVE  /\ stakeTip' \in Blocks /\ bestNode' \in Blocks
           /\ disk' = disk /\ goal' = goal /\ goal = -1
           /\ diffs' \in Seq(Blocks) /\ Len(diffs') <= MaxHeight
           /\ cursor' \in 0 .. Len(diffs')
           /\ pool' \in SUBSET Tickets
<1>1. Len(diffs) \in Nat /\ Height(bestNode) \in Nat
  BY LenProperties, ChainType, BoundAssumption, HeightAssumption DEF BaseInv, TypeOK
<1>2. /\ stakeTip' \in Blocks /\ bestNode' \in Blocks
      /\ disk' = disk /\ goal' = goal /\ goal = -1
  BY TicketTypes DEF Disconnect, BaseInv, TypeOK
<1>3. CASE Tip > Height(bestNode) - 1
  <2>1. Trim /\ Len(diffs) >= 1
    BY <1>1, <1>3 DEF Disconnect, Tip
  <2> QED BY <1>1, <1>2, <2>1, TrimType, BoundAssumption, HeightAssumption DEF BaseInv, TypeOK
<1>4. CASE ~(Tip > Height(bestNode) - 1)
  BY <1>1, <1>2, <1>4 DEF Disconnect, BaseInv, TypeOK
<1> QED BY <1>3, <1>4

\* Loading gives the diffs on disk, in the order of height.
LEMMA LoadType ==
    ASSUME TypeOK, NEW tip \in Blocks, Load(tip)
    PROVE  /\ diffs' \in Seq(Blocks) /\ Len(diffs') \in 0 .. MaxHeight
           /\ \A i \in 1 .. Len(diffs') : diffs'[i] = disk[i] /\ disk[i] # NoBlock
           /\ \A i \in 1 .. MaxHeight : i > Len(diffs') => disk[i] = NoBlock
           /\ stakeTip' = tip /\ bestNode' = tip
           /\ cursor' = 0 /\ pool' = {} /\ live' = {}
<1>1. PICK n \in 0 .. MaxHeight :
        /\ \A i \in 1 .. MaxHeight : disk[i] # NoBlock <=> i <= n
        /\ diffs' = [i \in 1 .. n |-> disk[i]]
  BY DEF Load
<1>2. n \in Nat /\ n <= MaxHeight
  BY BoundAssumption, HeightAssumption
<1>3. \A i \in 1 .. n : disk[i] \in Blocks /\ disk[i] # NoBlock
  BY <1>1, <1>2, BoundAssumption, HeightAssumption DEF TypeOK
<1>4. diffs' \in [1 .. n -> Blocks]
  BY <1>1, <1>3
<1>5. diffs' \in Seq(Blocks)
  BY <1>2, <1>4, SeqDef
<1>6. Len(diffs') = n
  BY <1>1, <1>2
<1> QED BY <1>1, <1>2, <1>3, <1>5, <1>6, BoundAssumption, HeightAssumption DEF Load

\* A new stake database has the types and the idle operation state.
LEMMA InitBase == Init => BaseInv
<1> SUFFICES ASSUME Init PROVE BaseInv
  OBVIOUS
<1> USE DEF Init
<1>1. diffs \in Seq(Blocks) /\ Len(diffs) = 0
  BY EmptySeq
<1>2. disk \in [1 .. MaxHeight -> Blocks \cup {NoBlock}]
  OBVIOUS
<1>3. torn \in BOOLEAN
  BY Zenon
<1>4. /\ stakeTip \in Blocks /\ bestNode \in Blocks
      /\ pool \in SUBSET Tickets /\ live \in SUBSET Tickets
  BY ChainAssumption, Zenon
<1> QED BY <1>1, <1>2, <1>3, <1>4, BoundAssumption, HeightAssumption DEF BaseInv, TypeOK, GoalInv, ConnInv

\* Every step keeps the types.
LEMMA NextBase == BaseInv /\ [Next]_vars => BaseInv'
<1> SUFFICES ASSUME BaseInv, [Next]_vars PROVE BaseInv'
  OBVIOUS
<1> USE DEF BaseInv, GoalInv, ConnInv
<1>a. /\ Len(diffs) \in Nat /\ (\A i \in 1 .. Len(diffs) : diffs[i] \in Blocks)
      /\ Height(bestNode) \in Nat
  BY LenProperties, ElementOfSeq, ChainType, BoundAssumption, HeightAssumption DEF TypeOK
<1>b. \A q \in SUBSET Tickets, b \in Blocks :
        /\ ApplyDiff(q, In(b), Out(b)) \in SUBSET Tickets
        /\ Retreat(q, b) \in SUBSET Tickets
  <2> SUFFICES ASSUME NEW q \in SUBSET Tickets, NEW b \in Blocks
               PROVE  /\ ApplyDiff(q, In(b), Out(b)) \in SUBSET Tickets
                      /\ Retreat(q, b) \in SUBSET Tickets
    BY Zenon
  <2>1. In(b) \in SUBSET Tickets /\ Out(b) \in SUBSET Tickets
    BY TicketTypes
  <2> QED BY <2>1 DEF ApplyDiff, Retreat
<1>1. ASSUME NEW b \in Blocks, ConnectNode(b) PROVE BaseInv'
  BY <1>1 DEF ConnectNode, Connectable, poolVars, boundVars, TypeOK
<1>2. ASSUME NEW b \in Blocks, ConnectRejected(b) PROVE BaseInv'
  BY <1>2, BoundAssumption, HeightAssumption
  DEF ConnectRejected, Connectable, GiveUp, Fail, diskVars, poolVars, TypeOK
<1>3. ASSUME NEW b \in Blocks, StakeWriteFails(b) PROVE BaseInv'
  <2>1. torn' \in BOOLEAN
    BY <1>3, Zenon DEF StakeWriteFails
  <2> QED BY <1>3, <2>1, BoundAssumption, HeightAssumption
          DEF StakeWriteFails, Connectable, GiveUp, Fail, diskVars, poolVars, TypeOK
<1>4. ASSUME NEW ok \in BOOLEAN, AppendDiff(ok),
             fails' \in 0 .. MaxFails, torn' \in BOOLEAN
      PROVE  BaseInv'
  <2>1. op = "append" /\ conn \in Blocks /\ conn # Genesis /\ Height(conn) \in 0 .. MaxHeight /\ goal = -1
    BY <1>4, ChainType DEF AppendDiff
  <2>2. live' \in SUBSET Tickets
    BY <1>4, <1>b, <2>1, Zenon DEF AppendDiff, TypeOK
  <2>3. diffs' \in Seq(Blocks) /\ Len(diffs') <= MaxHeight /\ Len(diffs') >= Len(diffs)
        /\ disk' \in [1 .. MaxHeight -> Blocks \cup {NoBlock}]
    <3>1. CASE Height(conn) = Tip + 1
      <4>1. diffs' = Append(diffs, conn)
        BY <1>4, <3>1 DEF AppendDiff
      <4>2. diffs' \in Seq(Blocks) /\ Len(diffs') = Len(diffs) + 1
        BY <4>1, <2>1, AppendProperties DEF TypeOK
      <4>3. disk' = [disk EXCEPT ![Height(conn)] = conn] \/ disk' = disk
        BY <1>4, <3>1 DEF AppendDiff
      <4> QED BY <4>2, <4>3, <3>1, <2>1, <1>a, BoundAssumption, HeightAssumption DEF Tip, TypeOK
    <3>2. CASE Height(conn) # Tip + 1
      BY <1>4, <3>2, <1>a, BoundAssumption, HeightAssumption DEF AppendDiff, TypeOK
    <3> QED BY <3>1, <3>2
  <2>4. /\ op' \in {"idle", "connect"} /\ conn' = NoBlock /\ target' \in Blocks \cup {NoBlock}
    BY <1>4 DEF AppendDiff, GiveUp, TypeOK
  <2>5. UNCHANGED <<stakeTip, bestNode, cursor, pool, goal, floor, crashes>>
    BY <1>4 DEF AppendDiff
  <2>6. Len(diffs') \in Nat /\ cursor \in 0 .. Len(diffs')
    BY <2>3, <1>a, LenProperties DEF TypeOK
  <2> QED BY <1>4, <2>1, <2>2, <2>3, <2>4, <2>5, <2>6 DEF TypeOK
<1>5. CASE AppendStored
  BY <1>5, <1>4, Zenon DEF AppendStored, TypeOK
<1>6. CASE AppendNotStored
  <2>1. torn' \in BOOLEAN
    BY <1>6, Zenon DEF AppendNotStored
  <2>2. fails' \in 0 .. MaxFails
    BY <1>6, BoundAssumption, HeightAssumption DEF AppendNotStored, Fail, TypeOK
  <2> QED BY <1>6, <2>1, <2>2, <1>4, Zenon DEF AppendNotStored
<1>7. ASSUME NEW b \in Blocks, StartReorg(b) PROVE BaseInv'
  <2>1. PICK h \in 0 .. Height(bestNode) : floor' = h
    BY <1>7 DEF StartReorg
  <2>2. floor' \in 0 .. MaxHeight
    BY <2>1, <1>a, ChainType, HeightAssumption DEF TypeOK
  <2> QED BY <1>7, <1>a, <2>2 DEF StartReorg, diskVars, poolVars, boundVars, TypeOK
<1>8. ASSUME NEW h \in 0 .. MaxHeight, StartRewind(h) PROVE BaseInv'
  BY <1>8 DEF StartRewind, diskVars, poolVars, boundVars, TypeOK
<1>9. ASSUME NEW lost, DisconnectBlock(lost), fails' \in 0 .. MaxFails, torn' \in BOOLEAN
      PROVE  BaseInv'
  <2>1. Disconnect /\ Height(bestNode) >= 1 /\ UNCHANGED <<opVars, crashes>>
    BY <1>9, <1>a DEF DisconnectBlock, TypeOK
  <2>2. live' \in SUBSET Tickets
    <3>1. CASE Tip > Height(bestNode) - 1
      <4>1. diffs[Tip] \in Blocks
        BY <3>1, <2>1, <1>a DEF Tip
      <4>2. Out(diffs[Tip]) \in SUBSET Tickets
        BY <4>1, TicketTypes
      <4> QED BY <4>2, <3>1, <1>9 DEF DisconnectBlock, ApplyDiff, TypeOK
    <3>2. CASE ~(Tip > Height(bestNode) - 1)
      BY <3>2, <1>9 DEF DisconnectBlock, TypeOK
    <3> QED BY <3>1, <3>2
  <2>3. Len(diffs') \in Nat
    BY <2>1, DisconnectType, LenProperties
  <2>4. /\ stakeTip' \in Blocks /\ bestNode' \in Blocks
        /\ disk' = disk /\ goal' = goal /\ goal = -1
        /\ diffs' \in Seq(Blocks) /\ Len(diffs') <= MaxHeight
        /\ cursor' \in 0 .. Len(diffs')
        /\ pool' \in SUBSET Tickets
    BY <2>1, DisconnectType
  <2>5. UNCHANGED <<op, conn, target, floor, crashes>>
    BY <2>1 DEF opVars
  <2> QED BY <1>9, <2>2, <2>3, <2>4, <2>5 DEF TypeOK
<1>10. CASE DisconnectClean
  BY <1>10, <1>9, Zenon DEF DisconnectClean, TypeOK
<1>11. CASE DisconnectLossy
  <2>1. torn' \in BOOLEAN
    BY <1>11, Zenon DEF DisconnectLossy
  <2>2. fails' \in 0 .. MaxFails
    BY <1>11, BoundAssumption, HeightAssumption DEF DisconnectLossy, Fail, TypeOK
  <2> QED BY <1>11, <2>1, <2>2, <1>9 DEF DisconnectLossy
<1>12. CASE Disconnected
  BY <1>12 DEF Disconnected, diskVars, poolVars, boundVars, TypeOK
<1>13. ASSUME NEW h \in 0 .. MaxHeight, PoolRequest(h) PROVE BaseInv'
  BY <1>13, ChainType DEF PoolRequest, Up, Tip, diskVars, opVars, boundVars, TypeOK
<1>14. ASSUME NEW q \in SUBSET Tickets, NEW c \in 0 .. Len(diffs), NEW in, NEW out,
              Up, PoolMove(q, in, out, c)
       PROVE  BaseInv'
  BY <1>14, BoundAssumption, HeightAssumption DEF PoolMove, Up, diskVars, opVars, boundVars, TypeOK
<1>15. CASE PoolAdvance
  <2>1. cursor + 1 \in 1 .. Len(diffs) /\ cursor + 1 \in 0 .. Len(diffs)
    BY <1>15, <1>a DEF PoolAdvance, TypeOK
  <2>2. ApplyDiff(pool, In(diffs[cursor + 1]), Out(diffs[cursor + 1])) \in SUBSET Tickets
    BY <2>1, <1>a, <1>b, Zenon DEF TypeOK
  <2> QED BY <1>14, <1>15, <2>1, <2>2 DEF PoolAdvance
<1>16. CASE PoolRetreat
  <2>1. cursor \in 1 .. Len(diffs) /\ cursor - 1 \in 0 .. Len(diffs)
    BY <1>16, <1>a DEF PoolRetreat, TypeOK
  <2>2. Retreat(pool, diffs[cursor]) \in SUBSET Tickets
    BY <2>1, <1>a, <1>b, Zenon DEF TypeOK
  <2> QED BY <1>14, <1>16, <2>1, <2>2 DEF PoolRetreat
<1>17. CASE PoolReturn
  BY <1>17, <1>a, BoundAssumption, HeightAssumption DEF PoolReturn, Up, diskVars, opVars, boundVars, TypeOK
<1>18. ASSUME NEW tip \in Blocks, Load(tip), op' \in {"level", "recover"}, goal' = -1,
              floor' \in 0 .. MaxHeight, fails' \in 0 .. MaxFails,
              UNCHANGED <<disk, conn, target, crashes, torn>>
       PROVE  BaseInv'
  <2>1. /\ diffs' \in Seq(Blocks) /\ Len(diffs') \in 0 .. MaxHeight
        /\ stakeTip' = tip /\ bestNode' = tip
        /\ cursor' = 0 /\ pool' = {} /\ live' = {}
    BY <1>18, LoadType, Zenon
  <2> QED BY <1>18, <2>1, BoundAssumption, HeightAssumption DEF TypeOK
<1>19. CASE Open
  BY <1>18, <1>19, Zenon DEF Open, boundVars, TypeOK
<1>20. CASE OpenReinitializes
  <2>1. fails' \in 0 .. MaxFails
    BY <1>20, BoundAssumption, HeightAssumption DEF OpenReinitializes, Fail, TypeOK
  <2> QED BY <1>18, <1>20, <2>1, ChainAssumption, Zenon DEF OpenReinitializes, TypeOK
<1>21. CASE LevelFails
  <2>1. fails' \in 0 .. MaxFails
    BY <1>21, BoundAssumption, HeightAssumption DEF LevelFails, Fail, TypeOK
  <2>2. floor' \in 0 .. MaxHeight /\ goal' = -1
    BY <1>21, <1>a, BoundAssumption, HeightAssumption DEF LevelFails, Tip, TypeOK
  <2> QED BY <1>18, <1>21, <2>1, <2>2, Zenon DEF LevelFails, TypeOK
<1>22. CASE LevelStake \/ RewindBoth
  <2>1. Disconnect /\ Height(bestNode) >= 1 /\ UNCHANGED <<opVars, live, boundVars>>
    BY <1>22, <1>a DEF LevelStake, RewindBoth, Tip, TypeOK
  <2>2. Len(diffs') \in Nat
    BY <2>1, DisconnectType, LenProperties, Zenon
  <2> QED BY <2>1, <2>2, DisconnectType DEF opVars, boundVars, TypeOK
<1>23. CASE LevelPool
  <2>1. Len(diffs) >= 1 /\ Trim /\ UNCHANGED <<diskVars, bestNode, live, goal, opVars, boundVars>>
    BY <1>23, <1>a DEF LevelPool, Tip
  <2> QED BY <1>23, <1>a, <2>1, TrimType, BoundAssumption, HeightAssumption
          DEF LevelPool, diskVars, opVars, boundVars, TypeOK
<1>24. CASE Levelled
  BY <1>24, <1>a, BoundAssumption, HeightAssumption DEF Levelled, Tip, diskVars, boundVars, TypeOK
<1>25. ASSUME op \in {"advance", "readvance"}, cursor < goal
       PROVE  cursor + 1 \in 0 .. Len(diffs) /\ NextPool \in SUBSET Tickets /\ floor \in 0 .. MaxHeight
              /\ cursor \in 0 .. MaxHeight
  <2>1. cursor + 1 \in 1 .. Len(diffs)
    BY <1>25, <1>a DEF TypeOK
  <2>2. diffs[cursor + 1] \in Blocks /\ pool \in SUBSET Tickets
    BY <2>1, <1>a DEF TypeOK
  <2>3. NextPool \in SUBSET Tickets
    BY <2>2, <1>b DEF NextPool
  <2> QED BY <2>1, <2>3, <1>a, BoundAssumption, HeightAssumption DEF TypeOK
<1>26. CASE AdvanceStep
  BY <1>25, <1>26, Zenon DEF AdvanceStep, diskVars, opVars, boundVars, TypeOK
<1>27. CASE AdvanceFails
  <2>1. floor' \in 0 .. MaxHeight
    BY <1>27, <1>25, <1>a, BoundAssumption, HeightAssumption DEF AdvanceFails, TypeOK
  <2> QED BY <1>18, <1>27, <2>1, Zenon DEF AdvanceFails, boundVars, TypeOK
<1>28. CASE ReadvanceFails
  BY <1>25, <1>28, BoundAssumption, HeightAssumption DEF ReadvanceFails, diskVars, boundVars, TypeOK
<1>29. CASE Opened
  <2>1. Live[bestNode] \in SUBSET Tickets
    BY TicketTypes DEF TypeOK
  <2> QED BY <1>29, <1>a, <2>1, BoundAssumption, HeightAssumption DEF Opened, diskVars, boundVars, TypeOK
<1>30. CASE Crash
  <2>1. torn' \in BOOLEAN
    BY <1>30, Zenon DEF Crash, TypeOK
  <2>2. diffs' \in Seq(Blocks) /\ Len(diffs') = 0
    BY <1>30, EmptySeq DEF Crash
  <2> QED BY <1>30, <2>1, <2>2, ChainAssumption, BoundAssumption, HeightAssumption DEF Crash, diskVars, TypeOK
<1>31. CASE UNCHANGED vars
  BY <1>31, Zenon DEF vars, TypeOK
<1> QED BY <1>1, <1>2, <1>3, <1>5, <1>6, <1>7, <1>8, <1>10, <1>11, <1>12, <1>13, <1>15, <1>16,
           <1>17, <1>19, <1>20, <1>21, <1>22, <1>23, <1>24, <1>26, <1>27, <1>28, <1>29, <1>30,
           <1>31 DEF Next, Starting

-----------------------------------------------------------------------------
(* One chain. *)

\* The diffs on disk are those of the stake database's chain, except the last
\* one while it is being written or if the process stopped before it was.
DiskInv ==
    \A i \in 1 .. Height(stakeTip) :
        \/ disk[i] = Chain[stakeTip][i]
        \/ /\ i = Height(stakeTip)
           /\ op = "append" \/ (op \in {"down", "level", "recover"} /\ disk[i] = NoBlock)

\* While the heights are levelled the diffs are those on disk.
LoadedInv ==
    op \in {"level", "recover"} =>
        /\ cursor = 0 /\ pool = {}
        /\ \A i \in 1 .. Len(diffs) : diffs[i] = disk[i] /\ disk[i] # NoBlock

\* Afterwards they are those of BestNode's chain ...
ChainedInv ==
    op \in {"advance", "readvance", "rewind", "idle", "connect", "disconnect"} =>
        diffs = Chain[bestNode]

\* ... without the block that is being connected.
AppendInv ==
    op = "append" =>
        /\ conn = bestNode
        /\ diffs = Chain[Parent(bestNode)]
        /\ live = Live[Parent(bestNode)]

PoolInv == op # "down" => pool = Live[BlockAt(diffs, cursor)]
LiveInv == op \in {"idle", "connect", "disconnect"} => live = Live[bestNode]
BestInv == op # "down" => bestNode = stakeTip

AgreeInv == DiskInv /\ LoadedInv /\ ChainedInv /\ AppendInv /\ PoolInv /\ LiveInv /\ BestInv

\* The inductive invariant.
IInv == BaseInv /\ (~torn => AgreeInv)

\* Stepping back from the block at k of a chain gives the live tickets at k - 1.
LEMMA RetreatOnChain ==
    ASSUME NEW b \in Blocks, NEW k \in 1 .. Height(b)
    PROVE  /\ Chain[b][k] \in Blocks
           /\ Retreat(Live[BlockAt(Chain[b], k)], Chain[b][k]) = Live[BlockAt(Chain[b], k - 1)]
           /\ ApplyDiff(Live[BlockAt(Chain[b], k - 1)], In(Chain[b][k]), Out(Chain[b][k]))
                = Live[BlockAt(Chain[b], k)]
<1>1. Chain[b][k] \in Blocks /\ Parent(Chain[b][k]) = BlockAt(Chain[b], k - 1)
  BY OnChain
<1>2. BlockAt(Chain[b], k) = Chain[b][k]
  BY DEF BlockAt
<1> QED BY <1>1, <1>2, DiffFacts

\* trim takes the pool of a chain to the pool of its parent's chain.
LEMMA TrimAgrees ==
    ASSUME BaseInv, Trim, NEW b \in Blocks, b # Genesis, diffs = Chain[b],
           pool = Live[BlockAt(diffs, cursor)]
    PROVE  diffs' = Chain[Parent(b)] /\ pool' = Live[BlockAt(diffs, cursor)]'
<1>1. Len(diffs) = Height(b) /\ Height(b) \in Nat /\ Height(b) >= 1 /\ cursor \in 0 .. Len(diffs)
  BY ParentFacts, ChainType, BoundAssumption, HeightAssumption DEF Height, BaseInv, TypeOK
<1>2. TypeOK /\ Len(diffs) >= 1
  BY <1>1, Zenon DEF BaseInv
<1>3. diffs' = SubSeq(diffs, 1, Len(diffs) - 1)
  BY <1>2, TrimType, Zenon
<1>4. diffs' = Chain[Parent(b)]
  BY <1>1, <1>3, ParentFacts
<1>5. /\ cursor' \in 0 .. Len(diffs) - 1
      /\ \A i \in 1 .. Len(diffs) - 1 : diffs'[i] = diffs[i]
  BY <1>2, TrimType, Zenon
<1>6. pool' = Live[BlockAt(diffs, cursor')]
  <2>1. \A k \in 1 .. Len(diffs) : Retreat(Live[BlockAt(diffs, k)], diffs[k]) = Live[BlockAt(diffs, k - 1)]
    BY <1>1, RetreatOnChain
  <2>2. CASE cursor' = cursor /\ pool' = pool
    BY <2>2, Zenon
  <2>3. CASE cursor >= 1 /\ cursor' = cursor - 1 /\ pool' = Retreat(pool, diffs[cursor])
    BY <2>1, <2>3, <1>1
  <2>4. CASE /\ cursor >= 2 /\ cursor' = cursor - 2
             /\ pool' = Retreat(Retreat(pool, diffs[cursor]), diffs[cursor - 1])
    <3>1. cursor \in 1 .. Len(diffs) /\ cursor - 1 \in 1 .. Len(diffs) /\ cursor - 1 - 1 = cursor - 2
      BY <2>4, <1>1
    <3>2. Retreat(pool, diffs[cursor]) = Live[BlockAt(diffs, cursor - 1)]
      BY <2>1, <3>1
    <3>3. Retreat(Live[BlockAt(diffs, cursor - 1)], diffs[cursor - 1]) = Live[BlockAt(diffs, cursor - 1 - 1)]
      BY <2>1, <3>1
    <3> QED BY <2>4, <3>1, <3>2, <3>3
  <2> QED BY <1>2, <2>2, <2>3, <2>4, TrimType, Zenon
<1>7. BlockAt(diffs, cursor') = BlockAt(diffs, cursor)'
  BY <1>5, <1>1 DEF BlockAt
<1> QED BY <1>4, <1>6, <1>7, Zenon

\* disconnectBlock takes the whole state one block back.
LEMMA DisconnectAgrees ==
    ASSUME BaseInv, Disconnect, bestNode = stakeTip, bestNode # Genesis,
           diffs = Chain[bestNode], pool = Live[BlockAt(diffs, cursor)]
    PROVE  /\ bestNode' = Parent(bestNode) /\ stakeTip' = Parent(bestNode)
           /\ diffs' = Chain[Parent(bestNode)]
           /\ pool' = Live[BlockAt(diffs, cursor)]'
<1>1. bestNode \in Blocks
  BY DEF BaseInv, TypeOK
<1>2. Len(diffs) = Height(bestNode) /\ Height(bestNode) \in Nat
  BY <1>1, ChainType, BoundAssumption, HeightAssumption DEF Height
<1>3. Trim
  BY <1>2 DEF Disconnect, Tip
<1> QED BY <1>1, <1>3, TrimAgrees, Zenon DEF Disconnect

\* Below the tip the diffs on disk are those of the parent's chain.
LEMMA DiskBelow ==
    ASSUME BaseInv, DiskInv, stakeTip # Genesis
    PROVE  \A i \in 1 .. Height(Parent(stakeTip)) : disk[i] = Chain[Parent(stakeTip)][i]
<1>1. stakeTip \in Blocks
  BY DEF BaseInv, TypeOK
<1>2. /\ Height(Parent(stakeTip)) = Height(stakeTip) - 1 /\ Height(stakeTip) \in Nat
      /\ \A i \in 1 .. Height(stakeTip) - 1 : Chain[Parent(stakeTip)][i] = Chain[stakeTip][i]
  BY <1>1, ParentFacts, ChainType, BoundAssumption, HeightAssumption
<1> QED BY <1>2 DEF DiskInv

\* A sequence of blocks that agrees with a chain over its length is that chain.
LEMMA SameChain ==
    ASSUME NEW d \in Seq(Blocks), NEW b \in Blocks, Len(d) = Height(b),
           \A i \in 1 .. Len(d) : d[i] = Chain[b][i]
    PROVE  d = Chain[b]
BY ChainType, SeqEqual DEF Height

\* A new stake database has empty diffs, an empty pool and one chain.
LEMMA InitAgrees == Init => IInv
<1>1. Init => BaseInv
  BY InitBase
<1>2. Init => AgreeInv
  BY GenesisHeight
  DEF Init, AgreeInv, DiskInv, LoadedInv, ChainedInv, AppendInv, PoolInv, LiveInv, BestInv
<1> QED BY <1>1, <1>2 DEF IInv

\* The inductive step, for the actions that extend or switch the chain.
LEMMA NextAgrees == IInv /\ [Next]_vars => IInv'
<1> SUFFICES ASSUME IInv, [Next]_vars PROVE IInv'
  OBVIOUS
<1>b. BaseInv /\ BaseInv'
  BY NextBase DEF IInv
<1> SUFFICES ASSUME ~torn' PROVE AgreeInv'
  BY <1>b DEF IInv
<1>t. ~torn
  BY Zenon DEF Next, Starting, ConnectNode, ConnectRejected, StakeWriteFails, AppendStored,
     AppendNotStored, StartReorg, StartRewind, DisconnectClean, DisconnectLossy, Disconnected,
     PoolRequest, PoolAdvance, PoolRetreat, PoolReturn, PoolMove, Open, OpenReinitializes,
     LevelStake, LevelPool, LevelFails, RewindBoth, Levelled, AdvanceStep, AdvanceFails,
     ReadvanceFails, Opened, Crash, boundVars, vars
<1>i. AgreeInv
  BY <1>t, Zenon DEF IInv
<1>a. /\ bestNode \in Blocks /\ stakeTip \in Blocks /\ diffs \in Seq(Blocks)
      /\ Len(diffs) \in Nat /\ Height(bestNode) \in Nat /\ Height(stakeTip) \in Nat
      /\ cursor \in 0 .. Len(diffs) /\ floor \in Nat
  BY <1>b, ChainType, LenProperties, BoundAssumption, HeightAssumption DEF BaseInv, TypeOK
<1>g. \A b \in Blocks : Height(b) >= 1 => b # Genesis
  BY GenesisHeight
<1> USE DEF AgreeInv
<1>1. ASSUME NEW b \in Blocks, ConnectNode(b) PROVE AgreeInv'
  <2>1. /\ b # Genesis /\ Parent(b) = bestNode /\ op \in {"idle", "connect"}
        /\ bestNode' = b /\ stakeTip' = b /\ conn' = b /\ op' = "append"
        /\ UNCHANGED <<disk, diffs, cursor, pool, live>>
    BY <1>1, Zenon DEF ConnectNode, Connectable, poolVars
  <2>2. /\ Height(b) \in Nat /\ Height(bestNode) = Height(b) - 1
        /\ \A i \in 1 .. Height(b) - 1 : Chain[bestNode][i] = Chain[b][i]
    <3>1. /\ Height(Parent(b)) = Height(b) - 1
          /\ \A i \in 1 .. Height(b) - 1 : Chain[Parent(b)][i] = Chain[b][i]
      BY <2>1, ParentFacts
    <3>2. Height(b) \in Nat
      BY ChainType, BoundAssumption, HeightAssumption
    <3> QED BY <3>1, <3>2, <2>1, Zenon
  <2>3. DiskInv'
    <3>1. \A i \in 1 .. Height(b) - 1 : disk[i] = Chain[bestNode][i]
      BY <1>i, <2>1, <2>2, Zenon DEF DiskInv, BestInv
    <3> QED BY <2>1, <2>2, <3>1 DEF DiskInv
  <2> QED BY <2>1, <2>3, <1>i DEF LoadedInv, ChainedInv, AppendInv, PoolInv, LiveInv, BestInv
<1>2. ASSUME NEW b \in Blocks, ConnectRejected(b) PROVE AgreeInv'
  BY <1>2, <1>i DEF ConnectRejected, Connectable, GiveUp, diskVars, poolVars,
     DiskInv, LoadedInv, ChainedInv, AppendInv, PoolInv, LiveInv, BestInv
<1>3. ASSUME NEW b \in Blocks, StakeWriteFails(b) PROVE AgreeInv'
  BY <1>3, Zenon DEF StakeWriteFails
<1>4. CASE AppendStored
  <2>1. /\ op = "append" /\ conn = bestNode /\ conn # Genesis /\ bestNode = stakeTip
        /\ diffs = Chain[Parent(bestNode)] /\ live = Live[Parent(bestNode)]
        /\ pool = Live[BlockAt(diffs, cursor)]
    BY <1>4, <1>b, <1>i, Zenon DEF AppendStored, AppendDiff, AppendInv, PoolInv, BestInv, BaseInv, ConnInv
  <2>2. /\ Height(conn) = Tip + 1
        /\ Append(diffs, conn) = Chain[bestNode]
        /\ Height(bestNode) = Len(diffs) + 1
        /\ \A i \in 1 .. Len(diffs) : Chain[bestNode][i] = diffs[i]
        /\ Chain[bestNode][Height(bestNode)] = bestNode
    <3>1. /\ Height(Parent(bestNode)) = Height(bestNode) - 1
          /\ Chain[bestNode][Height(bestNode)] = bestNode
          /\ Chain[bestNode] = Append(Chain[Parent(bestNode)], bestNode)
          /\ \A i \in 1 .. Height(bestNode) - 1 : Chain[Parent(bestNode)][i] = Chain[bestNode][i]
      BY <2>1, <1>a, ParentFacts, Zenon
    <3>2. Len(diffs) = Height(bestNode) - 1
      BY <2>1, <3>1, Zenon DEF Height
    <3> QED BY <2>1, <1>a, <3>1, <3>2 DEF Tip
  <2>3. /\ diffs' = Chain[bestNode] /\ disk' = [disk EXCEPT ![Height(conn)] = conn]
        /\ live' = ApplyDiff(live, In(conn), Out(conn))
        /\ op' \in {"idle", "connect"}
        /\ UNCHANGED <<stakeTip, bestNode, cursor, pool>>
    BY <1>4, <2>2, Zenon DEF AppendStored, AppendDiff, GiveUp
  <2>4. live' = Live[bestNode]
    BY <2>1, <2>3, <1>a, DiffFacts, Zenon
  <2>5. BlockAt(diffs, cursor)' = BlockAt(diffs, cursor)
    BY <2>2, <2>3, <1>a DEF BlockAt
  <2>6. DiskInv'
    <3>1. \A i \in 1 .. Height(stakeTip) : i # Height(stakeTip) => disk[i] = Chain[stakeTip][i]
      BY <1>i, Zenon DEF DiskInv
    <3>2. Height(conn) \in 1 .. MaxHeight /\ DOMAIN disk = 1 .. MaxHeight
      <4>1. Height(bestNode) \in 0 .. MaxHeight
        BY <1>a, ChainType
      <4> QED BY <4>1, <2>1, <2>2, <1>a, <1>b DEF BaseInv, TypeOK
    <3> QED BY <3>1, <3>2, <2>1, <2>2, <2>3, <1>a, ChainType, BoundAssumption, HeightAssumption DEF DiskInv
  <2> QED BY <2>1, <2>3, <2>4, <2>5, <2>6, Zenon DEF LoadedInv, ChainedInv, AppendInv, PoolInv, LiveInv, BestInv
<1>5. CASE AppendNotStored
  BY <1>5, Zenon DEF AppendNotStored
<1>6. ASSUME NEW b \in Blocks, StartReorg(b) PROVE AgreeInv'
  BY <1>6, <1>i, Zenon DEF StartReorg, diskVars, poolVars,
     DiskInv, LoadedInv, ChainedInv, AppendInv, PoolInv, LiveInv, BestInv
<1>7. ASSUME NEW h \in 0 .. MaxHeight, StartRewind(h) PROVE AgreeInv'
  BY <1>7, <1>i, Zenon DEF StartRewind, diskVars, poolVars,
     DiskInv, LoadedInv, ChainedInv, AppendInv, PoolInv, LiveInv, BestInv
<1>8. CASE DisconnectClean
  <2>1. /\ op = "disconnect" /\ Height(bestNode) > floor /\ Disconnect /\ UNCHANGED op
        /\ live' = IF Tip > Height(bestNode) - 1
                   THEN ApplyDiff(live, Out(diffs[Tip]) \ {}, In(diffs[Tip])) ELSE live
    BY <1>8, Zenon DEF DisconnectClean, DisconnectBlock, opVars
  <2>2. /\ bestNode # Genesis /\ bestNode = stakeTip /\ diffs = Chain[bestNode]
        /\ pool = Live[BlockAt(diffs, cursor)] /\ live = Live[bestNode]
    BY <2>1, <1>a, <1>g, <1>i DEF ChainedInv, PoolInv, LiveInv, BestInv
  <2>3. /\ bestNode' = Parent(bestNode) /\ stakeTip' = Parent(bestNode)
        /\ diffs' = Chain[Parent(bestNode)]
        /\ pool' = Live[BlockAt(diffs, cursor)]'
    BY <1>b, <2>1, <2>2, DisconnectAgrees, Zenon
  <2>4. Len(diffs) = Height(bestNode) /\ diffs[Len(diffs)] = bestNode
    BY <2>2, <1>a, ParentFacts, Zenon DEF Height
  <2>5. live' = Live[Parent(bestNode)]
    <3>1. live' = ApplyDiff(live, Out(bestNode) \ {}, In(bestNode))
      BY <2>1, <2>4, <1>a DEF Tip
    <3>2. Out(bestNode) \ {} = Out(bestNode)
      BY Zenon
    <3> QED BY <3>1, <3>2, <2>2, <1>a, DiffFacts DEF Retreat
  <2>6. \A i \in 1 .. Height(stakeTip') : disk'[i] = Chain[stakeTip'][i]
    BY <1>b, <1>i, <2>1, <2>2, <2>3, DiskBelow DEF Disconnect
  <2> QED BY <2>1, <2>3, <2>5, <2>6, Zenon DEF DiskInv, LoadedInv, ChainedInv, AppendInv, PoolInv, LiveInv, BestInv
<1>9. CASE DisconnectLossy
  BY <1>9, Zenon DEF DisconnectLossy
<1>10. CASE Disconnected
  BY <1>10, <1>i, Zenon DEF Disconnected, diskVars, poolVars,
     DiskInv, LoadedInv, ChainedInv, AppendInv, PoolInv, LiveInv, BestInv
<1>11. ASSUME NEW h \in 0 .. MaxHeight, PoolRequest(h) PROVE AgreeInv'
  BY <1>11, <1>i DEF PoolRequest, Up, diskVars, opVars,
     DiskInv, LoadedInv, ChainedInv, AppendInv, PoolInv, LiveInv, BestInv
<1>c. ASSUME op \notin {"down", "level", "recover"}
      PROVE  \E b \in Blocks : diffs = Chain[b]
  <2>1. Parent(bestNode) \in Blocks
    BY <1>a, TicketTypes, Zenon
  <2>2. diffs = Chain[bestNode] \/ diffs = Chain[Parent(bestNode)]
    BY <1>c, <1>b, <1>i, Zenon DEF ChainedInv, AppendInv, BaseInv, TypeOK
  <2> QED BY <2>1, <2>2, <1>a
<1>d. ASSUME op \notin {"down", "level", "recover"}
      PROVE  /\ \A k \in 1 .. Len(diffs) :
                  Retreat(Live[BlockAt(diffs, k)], diffs[k]) = Live[BlockAt(diffs, k - 1)]
             /\ \A k \in 1 .. Len(diffs) :
                  ApplyDiff(Live[BlockAt(diffs, k - 1)], In(diffs[k]), Out(diffs[k])) = Live[BlockAt(diffs, k)]
  <2>1. PICK b \in Blocks : diffs = Chain[b]
    BY <1>c, <1>d
  <2>2. Len(diffs) = Height(b)
    BY <2>1 DEF Height
  <2> QED BY <2>1, <2>2, RetreatOnChain
<1>e. ASSUME op \notin {"down", "level", "recover"}, cursor + 1 \in 1 .. Len(diffs)
      PROVE  ApplyDiff(pool, In(diffs[cursor + 1]), Out(diffs[cursor + 1])) = Live[BlockAt(diffs, cursor + 1)]
  <2>1. \A k, j \in Int : k \in 1 .. Len(diffs) /\ j = k - 1 =>
          ApplyDiff(Live[BlockAt(diffs, j)], In(diffs[k]), Out(diffs[k])) = Live[BlockAt(diffs, k)]
    BY <1>d, <1>e
  <2>2. cursor \in Int /\ cursor + 1 \in Int /\ cursor = (cursor + 1) - 1
    BY <1>a
  <2>3. ApplyDiff(Live[BlockAt(diffs, cursor)], In(diffs[cursor + 1]), Out(diffs[cursor + 1]))
          = Live[BlockAt(diffs, cursor + 1)]
    BY <2>1, <2>2, <1>e
  <2>4. pool = Live[BlockAt(diffs, cursor)]
    BY <1>e, <1>i, Zenon DEF PoolInv
  <2> QED BY <2>3, <2>4
<1>12. CASE PoolAdvance
  <2>1. /\ op \notin {"down", "level", "recover"} /\ cursor + 1 \in 1 .. Len(diffs)
        /\ cursor' = cursor + 1 /\ UNCHANGED <<disk, stakeTip, bestNode, diffs, live, op, conn>>
        /\ pool' = ApplyDiff(pool, In(diffs[cursor + 1]), Out(diffs[cursor + 1]))
    BY <1>12, <1>a, <1>b DEF PoolAdvance, PoolMove, Up, diskVars, opVars, BaseInv, GoalInv, TypeOK
  <2>2. pool = Live[BlockAt(diffs, cursor)] /\ cursor + 1 - 1 = cursor
    BY <2>1, <1>a, <1>i DEF PoolInv
  <2>3. pool' = Live[BlockAt(diffs, cursor + 1)]
    BY <2>1, <2>2, <1>e, Zenon
  <2> QED BY <2>1, <2>3, <1>i, Zenon DEF DiskInv, LoadedInv, ChainedInv, AppendInv, PoolInv, LiveInv, BestInv
<1>13. CASE PoolRetreat
  <2>1. /\ op \notin {"down", "level", "recover"} /\ cursor \in 1 .. Len(diffs)
        /\ cursor' = cursor - 1 /\ UNCHANGED <<disk, stakeTip, bestNode, diffs, live, op, conn>>
        /\ pool' = Retreat(pool, diffs[cursor])
    BY <1>13, <1>a, <1>b DEF PoolRetreat, PoolMove, Up, diskVars, opVars, BaseInv, GoalInv, TypeOK
  <2>2. pool = Live[BlockAt(diffs, cursor)]
    BY <2>1, <1>i DEF PoolInv
  <2>3. pool' = Live[BlockAt(diffs, cursor - 1)]
    BY <2>1, <2>2, <1>d, Zenon
  <2> QED BY <2>1, <2>3, <1>i, Zenon DEF DiskInv, LoadedInv, ChainedInv, AppendInv, PoolInv, LiveInv, BestInv
<1>14. CASE PoolReturn
  BY <1>14, <1>i, Zenon DEF PoolReturn, Up, diskVars, opVars,
     DiskInv, LoadedInv, ChainedInv, AppendInv, PoolInv, LiveInv, BestInv
<1>15. ASSUME NEW tip \in Blocks, Load(tip), op' \in {"level", "recover"}, disk' = disk,
              tip = Genesis \/ (tip = stakeTip /\ op \in {"down", "level", "advance"})
       PROVE  AgreeInv'
  <2>1. /\ \A i \in 1 .. Len(diffs') : diffs'[i] = disk[i] /\ disk[i] # NoBlock
        /\ stakeTip' = tip /\ bestNode' = tip
        /\ cursor' = 0 /\ pool' = {}
    BY <1>15, <1>b, LoadType, Zenon DEF BaseInv
  <2>2. DiskInv'
    <3>1. CASE tip = Genesis
      BY <3>1, <2>1, GenesisHeight DEF DiskInv
    <3>2. CASE tip = stakeTip /\ op \in {"down", "level", "advance"}
      BY <3>2, <2>1, <1>15, <1>i, Zenon DEF DiskInv
    <3> QED BY <3>1, <3>2, <1>15, Zenon
  <2>3. PoolInv'
    BY <2>1, TicketAssumption DEF PoolInv, BlockAt
  <2> QED BY <1>15, <2>1, <2>2, <2>3, Zenon DEF LoadedInv, ChainedInv, AppendInv, LiveInv, BestInv
<1>16. CASE Open
  BY <1>15, <1>16, <1>a, Zenon DEF Open
<1>17. CASE OpenReinitializes
  BY <1>15, <1>17, ChainAssumption, Zenon DEF OpenReinitializes
<1>18. CASE LevelFails
  BY <1>15, <1>18, <1>a, Zenon DEF LevelFails
<1>19. CASE AdvanceFails
  BY <1>15, <1>19, <1>a, Zenon DEF AdvanceFails
<1>20. ASSUME op \in {"level", "recover"}, Disconnect, Height(bestNode) >= 1, UNCHANGED op
       PROVE  AgreeInv'
  <2>1. /\ bestNode = stakeTip /\ bestNode # Genesis /\ cursor = 0 /\ pool = {}
        /\ \A i \in 1 .. Len(diffs) : diffs[i] = disk[i] /\ disk[i] # NoBlock
    BY <1>20, <1>a, <1>g, <1>i DEF LoadedInv, BestInv
  <2>2. bestNode' = Parent(bestNode) /\ stakeTip' = Parent(stakeTip) /\ disk' = disk
    BY <1>20, Zenon DEF Disconnect
  <2>3. /\ cursor' = 0 /\ pool' = {}
        /\ \A i \in 1 .. Len(diffs') : diffs'[i] = disk[i] /\ disk[i] # NoBlock
    <3>1. CASE Tip > Height(bestNode) - 1
      <4>1. TypeOK /\ Trim /\ Len(diffs) >= 1
        BY <1>20, <3>1, <1>a, <1>b DEF Disconnect, Tip, BaseInv
      <4>2. /\ Len(diffs') = Len(diffs) - 1
            /\ \A i \in 1 .. Len(diffs) - 1 : diffs'[i] = diffs[i]
            /\ (cursor' = cursor /\ pool' = pool) \/ cursor >= 1
        BY <4>1, TrimType, <1>a
      <4> QED BY <4>2, <2>1, <1>a
    <3>2. CASE ~(Tip > Height(bestNode) - 1)
      BY <1>20, <3>2, <2>1, Zenon DEF Disconnect
    <3> QED BY <3>1, <3>2
  <2>4. \A i \in 1 .. Height(stakeTip') : disk'[i] = Chain[stakeTip'][i]
    BY <1>b, <1>i, <2>1, <2>2, DiskBelow, Zenon
  <2>5. PoolInv'
    BY <2>3, TicketAssumption DEF PoolInv, BlockAt
  <2> QED BY <1>20, <2>1, <2>2, <2>3, <2>4, <2>5, Zenon
          DEF DiskInv, LoadedInv, ChainedInv, AppendInv, LiveInv, BestInv
<1>21. CASE LevelStake
  BY <1>20, <1>21, <1>a DEF LevelStake, Tip, opVars
<1>22. CASE LevelPool
  <2>1. /\ op \in {"level", "recover"} /\ Trim /\ Len(diffs) >= 1 /\ TypeOK
        /\ UNCHANGED <<stakeTip, disk, bestNode, op>>
    BY <1>22, <1>a, <1>b DEF LevelPool, Tip, diskVars, opVars, BaseInv
  <2>2. /\ cursor = 0 /\ pool = {}
        /\ \A i \in 1 .. Len(diffs) : diffs[i] = disk[i] /\ disk[i] # NoBlock
    BY <2>1, <1>i, Zenon DEF LoadedInv
  <2>3. /\ Len(diffs') = Len(diffs) - 1
        /\ \A i \in 1 .. Len(diffs) - 1 : diffs'[i] = diffs[i]
        /\ (cursor' = cursor /\ pool' = pool) \/ cursor >= 1
    BY <2>1, TrimType, <1>a
  <2>5. cursor' = 0 /\ pool' = {}
    BY <2>2, <2>3
  <2>4. PoolInv'
    BY <2>5, TicketAssumption DEF PoolInv, BlockAt
  <2> QED BY <2>1, <2>2, <2>3, <2>4, <2>5, <1>a, <1>i
          DEF DiskInv, LoadedInv, ChainedInv, AppendInv, LiveInv, BestInv
<1>23. CASE RewindBoth
  <2>1. Disconnect /\ Height(bestNode) >= 1 /\ UNCHANGED op /\ op \in {"recover", "rewind"}
    BY <1>23, <1>a DEF RewindBoth, opVars
  <2>2. CASE op = "recover"
    BY <2>1, <2>2, <1>20, Zenon
  <2>3. CASE op = "rewind"
    <3>1. /\ bestNode # Genesis /\ bestNode = stakeTip /\ diffs = Chain[bestNode]
          /\ pool = Live[BlockAt(diffs, cursor)]
      BY <2>1, <2>3, <1>a, <1>g, <1>i, Zenon DEF ChainedInv, PoolInv, BestInv
    <3>2. /\ bestNode' = Parent(bestNode) /\ stakeTip' = Parent(bestNode)
          /\ diffs' = Chain[Parent(bestNode)]
          /\ pool' = Live[BlockAt(diffs, cursor)]'
      BY <1>b, <2>1, <3>1, DisconnectAgrees, Zenon
    <3>3. \A i \in 1 .. Height(stakeTip') : disk'[i] = Chain[stakeTip'][i]
      BY <1>b, <1>i, <2>1, <3>1, <3>2, DiskBelow, Zenon DEF Disconnect
    <3> QED BY <2>1, <2>3, <3>2, <3>3, Zenon DEF DiskInv, LoadedInv, ChainedInv, AppendInv, PoolInv, LiveInv, BestInv
  <2> QED BY <2>1, <2>2, <2>3
<1>24. CASE Levelled
  <2>1. /\ Height(bestNode) = Len(diffs) /\ op \in {"level", "recover"} /\ op' \in {"advance", "readvance"}
        /\ UNCHANGED <<stakeTip, disk, bestNode, diffs, cursor, pool, live, conn>>
    BY <1>24, Zenon DEF Levelled, Tip, diskVars
  <2>2. \A i \in 1 .. Len(diffs) : diffs[i] = disk[i] /\ disk[i] = Chain[bestNode][i]
    BY <2>1, <1>a, <1>i, Zenon DEF LoadedInv, DiskInv, BestInv
  <2>3. diffs = Chain[bestNode]
    BY <2>1, <2>2, <1>a, SameChain, Zenon
  <2> QED BY <2>1, <2>2, <2>3, <1>i, Zenon DEF DiskInv, LoadedInv, ChainedInv, AppendInv, PoolInv, LiveInv, BestInv
<1>25. CASE AdvanceStep \/ ReadvanceFails
  <2>a. /\ op \in {"advance", "readvance"} /\ cursor < goal
        /\ op' \in {"advance", "readvance", "rewind"}
        /\ cursor' = cursor + 1 /\ UNCHANGED <<disk, stakeTip, bestNode, diffs>>
        /\ pool' = NextPool
    BY <1>25, Zenon DEF AdvanceStep, ReadvanceFails, diskVars, opVars
  <2>b. cursor + 1 \in 1 .. Len(diffs)
    BY <2>a, <1>a, <1>b DEF BaseInv, GoalInv, TypeOK
  <2>1. /\ op \in {"advance", "readvance"} /\ cursor + 1 \in 1 .. Len(diffs)
        /\ op' \in {"advance", "readvance", "rewind"}
        /\ cursor' = cursor + 1 /\ UNCHANGED <<disk, stakeTip, bestNode, diffs>>
        /\ pool' = ApplyDiff(pool, In(diffs[cursor + 1]), Out(diffs[cursor + 1]))
    BY <2>a, <2>b, Zenon DEF NextPool
  <2>2. pool' = Live[BlockAt(diffs, cursor + 1)]
    BY <2>1, <1>e, Zenon
  <2> QED BY <2>1, <2>2, <1>i, Zenon DEF DiskInv, LoadedInv, ChainedInv, AppendInv, PoolInv, LiveInv, BestInv
<1>26. CASE Opened
  BY <1>26, <1>i, Zenon DEF Opened, diskVars,
     DiskInv, LoadedInv, ChainedInv, AppendInv, PoolInv, LiveInv, BestInv
<1>27. CASE Crash
  <2>1. /\ op # "down" /\ op' = "down" /\ UNCHANGED <<stakeTip, disk>>
        /\ op = "append" => disk[Height(conn)] \in {NoBlock, conn}
    BY <1>27, Zenon DEF Crash, diskVars
  <2>2. DiskInv'
    <3>1. CASE op = "append"
      <4>1. conn = stakeTip /\ conn # Genesis
        BY <3>1, <1>b, <1>i, Zenon DEF AppendInv, BestInv, BaseInv, ConnInv
      <4>2. Chain[stakeTip][Height(stakeTip)] = stakeTip
        BY <4>1, <1>a, ParentFacts, Zenon
      <4> QED BY <2>1, <3>1, <4>1, <4>2, <1>i, Zenon DEF DiskInv
    <3>2. CASE op # "append"
      BY <2>1, <3>2, <1>i, Zenon DEF DiskInv
    <3> QED BY <3>1, <3>2, Zenon
  <2> QED BY <2>1, <2>2 DEF LoadedInv, ChainedInv, AppendInv, PoolInv, LiveInv, BestInv
<1>28. CASE UNCHANGED vars
  BY <1>28, <1>i, Zenon DEF vars, DiskInv, LoadedInv, ChainedInv, AppendInv, PoolInv, LiveInv, BestInv
<1> QED BY <1>1, <1>2, <1>3, <1>4, <1>5, <1>6, <1>7, <1>8, <1>9, <1>10, <1>11, <1>12, <1>13, <1>14,
           <1>16, <1>17, <1>18, <1>19, <1>21, <1>22, <1>23, <1>24, <1>25, <1>26, <1>27, <1>28, Zenon
        DEF Next, Starting

-----------------------------------------------------------------------------
(* The theorems. *)

SafeSpec == Init /\ [][Next]_vars

\* Every reachable state satisfies the inductive invariant.
THEOREM Invariance == SafeSpec => []IInv
BY InitAgrees, NextAgrees, PTL DEF SafeSpec

\* The state has its types and PoolDB's cursor stays within the diffs.
THEOREM TypeCorrect == SafeSpec => []TypeOK
<1>1. IInv => TypeOK
  BY DEF IInv, BaseInv
<1> QED BY Invariance, <1>1, PTL

\* Whenever no operation is in progress, stakechainstate, the pool diffs and
\* the live ticket cache are those of BestNode's chain, unless a write was lost.
THEOREM DatabasesAgree == SafeSpec => []OneChain
<1>1. IInv => OneChain
  BY DEF IInv, AgreeInv, OneChain, ChainedInv, LiveInv, BestInv
<1> QED BY Invariance, <1>1, PTL

\* TicketPool.Pool always holds the live tickets of the block at its cursor,
\* also between the steps of a query and of a reorganization.
THEOREM PoolHoldsLiveTickets == SafeSpec => []PoolIsLive
<1>1. IInv => PoolIsLive
  BY DEF IInv, AgreeInv, PoolIsLive, PoolInv, Up
<1> QED BY Invariance, <1>1, PTL

=============================================================================
