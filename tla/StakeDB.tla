------------------------------ MODULE StakeDB ------------------------------
(***************************************************************************)
(* stakedb.StakeDatabase and its TicketPool: the stake node (kept in ffldb *)
(* as stakechainstate) and the ticket pool diffs (kept in badger, keyed by *)
(* height) are two databases that are written one after the other while    *)
(* blocks are connected and disconnected, and brought back to the same     *)
(* height by NewStakeDatabase or LoadAndRecover after a restart.           *)
(*                                                                         *)
(* A block's pool diff is identified with the block: its tickets in and    *)
(* out are In(b) and Out(b).  The stake package is external: connecting    *)
(* block b to its parent gives the live tickets Live[b].                   *)
(***************************************************************************)
EXTENDS BlockTree, FiniteSets

CONSTANTS
    Tickets,
    Live,          \* Live[b]: the live tickets after block b
    RecoverDepth,  \* how far main.go rewinds on recovery (288)
    MaxCrashes,    \* bound: restarts
    MaxFails       \* bound: failed writes and RPCs

ASSUME TicketAssumption == Live \in [Blocks -> SUBSET Tickets] /\ Live[Genesis] = {}

ASSUME BoundAssumption ==
    RecoverDepth \in Nat /\ MaxCrashes \in Nat /\ MaxFails \in Nat

VARIABLES
    stakeTip,  \* disk: the block of stakechainstate
    disk,      \* disk: the diff stored in badger for each height
    op,        \* what the holder of nodeMtx is doing
    bestNode,  \* db.BestNode
    diffs,     \* PoolDB.diffs; its length is PoolDB.tip
    cursor,    \* PoolDB.cursor
    pool,      \* PoolDB.pool
    live,      \* liveTicketCache
    conn,      \* the block whose diff is still to be appended
    target,    \* head of the chain a reorganization switches to
    floor,     \* height that blocks are disconnected down to
    goal,      \* cursor that the holder of PoolDB.mtx moves to, or -1
    crashes, fails,
    torn       \* history: a write was lost that the other database had

diskVars == <<stakeTip, disk>>
poolVars == <<diffs, cursor, pool, goal>>
opVars == <<op, conn, target, floor>>
boundVars == <<crashes, fails, torn>>
vars == <<stakeTip, disk, op, bestNode, diffs, cursor, pool, live, conn, target, floor, goal,
          crashes, fails, torn>>
-----------------------------------------------------------------------------
(* The diff of a block. *)

In(b) == Live[b] \ Live[Parent(b)]     \* maturing tickets
Out(b) == Live[Parent(b)] \ Live[b]    \* winners and expiring tickets

\* applyDiff: add the tickets in, then delete the tickets out.
ApplyDiff(p, in, out) == (p \cup in) \ out

\* The pool size check at the end of advance and retreat.
SizeOK(p, q, in, out) == Cardinality(q) = Cardinality(p) + Cardinality(in) - Cardinality(out)

Tip == Len(diffs)

\* maxCursor for a diffs slice of n elements.
MaxCursor(n) == IF n = 0 THEN 0 ELSE n - 1

\* Mutant: the diff is applied forwards.
RetreatForward(p, b) == ApplyDiff(p, In(b), Out(b))

Retreat(p, b) == ApplyDiff(p, Out(b), In(b))

\* Mutant: the last diff is dropped under the cursor.
TrimOnly == diffs' = SubSeq(diffs, 1, Tip - 1) /\ UNCHANGED <<cursor, pool>>

\* trim: lower the tip, retreat the cursor to maxCursor (retreatTo stops at the
\* first size mismatch, which is only logged), drop the last diff.
Trim ==
    LET top == MaxCursor(Tip - 1)
        one == Retreat(pool, diffs[cursor])
        two == Retreat(one, diffs[cursor - 1])
        stops == cursor = top + 1 \/ ~SizeOK(pool, one, Out(diffs[cursor]), In(diffs[cursor]))
    IN /\ diffs' = SubSeq(diffs, 1, Tip - 1)
       /\ IF cursor <= top THEN UNCHANGED <<cursor, pool>>
          ELSE IF stops THEN cursor' = cursor - 1 /\ pool' = one
          ELSE cursor' = cursor - 2 /\ pool' = two

-----------------------------------------------------------------------------
Init ==
    /\ stakeTip = Genesis
    /\ disk = [h \in 1 .. MaxHeight |-> NoBlock]
    /\ op = "down"
    /\ bestNode = Genesis
    /\ diffs = <<>> /\ cursor = 0 /\ pool = {} /\ live = {}
    /\ conn = NoBlock /\ target = NoBlock /\ floor = 0 /\ goal = -1
    /\ crashes = 0 /\ fails = 0 /\ torn = FALSE

Fail == fails < MaxFails /\ fails' = fails + 1

-----------------------------------------------------------------------------
(* Connecting a block, and the reorganizations of ChainMonitor. *)

\* A connect or disconnect fails: ConnectBlock or ReorgHandler gives up.
GiveUp == op' = "idle" /\ target' = NoBlock /\ conn' = NoBlock

\* What the next block may be: any child when the notifier delivers one, the
\* next block of NewChain in a reorganization.
Connectable(b) ==
    /\ b # Genesis /\ Parent(b) = bestNode
    /\ op = "idle" \/ (op = "connect" /\ IsAncestor(b, target))

\* connectBlock: BestNode is replaced, then stakechainstate is written.
ConnectNode(b) ==
    /\ Connectable(b)
    /\ bestNode' = b /\ stakeTip' = b /\ conn' = b
    /\ op' = "append"
    /\ UNCHANGED <<disk, poolVars, live, target, floor, boundVars>>

\* The node RPC or ConnectNode of the stake package fails first.
ConnectRejected(b) ==
    /\ Connectable(b) /\ Fail /\ GiveUp
    /\ UNCHANGED <<diskVars, bestNode, poolVars, live, floor, crashes, torn>>

\* StakeDB.Update fails: BestNode has already been replaced.
StakeWriteFails(b) ==
    /\ Connectable(b) /\ Fail /\ GiveUp
    /\ bestNode' = b
    /\ torn' = TRUE
    /\ UNCHANGED <<diskVars, poolVars, live, floor, crashes>>

\* The rest of ConnectBlock: applyDiff on the live ticket cache and
\* PoolDB.Append, with the diff written to disk or (ok = FALSE) not.
AppendDiff(ok) ==
    /\ op = "append" /\ goal = -1
    /\ live' = ApplyDiff(live, In(conn), Out(conn))
    /\ IF Height(conn) = Tip + 1
       THEN /\ diffs' = Append(diffs, conn)
            /\ disk' = IF ok THEN [disk EXCEPT ![Height(conn)] = conn] ELSE disk
       ELSE UNCHANGED <<diffs, disk>>
    /\ IF target \in {NoBlock, conn} \/ ~ok \/ Height(conn) # Tip + 1
       THEN GiveUp
       ELSE op' = "connect" /\ conn' = NoBlock /\ target' = target
    /\ UNCHANGED <<stakeTip, bestNode, cursor, pool, goal, floor, crashes>>

AppendStored == AppendDiff(TRUE) /\ UNCHANGED <<fails, torn>>
AppendNotStored == AppendDiff(FALSE) /\ Fail /\ torn' = TRUE

\* ReorgHandler: switchToSideChain disconnects down to the common ancestor.
StartReorg(b) ==
    /\ op = "idle" /\ ~IsAncestor(b, bestNode)
    /\ target' = b
    /\ \E h \in 0 .. Height(bestNode) :
          /\ IsAncestor(BlockAt(Chain[bestNode], h), b)
          /\ h < Height(bestNode) => ~IsAncestor(Chain[bestNode][h + 1], b)
          /\ floor' = h
    /\ op' = "disconnect"
    /\ UNCHANGED <<diskVars, bestNode, poolVars, live, conn, boundVars>>

\* ChainDB.RewindStakeDB: disconnect down to the height of the main database.
StartRewind(h) ==
    /\ op = "idle" /\ h < Height(bestNode)
    /\ floor' = h
    /\ op' = "disconnect"
    /\ UNCHANGED <<diskVars, bestNode, poolVars, live, conn, target, boundVars>>

\* Mutant: the ticket pool is not trimmed.
DisconnectUntrimmed ==
    /\ Height(stakeTip) = Height(bestNode)
    /\ goal = -1
    /\ UNCHANGED <<diffs, cursor, pool>>
    /\ stakeTip' = Parent(stakeTip) /\ bestNode' = Parent(bestNode)
    /\ UNCHANGED <<disk, goal>>

\* disconnectBlock: it panics when stakechainstate is not at BestNode's height
\* (see Crash); an error in it ends in a nil dereference of ReorgHandler or a
\* failed start (also Crash).
Disconnect ==
    /\ Height(stakeTip) = Height(bestNode)
    /\ goal = -1
    /\ IF Tip > Height(bestNode) - 1 THEN Trim ELSE UNCHANGED <<diffs, cursor, pool>>
    /\ stakeTip' = Parent(stakeTip) /\ bestNode' = Parent(bestNode)
    /\ UNCHANGED <<disk, goal>>

\* Undoing the diff in the live ticket cache asks the node for each ticket
\* that comes back: the tickets in `lost` are skipped on an RPC error.
DisconnectBlock(lost) ==
    /\ op = "disconnect" /\ Height(bestNode) > floor
    /\ Disconnect
    /\ live' = IF Tip > Height(bestNode) - 1
               THEN ApplyDiff(live, Out(diffs[Tip]) \ lost, In(diffs[Tip])) ELSE live
    /\ UNCHANGED <<opVars, crashes>>

DisconnectClean == DisconnectBlock({}) /\ UNCHANGED <<fails, torn>>
DisconnectLossy == (\E lost \in SUBSET Tickets \ {{}} : DisconnectBlock(lost)) /\ Fail /\ torn' = TRUE

\* Mutant: one block more is waited for.
DisconnectedBelow ==
    /\ op = "disconnect" /\ Height(bestNode) < floor
    /\ op' = IF target = NoBlock THEN "idle" ELSE "connect"
    /\ UNCHANGED <<diskVars, bestNode, poolVars, live, conn, target, floor, boundVars>>

Disconnected ==
    /\ op = "disconnect" /\ Height(bestNode) <= floor
    /\ op' = IF target = NoBlock THEN "idle" ELSE "connect"
    /\ UNCHANGED <<diskVars, bestNode, poolVars, live, conn, target, floor, boundVars>>

-----------------------------------------------------------------------------
(* Reading the pool: Pool moves the cursor step by step, holding PoolDB.mtx. *)

Up == op \in {"idle", "append", "connect", "disconnect"}

\* PoolAtHeight, and PoolAtHash with the height of the block's header.
PoolRequest(h) ==
    /\ Up /\ goal = -1 /\ h <= Tip
    /\ goal' = h
    /\ UNCHANGED <<diskVars, bestNode, diffs, cursor, pool, live, opVars, boundVars>>

\* advance and retreat move the cursor before they check the pool size.
PoolMove(q, in, out, c) ==
    /\ pool' = q /\ cursor' = c
    /\ goal' = IF SizeOK(pool, q, in, out) THEN goal ELSE -1
    /\ UNCHANGED <<diskVars, bestNode, diffs, live, opVars, boundVars>>

PoolAdvance ==
    /\ Up /\ cursor < goal
    /\ LET b == diffs[cursor + 1]
       IN PoolMove(ApplyDiff(pool, In(b), Out(b)), In(b), Out(b), cursor + 1)

PoolRetreat ==
    /\ Up /\ goal >= 0 /\ cursor > goal
    /\ LET b == diffs[cursor]
       IN PoolMove(Retreat(pool, b), Out(b), In(b), cursor - 1)

PoolReturn ==
    /\ Up /\ goal = cursor
    /\ goal' = -1
    /\ UNCHANGED <<diskVars, bestNode, diffs, cursor, pool, live, opVars, boundVars>>

-----------------------------------------------------------------------------
(* Restart: NewStakeDatabase, and LoadAndRecover when it fails. *)

\* loadAllPoolDiffs reads the diffs in the order of height and panics at a gap;
\* Open reads stakechainstate.
Load(tip) ==
    /\ \E n \in 0 .. MaxHeight :
          /\ \A i \in 1 .. MaxHeight : disk[i] # NoBlock <=> i <= n
          /\ diffs' = [i \in 1 .. n |-> disk[i]]
    /\ stakeTip' = tip /\ bestNode' = tip
    /\ cursor' = 0 /\ pool' = {} /\ live' = {}

Open ==
    /\ op = "down" /\ Load(stakeTip)
    /\ op' = "level"
    /\ UNCHANGED <<disk, conn, target, floor, goal, boundVars>>

\* The node cannot give the tip's block: Open starts over at genesis.
OpenReinitializes ==
    /\ op = "down" /\ Load(Genesis) /\ Fail
    /\ op' = "level"
    /\ UNCHANGED <<disk, conn, target, floor, goal, crashes, torn>>

\* DisconnectBlock(true) while the stake database is ahead of the pool.
LevelStake ==
    /\ op \in {"level", "recover"} /\ Height(bestNode) > Tip
    /\ Disconnect
    /\ UNCHANGED <<opVars, live, boundVars>>

\* Mutant: the pool is left ahead of the stake database.
LevelPoolNever == FALSE /\ UNCHANGED vars

\* Trim while the pool is ahead of the stake database.
LevelPool ==
    /\ op \in {"level", "recover"} /\ Height(bestNode) < Tip
    /\ Trim
    /\ UNCHANGED <<diskVars, bestNode, live, goal, opVars, boundVars>>

\* An RPC error in that loop: main.go calls LoadAndRecover(tip - 288).
LevelFails ==
    /\ op = "level" /\ Height(bestNode) > Tip /\ Fail
    /\ Load(stakeTip)
    /\ floor' = IF Tip > RecoverDepth THEN Tip - RecoverDepth ELSE 0
    /\ op' = "recover"
    /\ UNCHANGED <<disk, conn, target, goal, crashes, torn>>

\* LoadAndRecover and its Rewind: both go down to the height `floor`.
RewindBoth ==
    /\ \/ op = "recover" /\ Height(bestNode) = Tip
       \/ op = "rewind"
    /\ Height(bestNode) > floor
    /\ Disconnect
    /\ UNCHANGED <<opVars, live, boundVars>>

\* AdvanceToTip starts.
Levelled ==
    /\ Height(bestNode) = Tip
    /\ \/ op = "level" /\ op' = "advance"
       \/ op = "recover" /\ Height(bestNode) <= floor /\ op' = "readvance"
    /\ goal' = Tip
    /\ UNCHANGED <<diskVars, bestNode, diffs, cursor, pool, live, conn, target, floor, boundVars>>

NextPool == LET b == diffs[cursor + 1] IN ApplyDiff(pool, In(b), Out(b))
NextSizeOK == LET b == diffs[cursor + 1] IN SizeOK(pool, NextPool, In(b), Out(b))

AdvanceStep ==
    /\ op \in {"advance", "readvance"} /\ cursor < goal /\ NextSizeOK
    /\ pool' = NextPool /\ cursor' = cursor + 1
    /\ UNCHANGED <<diskVars, bestNode, diffs, live, goal, opVars, boundVars>>

\* NewStakeDatabase returns the cursor with its error, and main.go calls
\* LoadAndRecover(cursor - 288), which loads both databases again.
AdvanceFails ==
    /\ op = "advance" /\ cursor < goal /\ ~NextSizeOK
    /\ Load(stakeTip)
    /\ floor' = IF cursor + 1 > RecoverDepth THEN cursor + 1 - RecoverDepth ELSE 0
    /\ op' = "recover" /\ goal' = -1
    /\ UNCHANGED <<disk, conn, target, boundVars>>

\* LoadAndRecover: Rewind(stopHeight - 1, true).
ReadvanceFails ==
    /\ op = "readvance" /\ cursor < goal /\ ~NextSizeOK
    /\ pool' = NextPool /\ cursor' = cursor + 1
    /\ floor' = cursor
    /\ op' = "rewind" /\ goal' = -1
    /\ UNCHANGED <<diskVars, bestNode, diffs, live, conn, target, boundVars>>

\* PopulateLiveTicketCache, and the database is handed to main.go.
Opened ==
    /\ \/ op \in {"advance", "readvance"} /\ cursor = goal
       \/ op = "rewind" /\ Height(bestNode) <= floor
    /\ live' = Live[bestNode]
    /\ op' = "idle" /\ goal' = -1
    /\ UNCHANGED <<diskVars, bestNode, diffs, cursor, pool, conn, target, floor, boundVars>>

\* The process stops, at any point: an interrupt, a panic, an error that ends a
\* start.  Only what is on disk is left.
Crash ==
    /\ op # "down" /\ crashes < MaxCrashes
    /\ crashes' = crashes + 1
    /\ torn' = (torn \/ (op = "append" /\ disk[Height(conn)] \notin {NoBlock, conn}))
    /\ op' = "down" /\ bestNode' = Genesis
    /\ diffs' = <<>> /\ cursor' = 0 /\ pool' = {} /\ live' = {}
    /\ conn' = NoBlock /\ target' = NoBlock /\ floor' = 0 /\ goal' = -1
    /\ UNCHANGED <<diskVars, fails>>

Starting ==
    \/ Open \/ LevelStake \/ LevelPool \/ RewindBoth \/ Levelled
    \/ AdvanceStep \/ AdvanceFails \/ ReadvanceFails \/ Opened

Querying == PoolAdvance \/ PoolRetreat \/ PoolReturn
Switching == Disconnected \/ (op = "connect" /\ \E b \in Blocks : ConnectNode(b))

Next ==
    \/ Starting \/ OpenReinitializes \/ LevelFails \/ Crash
    \/ AppendStored \/ AppendNotStored \/ DisconnectClean \/ DisconnectLossy \/ Disconnected
    \/ PoolAdvance \/ PoolRetreat \/ PoolReturn
    \/ \E b \in Blocks : \/ ConnectNode(b) \/ ConnectRejected(b) \/ StakeWriteFails(b)
                         \/ StartReorg(b)
    \/ \E h \in 0 .. MaxHeight : StartRewind(h) \/ PoolRequest(h)

\* A start, a reorganization and a query run to their end once begun; nothing
\* makes a new block, reorganization or query happen.  Append and Trim wait for
\* PoolDB.mtx, which queries may take again and again; a Go mutex hands itself
\* to the longest waiter, hence strong fairness.
Spec ==
    /\ Init /\ [][Next]_vars
    /\ WF_vars(Starting) /\ WF_vars(Querying) /\ WF_vars(Switching)
    /\ SF_vars(AppendStored) /\ SF_vars(DisconnectClean)

-----------------------------------------------------------------------------
TypeOK ==
    /\ stakeTip \in Blocks /\ bestNode \in Blocks
    /\ disk \in [1 .. MaxHeight -> Blocks \cup {NoBlock}]
    /\ op \in {"down", "level", "advance", "recover", "readvance", "rewind",
              "idle", "append", "connect", "disconnect"}
    /\ diffs \in Seq(Blocks) /\ Len(diffs) <= MaxHeight
    /\ cursor \in 0 .. Len(diffs)
    /\ pool \in SUBSET Tickets /\ live \in SUBSET Tickets
    /\ conn \in Blocks \cup {NoBlock} /\ target \in Blocks \cup {NoBlock}
    /\ floor \in 0 .. MaxHeight /\ goal \in -1 .. MaxHeight
    /\ crashes \in 0 .. MaxCrashes /\ fails \in 0 .. MaxFails
    /\ torn \in BOOLEAN

\* The two databases and the caches describe one chain whenever no operation is
\* in progress: after any interleaving of connects, reorganizations, rewinds,
\* queries and restarts in which no write was lost, the pool diffs are those of
\* BestNode's chain, stakechainstate is at BestNode and the live ticket cache
\* holds BestNode's live tickets.
OneChain ==
    (~torn /\ op = "idle") =>
        /\ stakeTip = bestNode
        /\ diffs = Chain[bestNode]
        /\ live = Live[bestNode]

\* Pool answers with the live tickets of the block at the cursor, also while
\* blocks are being connected and disconnected around the query.
PoolIsLive ==
    (~torn /\ Up) => pool = Live[BlockAt(diffs, cursor)]

\* Refuted, see README: no restart leaves the pool with another chain's tickets, even one that
\* interrupts a reorganization between its two writes.
RecoveredPoolIsLive ==
    (fails = 0 /\ op = "idle") => (diffs = Chain[bestNode] /\ pool = Live[BlockAt(diffs, cursor)])

\* A restart ends with an open database, wherever the process was interrupted,
\* unless a write failed.
StartsUp == op = "down" ~> op = "idle" \/ fails > 0

\* A block being connected, a reorganization and a rewind come to their end,
\* however many queries get in between, unless a write failed.
FinishesWork == Up ~> op \in {"idle", "down"} \/ fails > 0

=============================================================================
