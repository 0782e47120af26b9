--------------------------- MODULE BlockPipeline ---------------------------
(***************************************************************************)
(* The path of a block through the explorer: the node's notifications, the *)
(* Notifier's queue and handler groups, and the handlers: the stake        *)
(* database's ChainMonitor, the block data collector with its savers, and  *)
(* ChainDB's ChainMonitor.                                                 *)
(*                                                                         *)
(* The databases are reduced to what the order of their updates can        *)
(* disturb (modules StakeDB and ChainDB have their inside).  The node is   *)
(* the environment.  The handlers of the third groups (node height,        *)
(* mempool, charts) and transactions are left out.                         *)
(***************************************************************************)
EXTENDS BlockTree, FiniteSets

CONSTANTS
    InitTip,   \* best block when the last sync of main.go is done
    Charged,   \* ChargePoolInfoCache(heightDB - Charged)
    MaxMoves,  \* bound: moves of the node's best block
    MaxFails,  \* bound: failed RPCs
    MaxLates   \* bound: handler groups that miss SyncHandlerDeadline

ASSUME PipelineAssumption ==
    InitTip \in Blocks /\ Charged \in Nat /\ MaxMoves \in Nat /\ MaxFails \in Nat /\ MaxLates \in Nat

VARIABLES
    node,      \* the node's best block
    queue,     \* Notifier.anyQ
    previous,  \* Notifier.previous
    cur,       \* notification that is processed
    group,     \* index of the running handler group
    procs,     \* running handlers, late ones included, and main.go's goroutine
    stakeTip,  \* best block of the stake database
    info,      \* blocks of its pool info cache
    rows,      \* blocks of the blocks table
    main,      \* those with is_mainchain
    best,      \* ChainDB.bestBlock
    page,      \* explorerUI.pageData: its block, and who stored it
    dead,      \* the process has ended with a panic or a fatal error
    moves, fails, lates

env == <<node, moves>>
notifier == <<queue, previous, cur, group>>
stakeDB == <<stakeTip, info>>
chainDB == <<rows, main, best>>
vars == <<node, queue, previous, cur, group, procs, stakeTip, info, rows, main, best, page, dead,
          moves, fails, lates>>

-----------------------------------------------------------------------------
ChainOf(b) == {a \in Blocks : IsAncestor(a, b)}

\* rpcutils.CommonAncestor.
Root(a, b) ==
    CHOOSE c \in ChainOf(a) \cap ChainOf(b) :
        \A d \in ChainOf(a) \cap ChainOf(b) : Height(d) <= Height(c)

\* The block of height h on the chain of b.
At(b, h) == BlockAt(Chain[b], h)

\* A block header, or the BranchTips of a reorganization.
BlockMsg(b) == [old |-> NoBlock, new |-> b]
ReorgMsg(a, b) == [old |-> a, new |-> b]
NoMsg == [old |-> NoBlock, new |-> NoBlock]
IsReorg(m) == m.old # NoBlock

\* old, new: the notification; at: the block a handler has got to, or has the
\* data of; wait: the notifier waits for it.
Proc(x, m, wait) == [h |-> x, old |-> m.old, new |-> m.new, pc |-> "start", at |-> NoBlock, wait |-> wait]

\* main.go has synchronized the databases, set the notifier's previous block to
\* ChainDB's best block and started to listen; the initial data summary is left.
Init ==
    /\ node = InitTip
    /\ queue = <<>> /\ previous = InitTip /\ cur = NoMsg /\ group = 0
    /\ procs = {Proc("main", NoMsg, FALSE)}
    /\ stakeTip = InitTip
    /\ info = {b \in ChainOf(InitTip) : b = Genesis \/ Height(b) >= Height(InitTip) - Charged}
    /\ rows = ChainOf(InitTip) /\ main = ChainOf(InitTip) /\ best = InitTip
    /\ page = [block |-> NoBlock, by |-> "none"]
    /\ dead = FALSE /\ moves = 0 /\ fails = 0 /\ lates = 0

Fail == fails < MaxFails /\ fails' = fails + 1

-----------------------------------------------------------------------------
(* The node. *)

Notify(ms) ==
    /\ ~dead /\ moves < MaxMoves /\ moves' = moves + 1
    /\ queue' = queue \o ms
    /\ UNCHANGED <<previous, cur, group, procs, stakeDB, chainDB, page, dead, fails, lates>>

NodeExtends(b) ==
    /\ b # Genesis /\ Parent(b) = node
    /\ node' = b
    /\ Notify(<<BlockMsg(b)>>)

\* The new chain's blocks are announced before the reorganization.
NodeReorganizes(b) ==
    /\ Height(b) >= Height(node) /\ ~IsAncestor(node, b)
    /\ node' = b
    /\ LET c == Height(Root(node, b)) IN
       Notify([i \in 1 .. Height(b) - c |-> BlockMsg(At(b, c + i))] \o <<ReorgMsg(node, b)>>)

-----------------------------------------------------------------------------
(* Handlers and their processes. *)

\* The handlers that main.go registers for the two groups modelled here.
Handlers(m, g) ==
    CASE g = 1 -> {"stake"}
      [] g = 2 /\ ~IsReorg(m) -> {"data"}
      [] OTHER -> {"data", "chain"}

Spawn(m, g) == {Proc(x, m, TRUE) : x \in Handlers(m, g)}

Goes(p, pc, at) == procs' = (procs \ {p}) \cup {[p EXCEPT !.pc = pc, !.at = at]}
Ends(p) == procs' = procs \ {p}
Panics == dead' = TRUE /\ UNCHANGED procs

-----------------------------------------------------------------------------
(* main.go, after Listen. *)

\* Collect for the initial data summary; its failure is fatal.
MainCollect(p) ==
    /\ p.h = "main" /\ p.pc = "start"
    /\ \/ Goes(p, "page", node) /\ UNCHANGED <<dead, fails>>
       \/ Fail /\ Panics
    /\ UNCHANGED <<env, notifier, stakeDB, chainDB, page, lates>>

\* explore.Store of the initial data summary.
MainStore(p) ==
    /\ p.h = "main" /\ p.pc = "page"
    /\ page' = [block |-> p.at, by |-> "main"]
    /\ Ends(p)
    /\ UNCHANGED <<env, notifier, stakeDB, chainDB, dead, fails, lates>>

-----------------------------------------------------------------------------
(* The Notifier. *)

Idle == cur = NoMsg /\ queue # <<>>

Process(m) == cur' = m /\ group' = 1 /\ procs' = procs \cup Spawn(m, 1)

\* Mutant: any block is passed to the handlers.
ProcessBlockUnchecked ==
    /\ Idle /\ ~IsReorg(Head(queue)) /\ queue' = Tail(queue)
    /\ Process(Head(queue))
    /\ UNCHANGED <<env, previous, stakeDB, chainDB, page, dead, fails, lates>>

\* processBlock: a block that does not connect to the previous one is dropped.
ProcessBlock ==
    /\ Idle /\ ~IsReorg(Head(queue)) /\ queue' = Tail(queue)
    /\ IF Parent(Head(queue).new) = previous THEN Process(Head(queue)) ELSE UNCHANGED <<cur, group, procs>>
    /\ UNCHANGED <<env, previous, stakeDB, chainDB, page, dead, fails, lates>>

\* signalReorg; without the common ancestor it is given up.
SignalReorg ==
    /\ Idle /\ IsReorg(Head(queue)) /\ queue' = Tail(queue)
    /\ \/ Process(Head(queue)) /\ UNCHANGED fails
       \/ Fail /\ UNCHANGED <<cur, group, procs>>
    /\ UNCHANGED <<env, previous, stakeDB, chainDB, page, dead, lates>>

\* Mutant: only new blocks advance the previous block.
NextGroupForgets(ps) ==
    IF group = 1 THEN group' = 2 /\ procs' = ps \cup Spawn(cur, 2) /\ UNCHANGED <<previous, cur>>
                 ELSE /\ group' = 0 /\ procs' = ps /\ cur' = NoMsg
                      /\ previous' = IF IsReorg(cur) THEN previous ELSE cur.new

\* The next group of handlers, or the end of the notification.
NextGroup(ps) ==
    IF group = 1 THEN group' = 2 /\ procs' = ps \cup Spawn(cur, 2) /\ UNCHANGED <<previous, cur>>
                 ELSE group' = 0 /\ procs' = ps /\ cur' = NoMsg /\ previous' = cur.new

Waiting == {p \in procs : p.wait}

GroupDone ==
    /\ cur # NoMsg /\ Waiting = {}
    /\ NextGroup(procs)
    /\ UNCHANGED <<env, queue, stakeDB, chainDB, page, dead, fails, lates>>

\* Mutant: the notifier waits for its handlers however long they take.
NoDeadline == FALSE /\ UNCHANGED vars

\* SyncHandlerDeadline: the handlers keep running.
Deadline ==
    /\ cur # NoMsg /\ Waiting # {}
    /\ lates < MaxLates /\ lates' = lates + 1
    /\ NextGroup({[p EXCEPT !.wait = FALSE] : p \in procs})
    /\ UNCHANGED <<env, queue, stakeDB, chainDB, page, dead, fails>>

-----------------------------------------------------------------------------
(* The stake database's ChainMonitor: each handler holds its mutex. *)

\* ConnectBlock; the stake database refuses a block that is not a child.
StakeConnect(p) ==
    /\ p.h = "stake" /\ p.old = NoBlock /\ Ends(p)
    /\ \/ /\ Parent(p.new) = stakeTip
          /\ stakeTip' = p.new /\ info' = info \cup {p.new}
          /\ UNCHANGED fails
       \/ Parent(p.new) # stakeTip /\ UNCHANGED <<stakeDB, fails>>
       \/ Fail /\ UNCHANGED stakeDB
    /\ UNCHANGED <<env, notifier, chainDB, page, dead, lates>>

\* switchToSideChain gets as far as block b of the new chain.
StakeConnected(p, b) ==
    /\ stakeTip' = b
    /\ info' = info \cup (ChainOf(b) \ ChainOf(Root(p.old, p.new)))
    /\ Ends(p) /\ UNCHANGED dead

\* ReorgHandler: disconnect down to the ancestor's height, then connect.  A
\* failed disconnect leaves no hash to compare with.
StakeReorg(p) ==
    LET root == Root(p.old, p.new)
    IN /\ p.h = "stake" /\ p.old # NoBlock
       /\ \/ /\ Height(stakeTip) < Height(root)
             /\ Panics /\ UNCHANGED <<stakeDB, fails>>
          \/ /\ Height(stakeTip) >= Height(root) /\ ~IsAncestor(root, stakeTip)
             /\ stakeTip' = At(stakeTip, Height(root))
             /\ Ends(p) /\ UNCHANGED <<info, dead, fails>>
          \/ /\ IsAncestor(root, stakeTip)
             /\ StakeConnected(p, p.new) /\ UNCHANGED fails
          \/ /\ IsAncestor(root, stakeTip) /\ Fail
             /\ \E b \in ChainOf(Parent(p.new)) : IsAncestor(root, b) /\ StakeConnected(p, b)
          \/ Fail /\ Panics /\ UNCHANGED stakeDB
       /\ UNCHANGED <<env, notifier, chainDB, page, lates>>

-----------------------------------------------------------------------------
(* ChainDB. *)

\* StoreBlock needs the winners of the block and of its parent.
Storable(b) == b \in info /\ Parent(b) \in info

StoreBlock(b) == rows' = rows \cup {b} /\ main' = main \cup {b} /\ best' = b

\* ChainDB.bestBlock's height, which TipToSideChain reads from the block's row.
BestHeight == IF best \in rows THEN Height(best) ELSE -1

\* Mutant: the best block in memory is left behind.
TipToSideChainStale(p) ==
    /\ p.h = "chain" /\ p.pc = "side" /\ p.at # Root(p.old, p.new)
    /\ main' = main \ {p.at} /\ Goes(p, "side", Parent(p.at))
    /\ UNCHANGED <<env, notifier, stakeDB, rows, best, page, dead, fails, lates>>

\* TipToSideChain, one block.  Without the block's row, or when its update
\* fails, the loop goes on with the zero hash.
TipToSideChain(p) ==
    /\ p.h = "chain" /\ p.pc = "side" /\ p.at # Root(p.old, p.new)
    /\ \/ /\ p.at \in rows
          /\ main' = main \ {p.at}
          /\ best' = IF p.at = Genesis THEN NoBlock ELSE Parent(p.at)
          /\ UNCHANGED fails
       \/ p.at \notin rows /\ best' = NoBlock /\ UNCHANGED <<main, fails>>
       \/ Fail /\ best' = NoBlock /\ UNCHANGED main
    /\ Goes(p, "side", best')
    /\ UNCHANGED <<env, notifier, stakeDB, rows, page, dead, lates>>

\* switchToSideChain begins at the best block in memory.
ChainReorg(p) ==
    /\ p.h = "chain" /\ p.pc = "start"
    /\ Goes(p, "side", best)
    /\ UNCHANGED <<env, notifier, stakeDB, chainDB, page, dead, fails, lates>>

\* The tip must now be the common ancestor.
ChainAtRoot(p) ==
    /\ p.h = "chain" /\ p.pc = "side" /\ p.at = Root(p.old, p.new)
    /\ IF BestHeight = Height(p.at) THEN Goes(p, "connect", p.at) /\ UNCHANGED dead ELSE Panics
    /\ UNCHANGED <<env, notifier, stakeDB, chainDB, page, fails, lates>>

\* The next block of the new chain is stored, or the handler gives up.
ChainConnect(p) ==
    LET b == At(p.new, Height(p.at) + 1)
    IN /\ p.h = "chain" /\ p.pc = "connect" /\ p.at # p.new
       /\ \/ Storable(b) /\ StoreBlock(b) /\ Goes(p, "connect", b) /\ UNCHANGED fails
          \/ ~Storable(b) /\ Ends(p) /\ UNCHANGED <<chainDB, fails>>
          \/ Fail /\ Ends(p) /\ UNCHANGED chainDB
       /\ UNCHANGED <<env, notifier, stakeDB, page, dead, lates>>

ChainConnected(p) ==
    /\ p.h = "chain" /\ p.pc = "connect" /\ p.at = p.new
    /\ IF BestHeight = Height(p.at) THEN Ends(p) /\ UNCHANGED dead ELSE Panics
    /\ UNCHANGED <<env, notifier, stakeDB, chainDB, page, fails, lates>>

-----------------------------------------------------------------------------
(* The block data chainMonitor. *)

\* collect, under reorgLock: the node's height tells which data to collect.
CollectStart(p) ==
    /\ p.h = "data" /\ p.pc = "start"
    /\ \A q \in procs : q.h = "data" => q.pc = "start"
    /\ Goes(p, IF Height(node) = Height(p.new) THEN "collect" ELSE "collectHash", NoBlock)
    /\ UNCHANGED <<env, notifier, stakeDB, chainDB, page, dead, fails, lates>>

\* Collect takes the node's best block of now, CollectHash the given block.
CollectData(p) ==
    /\ p.h = "data" /\ p.pc \in {"collect", "collectHash"}
    /\ IF p.old # NoBlock THEN Goes(p, "page", NoBlock)
                          ELSE Goes(p, "save", IF p.pc = "collect" THEN node ELSE p.new)
    /\ UNCHANGED <<env, notifier, stakeDB, chainDB, page, dead, fails, lates>>

\* An RPC fails.  ReorgHandler then calls Done on the WaitGroup that signalReorg
\* leaves nil, and CollectHash reads the chain info that it did not get.
CollectFails(p) ==
    /\ p.h = "data" /\ p.pc \in {"collect", "collectHash"} /\ Fail
    /\ \/ p.old = NoBlock /\ Ends(p) /\ UNCHANGED dead
       \/ (p.old # NoBlock \/ p.pc = "collectHash") /\ Panics
    /\ UNCHANGED <<env, notifier, stakeDB, chainDB, page, lates>>

\* ChainDB.Store, the first saver; its error does not keep the others from
\* storing.
SaveBlock(p) ==
    /\ p.h = "data" /\ p.pc = "save"
    /\ \/ Storable(p.new) /\ StoreBlock(p.new) /\ UNCHANGED fails
       \/ ~Storable(p.new) /\ UNCHANGED <<chainDB, fails>>
       \/ Fail /\ UNCHANGED chainDB
    /\ Goes(p, "page", NoBlock)
    /\ UNCHANGED <<env, notifier, stakeDB, page, dead, lates>>

\* Mutant: the pages are not updated after a reorganization.
SavePageNotReorg(p) ==
    /\ p.h = "data" /\ p.pc = "page"
    /\ page' = IF p.old = NoBlock THEN [block |-> p.new, by |-> "handler"] ELSE page
    /\ Ends(p)
    /\ UNCHANGED <<env, notifier, stakeDB, chainDB, dead, fails, lates>>

\* explorerUI.Store, also the saver of reorganizations.
SavePage(p) ==
    /\ p.h = "data" /\ p.pc = "page"
    /\ page' = [block |-> p.new, by |-> "handler"]
    /\ Ends(p)
    /\ UNCHANGED <<env, notifier, stakeDB, chainDB, dead, fails, lates>>

-----------------------------------------------------------------------------
MainStep == \E p \in procs : MainCollect(p) \/ MainStore(p)
Notifying == ProcessBlock \/ SignalReorg \/ GroupDone
StakeStep == \E p \in procs : StakeConnect(p) \/ StakeReorg(p)
ChainStep == \E p \in procs : \/ ChainReorg(p) \/ TipToSideChain(p) \/ ChainAtRoot(p)
                              \/ ChainConnect(p) \/ ChainConnected(p)
DataStep == \E p \in procs : \/ CollectStart(p) \/ CollectData(p) \/ CollectFails(p)
                             \/ SaveBlock(p) \/ SavePage(p)

Next ==
    /\ ~dead
    /\ \/ \E b \in Blocks : NodeExtends(b) \/ NodeReorganizes(b)
       \/ MainStep \/ Notifying \/ Deadline
       \/ StakeStep \/ ChainStep \/ DataStep

\* The goroutines go on and the timer of the deadline fires; nothing makes the
\* node find a block, or an RPC fail.
Spec ==
    /\ Init /\ [][Next]_vars
    /\ WF_vars(~dead /\ (MainStep \/ Notifying \/ StakeStep \/ DataStep))
    /\ WF_vars(~dead /\ ChainStep)
    /\ WF_vars(~dead /\ Deadline)

-----------------------------------------------------------------------------
Undisturbed == fails = 0 /\ lates = 0

\* Between two notifications the notifier, the stake database and ChainDB are at
\* the same block, and the main chain of ChainDB is that block's chain: the
\* handler groups bring all of them along, in whatever order the handlers of a
\* group run and however the node goes on meanwhile.
InStep ==
    Undisturbed /\ cur = NoMsg =>
        previous = stakeTip /\ previous = best /\ main = ChainOf(best)

\* The home page shows the best block between two notifications, unless the
\* initial data summary of main.go was stored after a handler's.
PageShowsBest == Undisturbed /\ cur = NoMsg /\ page.by = "handler" => page.block = best

\* The panics of the handlers are not reached unless an RPC failed or a handler
\* was late.
AssertionsHold == dead => ~Undisturbed

\* Once the node rests, everything gets to its best block.
CatchesUp == <>[](Undisturbed => best = node /\ stakeTip = node /\ previous = node)

\* Notifications do not wait forever, whatever handlers fail or hang: the
\* deadline lets the notifier go on.  Only MaxLates deadlines are modelled, so
\* it may be left waiting when they are used up.
QueueDrains ==
    \/ []<>(queue = <<>> \/ dead)
    \/ <>[](lates = MaxLates /\ Waiting # {})

\* Refuted, see README: when the handlers have all returned, late ones too, ChainDB has the whole
\* chain of its best block: what a late handler disturbs is "transient".
HealsAfterDeadline ==
    fails = 0 /\ cur = NoMsg /\ procs = {} /\ ~dead => main = ChainOf(best)

\* Refuted, see README: the data that collect returns, whose chain work is stored with the block, are
\* those of the block.
DataIsOwn == \A p \in procs : p.h = "data" /\ p.pc = "save" => p.at = p.new
=============================================================================
