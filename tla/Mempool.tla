------------------------------ MODULE Mempool ------------------------------
(***************************************************************************)
(* The mempool monitor (mempool/monitor.go, collector.go): an inventory of  *)
(* the node's mempool that is collected again for every block and extended  *)
(* by every transaction the node accepts in between.                        *)
(*                                                                         *)
(* The notifier calls one handler after the other, but leaves a             *)
(* handler that misses its deadline running.  Best blocks are numbered by   *)
(* height; a reorganization leads to a higher block as a new block does,    *)
(* but calls no handler of the monitor.                                     *)
(***************************************************************************)
EXTENDS Integers, Sequences, FiniteSets

CONSTANTS
    Txs,           \* transactions
    Votes,         \* those that are votes
    Ticket,        \* Ticket[v]: the ticket that vote v spends
    VotesOn,       \* VotesOn[v]: the block that v votes on
    MaxHeight, MaxTime,
    Skew,          \* how far the time in a header may be ahead of the clock
    MaxFaults      \* failed collections and decodings, and missed deadlines

VARIABLES
    clock,
    node,          \* its mempool, best block, the block's time and arrival
    accepted,      \* when the node accepted each transaction
    queue,         \* notifications
    mon,           \* MempoolMonitor: lastBlock and inventory
    jobs,          \* calls of BlockHandler and TxHandler that run, the oldest first
    fresh,         \* a whole collection, nothing lost since then (history)
    faults

vars == <<clock, node, accepted, queue, mon, jobs, fresh, faults>>

Never == -1
NoTx == "none"

(* VotingInfo: votes on the block, one for each ticket, in any order. *)
Tally(block, txs) ==
    LET tickets == {Ticket[v] : v \in {v \in txs \cap Votes : VotesOn[v] = block}}
    IN [tickets |-> tickets, count |-> Cardinality(tickets)]

(* ParseTxns *)
Inventory(block, time, txs) ==
    [block |-> block, time |-> time, txs |-> txs, all |-> Cardinality(txs),
     tally |-> Tally(block, txs)]

(* NewMempoolMonitor collected before the notifier listens: what has left the  *)
(* mempool in between is still in the inventory.                               *)
Init ==
    /\ clock = 0
    /\ node = [pool |-> {}, block |-> 0, time |-> 0, arrival |-> 0]
    /\ accepted = [t \in Txs |-> Never]
    /\ queue = <<>>
    /\ \E old \in SUBSET (Txs \ Votes) : mon = Inventory(0, 0, old)
    /\ jobs = <<>>
    /\ fresh = FALSE
    /\ faults = 0
-----------------------------------------------------------------------------
(* The node. *)

monitor == <<mon, jobs>>

Tick ==
    /\ clock < MaxTime
    /\ clock' = clock + 1
    /\ UNCHANGED <<node, accepted, queue, fresh, faults, monitor>>

Accept(t) ==
    /\ accepted[t] = Never
    /\ t \in Votes => VotesOn[t] <= node.block
    /\ node' = [node EXCEPT !.pool = @ \cup {t}]
    /\ accepted' = [accepted EXCEPT ![t] = clock]
    /\ queue' = Append(queue, [is |-> "tx", tx |-> t])
    /\ UNCHANGED <<clock, fresh, faults, monitor>>

(* A best block with another header time, after which the transactions S are   *)
(* not in the mempool any more.                                                *)
NewBest(S, time, kind) ==
    /\ node.block < MaxHeight
    /\ node' = [pool |-> node.pool \ S, block |-> node.block + 1, time |-> time,
                arrival |-> clock]
    /\ queue' = Append(queue, [is |-> kind, tx |-> NoTx])
    /\ UNCHANGED <<clock, accepted, fresh, faults, monitor>>

BlockConnected(S, time) == NewBest(S, time, "block")
Reorganization(S, time) == NewBest(S, time, "reorg")
-----------------------------------------------------------------------------
(* The monitor. *)

(* A handler that begins: what it has read of the best block, and its          *)
(* transactions.                                                               *)
Job(at, txs) ==
    [at |-> at, block |-> 0, time |-> 0, txs |-> txs, whole |-> TRUE, late |-> FALSE]

Remaining(i) == SubSeq(jobs, 1, i - 1) \o SubSeq(jobs, i + 1, Len(jobs))

(* The notifier goes on when no handler is left that it waits for. *)
Idle == \A i \in 1 .. Len(jobs) : jobs[i].late

Take(kind) == Idle /\ queue # <<>> /\ Head(queue).is = kind /\ queue' = Tail(queue)

\* Mutant: the ticket's earlier votes are not looked up.
WithTxEveryVote(t) ==
    LET counts == t \in Votes /\ VotesOn[t] = mon.block
    IN [mon EXCEPT !.txs = @ \cup {t}, !.all = @ + 1,
                   !.tally = IF counts THEN [tickets |-> @.tickets \cup {Ticket[t]},
                                             count |-> @.count + 1]
                             ELSE @]

WithTx(t) ==
    LET counts == t \in Votes /\ VotesOn[t] = mon.block /\ Ticket[t] \notin mon.tally.tickets
    IN [mon EXCEPT !.txs = @ \cup {t}, !.all = @ + 1,
                   !.tally = IF counts THEN [tickets |-> @.tickets \cup {Ticket[t]},
                                             count |-> @.count + 1]
                             ELSE @]

\* Mutant: a transaction of the second of the block is taken for older.
BeforeLastBlockOrWith(t) == accepted[t] <= mon.time

(* "Ignore this tx if it was received before the last block." *)
BeforeLastBlock(t) == accepted[t] < mon.time

(* TxHandler, before it locks the inventory: not for a transaction older than  *)
(* the last block.                                                             *)
TxHandler ==
    /\ Take("tx")
    /\ LET t == Head(queue).tx IN
       jobs' = IF BeforeLastBlock(t) THEN jobs ELSE Append(jobs, Job("insert", {t}))
    /\ UNCHANGED <<clock, node, accepted, mon, fresh, faults>>

(* MsgTxFromHex fails, and the transaction is not added. *)
TxDecodeFails ==
    /\ Take("tx")
    /\ ~BeforeLastBlock(Head(queue).tx)
    /\ faults < MaxFaults
    /\ fresh' = FALSE
    /\ faults' = faults + 1
    /\ UNCHANGED <<clock, node, accepted, monitor>>

(* TxHandler with the inventory locked: not for a transaction that is known,   *)
(* or a vote on a block to come.                                               *)
InsertTx(i) ==
    /\ jobs[i].at = "insert"
    /\ \E t \in jobs[i].txs :
          mon' = IF t \in mon.txs \/ (t \in Votes /\ VotesOn[t] > mon.block) THEN mon ELSE WithTx(t)
    /\ fresh' = (fresh /\ ~jobs[i].late)
    /\ jobs' = Remaining(i)
    /\ UNCHANGED <<clock, node, accepted, queue, faults>>

(* No handler of the monitor is registered for reorganizations. *)
ReorgPasses ==
    /\ Take("reorg")
    /\ fresh' = FALSE
    /\ UNCHANGED <<clock, node, accepted, faults, monitor>>

(* BlockHandler, CollectAndStore, Refresh, Collect. *)
BlockHandler ==
    /\ Take("block")
    /\ jobs' = Append(jobs, Job("best", {}))
    /\ UNCHANGED <<clock, node, accepted, mon, fresh, faults>>

(* Collect: one call at a time; the best block first, the transactions later. *)
CollectBest(i) ==
    /\ jobs[i].at = "best"
    /\ \A j \in 1 .. Len(jobs) : jobs[j].at # "txs"
    /\ jobs' = [jobs EXCEPT ![i].at = "txs", ![i].block = node.block,
                            ![i].time = node.time]
    /\ UNCHANGED <<clock, node, accepted, queue, mon, fresh, faults>>

(* mempoolTxns: leaves out what GetRawTransaction fails for. *)
CollectTxns(i, missed) ==
    /\ jobs[i].at = "txs"
    /\ missed # {} => faults < MaxFaults
    /\ jobs' = [jobs EXCEPT ![i].at = "install", ![i].txs = node.pool \ missed,
                            ![i].whole = (missed = {})]
    /\ faults' = IF missed = {} THEN faults ELSE faults + 1
    /\ UNCHANGED <<clock, node, accepted, queue, mon, fresh>>

CollectFails(i) ==
    /\ jobs[i].at \in {"best", "txs"}
    /\ faults < MaxFaults
    /\ jobs' = Remaining(i)
    /\ fresh' = FALSE
    /\ faults' = faults + 1
    /\ UNCHANGED <<clock, node, accepted, queue, mon>>

(* Refresh sets lastBlock and the inventory together. *)
Refresh(i) ==
    LET j == jobs[i] IN
    /\ j.at = "install"
    /\ mon' = Inventory(j.block, j.time, j.txs)
    /\ fresh' = (Len(jobs) = 1 /\ j.whole /\ ~j.late)
    /\ jobs' = Remaining(i)
    /\ UNCHANGED <<clock, node, accepted, queue, faults>>

(* The deadline of the handlers: the notifier goes on without this one. *)
Deadline ==
    /\ ~Idle
    /\ faults < MaxFaults
    /\ jobs' = [i \in 1 .. Len(jobs) |-> [jobs[i] EXCEPT !.late = TRUE]]
    /\ faults' = faults + 1
    /\ fresh' = FALSE
    /\ UNCHANGED <<clock, node, accepted, queue, mon>>
-----------------------------------------------------------------------------
Next ==
    \/ Tick
    \/ \E t \in Txs : Accept(t)
    \/ \E mined \in SUBSET node.pool, time \in node.time .. clock + Skew :
          BlockConnected(mined, time) \/ Reorganization(mined, time)
    \/ TxHandler \/ TxDecodeFails \/ ReorgPasses \/ BlockHandler \/ Deadline
    \/ \E i \in 1 .. Len(jobs) :
          \/ InsertTx(i) \/ CollectBest(i) \/ CollectFails(i) \/ Refresh(i)
          \/ \E missed \in SUBSET node.pool : CollectTxns(i, missed)

Spec == Init /\ [][Next]_vars
-----------------------------------------------------------------------------
Quiet == queue = <<>> /\ jobs = <<>>

\* With all notifications handled, the inventory is the node's mempool: what
\* was accepted while it was collected is neither lost nor kept after it was
\* mined.  Excepted are transactions accepted before the time in the header of
\* the last block but after its arrival, which TxHandler takes for older than
\* the block, and the time from a reorganization, a collection that failed, is
\* not whole or missed its deadline, or a transaction that did, to the next block.
InventoryIsMempool ==
    Quiet /\ fresh =>
        /\ mon.txs \subseteq node.pool
        /\ \A t \in node.pool \ mon.txs : accepted[t] \in node.arrival .. mon.time - 1

\* Whatever is late or lost, the counts agree with the inventory they belong
\* to: the number of transactions, and the tickets that voted on the last
\* block, each counted once although several of its votes are in the mempool.
CountsAgree ==
    /\ mon.all = Cardinality(mon.txs)
    /\ mon.tally = Tally(mon.block, mon.txs)
=============================================================================
