---------------------------- MODULE AddressCache ----------------------------
(***************************************************************************)
(* The address cache of db/cache and the requests of ChainDB that read and *)
(* fill it (AddressBalance, updateAddressRows with its callers, AddressUTXO,*)
(* TxHistoryData, AddressHistory), while blocks are stored and orphaned.   *)
(*                                                                         *)
(* The data of an address are versions of its rows in the database: a      *)
(* block that touches the address makes a new version when its rows are    *)
(* committed, moves the best block, and then clears the address from the   *)
(* cache, in three steps. A request reads the best block and the cache,    *)
(* tries the CacheLock of the address, queries, stores and releases.       *)
(***************************************************************************)
EXTENDS Integers, Sequences, FiniteSets, FiniteSetsExt

CONSTANTS Addresses, Clients,
          NoOne,         \* no client
          Cap,           \* cap: rows in the cache
          CapAddr,       \* capAddr: addresses in the cache
          MaxUTXOs,      \* maxUTXOsPerAddr
          MaxBlocks,     \* blocks connected
          MaxReorgs,     \* blocks orphaned
          MaxErrors,     \* failed queries and failed stores
          MaxRequests    \* requests made

VARIABLES db,       \* version of the rows of each address in the database
          chain,    \* labels of the main chain's blocks; the last is bestBlock
          writer,   \* the block writer: what it has done of the current block
          dirty,    \* addresses whose rows it committed and has yet to clear
          cache,    \* AddressCache.a
          locks,    \* CacheLocks: holder of each lock of each address
          req,      \* the request of each client
          late,     \* addresses whose cached data may stay stale (history)
          counts    \* blocks, reorganizations, errors and requests so far

vars == <<db, chain, writer, dirty, cache, locks, req, late, counts>>

None == -1
NoItem == [label |-> None, rows |-> None, bal |-> None, utxos |-> None, hist |-> None]

Ops == {"balance", "rows", "history", "utxos", "chart"}
\* label: the best block read with the cache; at: the one the result is stored with.
Idle == [op |-> "none", addr |-> NoOne, pc |-> "idle", label |-> None, at |-> 0, got |-> None, rows |-> None]

Best == chain[Len(chain)]
NumRows(v) == v + 1     \* every version has one row more
NumUTXOs(v) == v + 1

Cached == {a \in Addresses : cache[a] /= NoItem}
CachedRows(S) == UNION {{a} \X (1 .. NumRows(cache[a].rows)) : a \in S}
RowsOf(S) == Cardinality(CachedRows(S))

Count(k) == counts' = [counts EXCEPT ![k] = @ + 1]

\* The lock a request takes; the history charts share the balance lock.
LockOf(op) == CASE op \in {"balance", "chart"} -> "bal"
                [] op \in {"rows", "history"} -> "rows"
                [] op = "utxos" -> "utxo"
                [] OTHER -> "bal"

-----------------------------------------------------------------------------
Init ==
    /\ db = [a \in Addresses |-> 0]
    /\ chain = <<0>>
    /\ writer = "idle" /\ dirty = {}
    /\ cache = [a \in Addresses |-> NoItem]
    /\ locks = [l \in {"bal", "rows", "utxo"} |-> [a \in Addresses |-> NoOne]]
    /\ req = [c \in Clients |-> Idle]
    /\ late = {}
    /\ counts = [blocks |-> 0, reorgs |-> 0, errors |-> 0, requests |-> 0]

-----------------------------------------------------------------------------
(* The block writer. *)

reader == <<cache, locks, req>>

\* The rows of a block that touches the addresses S are committed.
Commit(S) ==
    /\ S /= {}
    /\ db' = [a \in Addresses |-> IF a \in S THEN db[a] + 1 ELSE db[a]]
    /\ dirty' = dirty \cup S
    /\ UNCHANGED <<chain, late, reader>>

\* StoreBlock: rows, then bestBlock, then FreshenAddressCaches.
StoreRowsOfBlock(S) ==
    /\ writer = "idle" /\ counts.blocks < MaxBlocks
    /\ Commit(S)
    /\ writer' = "stored"
    /\ Count("blocks")

SetBest ==
    /\ writer = "stored"
    /\ chain' = Append(chain, counts.blocks + counts.reorgs)
    /\ writer' = "clear"
    /\ UNCHANGED <<db, dirty, late, reader, counts>>

\* TipToSideChain: block by block the rows and the best block; the addresses
\* of all of them are cleared at the end.
OrphanRows(S) ==
    /\ writer \in {"idle", "orphaned"} /\ counts.reorgs < MaxReorgs /\ Len(chain) > 1
    /\ Commit(S)
    /\ writer' = "orphan"
    /\ Count("reorgs")

OrphanTip ==
    /\ writer = "orphan"
    /\ chain' = SubSeq(chain, 1, Len(chain) - 1)
    /\ writer' = "orphaned"
    /\ UNCHANGED <<db, dirty, late, reader, counts>>

\* A request that has read a version from the database, and may store it.
Reading(c, a) ==
    /\ req[c].addr = a
    /\ \/ req[c].got /= None /\ req[c].got < db[a]
       \/ req[c].rows /= None /\ req[c].rows < db[a]

ClearOne ==  \* Mutant: clears one address of the block only.
    /\ writer \in {"clear", "orphaned"}
    /\ \E b \in dirty : cache' = [cache EXCEPT ![b] = NoItem]
    /\ late' = (late \ dirty) \cup {a \in dirty : \E c \in Clients : Reading(c, a)}
    /\ dirty' = {}
    /\ writer' = "idle"
    /\ UNCHANGED <<db, chain, locks, req, counts>>

\* AddressCache.Clear of the addresses of the block. What a request read
\* before may be stored afterwards.
Clear ==
    /\ writer \in {"clear", "orphaned"}
    /\ cache' = [a \in Addresses |-> IF a \in dirty THEN NoItem ELSE cache[a]]
    /\ late' = (late \ dirty) \cup {a \in dirty : \E c \in Clients : Reading(c, a)}
    /\ dirty' = {}
    /\ writer' = "idle"
    /\ UNCHANGED <<db, chain, locks, req, counts>>

\* A statement after those of the trees fails: StoreBlock returns before it
\* clears the cache, with the best block set or not.
StoreFails ==
    /\ writer \in {"stored", "clear"} /\ counts.errors < MaxErrors
    /\ late' = late \cup dirty
    /\ dirty' = {}
    /\ writer' = "idle"
    /\ Count("errors")
    /\ UNCHANGED <<db, chain, reader>>

-----------------------------------------------------------------------------
(* Storing in the cache. *)

\* purgeRowsToFit(n): the sets of addresses that may be left. Items are
\* deleted in any order, first until there is room for one more address, then
\* items with rows until the rows fit or there are none.
Left(n) ==
    LET keep == {S \in SUBSET Cached : Cardinality(S) = Min({Cardinality(Cached), CapAddr - 1})}
    IN {S \in SUBSET Cached :
           \E K \in keep :
              /\ S \subseteq K
              /\ \A a \in K \ S : NumRows(cache[a].rows) > 0
              /\ RowsOf(S) = 0 \/ RowsOf(S) + n <= Cap
              /\ S = K \/ \E a \in K \ S : RowsOf(S \cup {a}) + n > Cap}

Keep(S) == [a \in Addresses |-> IF a \in S THEN cache[a] ELSE NoItem]

AddCacheItemAlways(a, item) ==  \* Mutant: does not ask whether room could be made.
    LET n == NumRows(item.rows) - NumRows(cache[a].rows)
    IN \E S \in Left(n) : cache' = [Keep(S) EXCEPT ![a] = item]

\* addCacheItem: room is made for the rows that the new item has more than
\* the one it replaces. A cache without capacity stays empty.
AddCacheItem(a, item) ==
    LET n == NumRows(item.rows) - NumRows(cache[a].rows)
    IN IF Cap < 1 \/ CapAddr < 1 THEN UNCHANGED cache
       ELSE \E S \in Left(n) :
          cache' = IF RowsOf(S) + n <= Cap THEN [Keep(S) EXCEPT ![a] = item] ELSE Keep(S)

\* StoreRows, setCacheItemRows: rows of another block replace the item; the
\* item itself may be deleted to make room, and is then filled in vain.
StoreRows(a, v, label) ==
    IF cache[a].label /= label THEN AddCacheItem(a, [NoItem EXCEPT !.label = label, !.rows = v])
    ELSE IF cache[a].rows /= None /\ NumRows(cache[a].rows) = NumRows(v) THEN UNCHANGED cache
    ELSE LET n == NumRows(v) - NumRows(cache[a].rows)
         IN \E S \in Left(n) :
               cache' = IF RowsOf(S) + n <= Cap /\ a \in S THEN [Keep(S) EXCEPT ![a].rows = v] ELSE Keep(S)

StoreBalance(a, v, label) ==
    IF cache[a].label /= label THEN AddCacheItem(a, [NoItem EXCEPT !.label = label, !.bal = v])
    ELSE cache' = [cache EXCEPT ![a].bal = v]

\* The balance and rows of an item are not evicted for utxos and charts of
\* another block.
StoreUTXOs(a, v, label) ==
    IF NumUTXOs(v) > MaxUTXOs THEN UNCHANGED cache
    ELSE IF cache[a] = NoItem THEN AddCacheItem(a, [NoItem EXCEPT !.label = label, !.utxos = v])
    ELSE cache' = [cache EXCEPT ![a].utxos = v]

StoreHistoryChart(a, v, label) ==
    IF cache[a] = NoItem THEN AddCacheItem(a, [NoItem EXCEPT !.label = label, !.hist = v])
    ELSE cache' = [cache EXCEPT ![a].hist = v]

-----------------------------------------------------------------------------
(* Requests. *)

block == <<db, chain, writer, dirty, late>>

Request(c, op, a) ==
    /\ req[c] = Idle /\ counts.requests < MaxRequests
    /\ req' = [req EXCEPT ![c] = [Idle EXCEPT !.op = op, !.addr = a, !.pc = "cache"]]
    /\ Count("requests")
    /\ UNCHANGED <<block, cache, locks>>

Balance(a) == cache[a].bal
Rows(a) == cache[a].rows
UTXOs(a) == cache[a].utxos
HistoryChart(a) == cache[a].hist

CachedData(op, a) ==
    CASE op = "balance" -> Balance(a)
      [] op \in {"rows", "history"} -> Rows(a)
      [] op = "utxos" -> UTXOs(a)
      [] OTHER -> HistoryChart(a)

\* The best block and the cache are read. A hit is returned whatever its
\* block; AddressHistory goes on to the balance.
Hit(c) ==
    /\ req[c].pc = "cache"
    /\ CachedData(req[c].op, req[c].addr) /= None
    /\ req' = [req EXCEPT ![c] = IF req[c].op /= "history" THEN Idle
                                 ELSE [@ EXCEPT !.pc = "bal", !.label = Best,
                                                !.rows = CachedData("rows", req[c].addr)]]
    /\ UNCHANGED <<block, cache, locks, counts>>

\* No data, or, for AddressHistory, a page of no rows: cached rows that have
\* none of the view are returned as nil, which the caller takes for a miss.
Miss(c) ==
    /\ req[c].pc = "cache"
    /\ req[c].op /= "history" => CachedData(req[c].op, req[c].addr) = None
    /\ req' = [req EXCEPT ![c].pc = "lock", ![c].label = Best]
    /\ UNCHANGED <<block, cache, locks, counts>>

\* CacheLock.TryLock: wait for the holder, or hold the lock. The updater of
\* the rows then clears the old ones and reads the best block again.
WaitForLock(c) ==
    /\ req[c].pc = "lock"
    /\ locks[LockOf(req[c].op)][req[c].addr] /= NoOne
    /\ req' = [req EXCEPT ![c].pc = "wait"]
    /\ UNCHANGED <<block, cache, locks, counts>>

TryLock(c) ==
    LET l == LockOf(req[c].op)
        a == req[c].addr
    IN /\ req[c].pc = "lock"
       /\ locks[l][a] = NoOne
       /\ locks' = [locks EXCEPT ![l][a] = c]
       /\ req' = [req EXCEPT ![c].pc = "query", ![c].at = IF l = "rows" THEN Best ELSE req[c].label]
       /\ cache' = IF l = "rows" /\ cache[a] /= NoItem THEN [cache EXCEPT ![a].rows = None] ELSE cache
       /\ UNCHANGED <<block, counts>>

Query(c) ==
    /\ req[c].pc = "query"
    /\ req' = [req EXCEPT ![c].pc = "store", ![c].got = db[req[c].addr]]
    /\ UNCHANGED <<block, cache, locks, counts>>

\* done: the lock is free and its channel closed; who waited starts again
\* with the cache. next is what the holder goes on with.
Release(c, next) ==
    LET l == LockOf(req[c].op)
        a == req[c].addr
    IN /\ locks' = [locks EXCEPT ![l][a] = NoOne]
       /\ req' = [d \in Clients |->
                    IF d = c THEN next
                    ELSE IF req[d].pc = "wait" /\ LockOf(req[d].op) = l /\ req[d].addr = a
                         THEN [req[d] EXCEPT !.pc = "cache"]
                    ELSE req[d]]

QueryFailsHolding(c) ==  \* Mutant: the error return does not call done.
    /\ req[c].pc = "query" /\ counts.errors < MaxErrors
    /\ req' = [req EXCEPT ![c] = Idle]
    /\ Count("errors")
    /\ UNCHANGED <<block, cache, locks>>

\* The query fails or times out.
QueryFails(c) ==
    /\ req[c].pc = "query" /\ counts.errors < MaxErrors
    /\ Release(c, Idle)
    /\ Count("errors")
    /\ UNCHANGED <<block, cache>>

Store(c) ==
    LET r == req[c]
    IN /\ r.pc = "store"
       /\ CASE r.op = "balance" -> StoreBalance(r.addr, r.got, r.at)
            [] r.op \in {"rows", "history"} -> StoreRows(r.addr, r.got, r.at)
            [] r.op = "utxos" -> StoreUTXOs(r.addr, r.got, r.at)
            [] OTHER -> StoreHistoryChart(r.addr, r.got, r.at)
       /\ Release(c, IF r.op = "history" THEN [r EXCEPT !.pc = "bal", !.at = 0, !.rows = r.got, !.got = None] ELSE Idle)
       /\ UNCHANGED <<block, counts>>

\* AddressHistory has the rows: a cached balance, or one computed from the
\* rows if they are all, labelled with the best block read at the start; or
\* AddressBalance is called.
HistoryBalanceHit(c) ==
    /\ req[c].pc = "bal" /\ cache[req[c].addr].bal /= None
    /\ req' = [req EXCEPT ![c] = Idle]
    /\ UNCHANGED <<block, cache, locks, counts>>

HistoryShortcut(c) ==
    /\ req[c].pc = "bal" /\ cache[req[c].addr].bal = None
    /\ StoreBalance(req[c].addr, req[c].rows, req[c].label)
    /\ req' = [req EXCEPT ![c] = Idle]
    /\ UNCHANGED <<block, locks, counts>>

HistoryBalance(c) ==
    /\ req[c].pc = "bal" /\ cache[req[c].addr].bal = None
    /\ req' = [req EXCEPT ![c] = [Idle EXCEPT !.op = "balance", !.addr = req[c].addr, !.pc = "cache"]]
    /\ UNCHANGED <<block, cache, locks, counts>>

-----------------------------------------------------------------------------
Step(c) ==
    \/ Hit(c) \/ Miss(c) \/ WaitForLock(c) \/ TryLock(c) \/ Query(c) \/ QueryFails(c) \/ Store(c)
    \/ HistoryBalanceHit(c) \/ HistoryShortcut(c) \/ HistoryBalance(c)

WriterStep == SetBest \/ OrphanTip \/ Clear \/ StoreFails

Next ==
    \/ \E S \in SUBSET Addresses : StoreRowsOfBlock(S) \/ OrphanRows(S)
    \/ WriterStep
    \/ \E c \in Clients : Step(c) \/ \E op \in Ops, a \in Addresses : Request(c, op, a)

Spec == Init /\ [][Next]_vars

-----------------------------------------------------------------------------
\* What AddressCache.Clear achieves although hits are not compared with the
\* best block: cached data are those of the database, unless a block with the
\* address is being stored, or a request had read the old data when the
\* address was cleared, or StoreBlock failed before it cleared.
CachedIsCurrent ==
    \A a \in Addresses \ (dirty \cup late) :
        {cache[a].rows, cache[a].bal, cache[a].utxos, cache[a].hist} \subseteq {None, db[a]}

\* Refuted, see README: "if cache is stale or missing data for the address, a DB query is used"
\* (AddressBalance): when no request and no block is under way, no stale
\* balance is in the cache to be returned.
NoStaleBalance ==
    (writer = "idle" /\ \A c \in Clients : req[c] = Idle)
        => \A a \in Addresses : cache[a].bal \in {None, db[a]}

\* "rowCapacity is an absolute limit on the number of address data table rows
\* that may have cached data, while addressCapacity is a limit on the number of
\* unique addresses" (NewAddressCache), for the calls ChainDB makes.
WithinCapacity == RowsOf(Cached) <= Cap /\ Cardinality(Cached) <= CapAddr

\* A CacheLock has one holder, which is between TryLock and done, and whoever
\* waits for it waits for such a holder, so that its channel will be closed.
LockSafe ==
    /\ \A c \in Clients :
          req[c].pc \in {"query", "store"} <=> \E l \in DOMAIN locks, a \in Addresses : locks[l][a] = c
    /\ \A c \in Clients : req[c].pc = "wait" => locks[LockOf(req[c].op)][req[c].addr] /= NoOne
=============================================================================
