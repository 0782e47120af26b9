------------------------ MODULE AddressCacheProofs ------------------------
(***************************************************************************)
(* Proofs about AddressCache: for any number of requests, addresses,        *)
(* blocks and failures, the CacheLocks are safe, cached data are current    *)
(* but for the named races, and the cache stays within its capacities.      *)
(***************************************************************************)
EXTENDS AddressCache, TLAPS

LockNames == {"bal", "rows", "utxo"}

(* A request holds its lock, and has read the best block. *)
Holding == {"query", "store"}
Labelled == {"lock", "wait", "query", "store", "bal"}
Stages == {"idle", "cache"} \cup Labelled

Item == [label : Int, rows : Int, bal : Int, utxos : Int, hist : Int]

RequestType ==
    [op : Ops \cup {"none"}, addr : Addresses \cup {NoOne}, pc : Stages,
     label : Int, at : Nat, got : Int, rows : Int]

TypeOK ==
    /\ db \in [Addresses -> Nat]
    /\ chain \in Seq(Nat)
    /\ writer \in {"idle", "stored", "clear", "orphan", "orphaned"}
    /\ dirty \subseteq Addresses
    /\ cache \in [Addresses -> Item]
    /\ locks \in [LockNames -> [Addresses -> Clients \cup {NoOne}]]
    /\ req \in [Clients -> RequestType]
    /\ counts \in [{"blocks", "reorgs", "errors", "requests"} -> Nat]

(* There is a best block, so that a request that has read it has a label, and  *)
(* a request that was made names an address and what it asks for.              *)
LabelInv ==
    /\ Len(chain) >= 1
    /\ writer = "orphan" => Len(chain) > 1
    /\ \A c \in Clients : req[c].pc \in Labelled => req[c].label \in Nat
    /\ \A c \in Clients : req[c].pc /= "idle" => req[c].addr \in Addresses /\ req[c].op \in Ops

(* A lock is held by exactly the requests between TryLock and done. *)
LockInv ==
    /\ \A c \in Clients, l \in LockNames, a \in Addresses :
          locks[l][a] = c <=> req[c].pc \in Holding /\ LockOf(req[c].op) = l /\ req[c].addr = a
    /\ \A c \in Clients : req[c].pc = "wait" => locks[LockOf(req[c].op)][req[c].addr] /= NoOne

BaseInv == TypeOK /\ LabelInv /\ LockInv

\* The four kinds of locks, without the case distinction.
LEMMA LockOfIs ==
    /\ \A op : LockOf(op) \in LockNames
    /\ LockOf("balance") = "bal" /\ LockOf("chart") = "bal"
    /\ LockOf("rows") = "rows" /\ LockOf("history") = "rows" /\ LockOf("utxos") = "utxo"
BY DEF LockOf, LockNames

\* The last label of the chain is a block's.
LEMMA BestIs ==
    ASSUME TypeOK, Len(chain) >= 1
    PROVE  Best \in Nat
BY DEF TypeOK, Best

\* What the block writer does leaves the locks and the requests alone.
LEMMA WriterBase ==
    ASSUME BaseInv,
           \/ \E S \in SUBSET Addresses : StoreRowsOfBlock(S) \/ OrphanRows(S)
           \/ WriterStep
    PROVE  BaseInv'
<1>1. UNCHANGED <<locks, req>>
  BY DEF StoreRowsOfBlock, OrphanRows, Commit, reader, WriterStep, SetBest, OrphanTip, Clear, StoreFails
<1>2. db' \in [Addresses -> Nat] /\ dirty' \subseteq Addresses
  <2>1. CASE \E S \in SUBSET Addresses : StoreRowsOfBlock(S) \/ OrphanRows(S)
    <3>1. PICK S \in SUBSET Addresses : Commit(S)
      BY <2>1 DEF StoreRowsOfBlock, OrphanRows
    <3>2. db' = [a \in Addresses |-> IF a \in S THEN db[a] + 1 ELSE db[a]] /\ dirty' = dirty \cup S
      BY <3>1 DEF Commit
    <3>3. \A a \in Addresses : db[a] \in Nat /\ db[a] + 1 \in Nat
      BY DEF BaseInv, TypeOK
    <3> QED BY <3>2, <3>3 DEF BaseInv, TypeOK
  <2>2. CASE WriterStep
    BY <2>2 DEF BaseInv, TypeOK, WriterStep, SetBest, OrphanTip, Clear, StoreFails
  <2> QED BY <2>1, <2>2
<1>3. cache' \in [Addresses -> Item]
  <2>1. NoItem \in Item
    BY DEF NoItem, Item, None
  <2>2. CASE Clear
    <3> HIDE DEF NoItem
    <3> QED BY <2>1, <2>2 DEF BaseInv, TypeOK, Clear
  <2>3. CASE ~Clear
    <3>1. cache' = cache
      BY <2>3 DEF StoreRowsOfBlock, OrphanRows, Commit, reader, WriterStep, SetBest, OrphanTip, StoreFails
    <3> QED BY <3>1 DEF BaseInv, TypeOK
  <2> QED BY <2>2, <2>3
<1>4. counts' \in [{"blocks", "reorgs", "errors", "requests"} -> Nat]
  <2>1. \/ UNCHANGED counts \/ Count("blocks") \/ Count("reorgs") \/ Count("errors")
    BY DEF StoreRowsOfBlock, OrphanRows, WriterStep, SetBest, OrphanTip, Clear, StoreFails
  <2> QED BY <2>1 DEF BaseInv, TypeOK, Count
<1>5. /\ chain' \in Seq(Nat) /\ Len(chain') >= 1
      /\ writer' = "orphan" => Len(chain') > 1
      /\ writer' \in {"idle", "stored", "clear", "orphan", "orphaned"}
  <2>1. CASE \E S \in SUBSET Addresses : StoreRowsOfBlock(S) \/ OrphanRows(S)
    BY <2>1 DEF BaseInv, TypeOK, LabelInv, StoreRowsOfBlock, OrphanRows, Commit
  <2>2. CASE SetBest
    <3>1. counts.blocks + counts.reorgs \in Nat
      BY DEF BaseInv, TypeOK
    <3> QED BY <2>2, <3>1 DEF BaseInv, TypeOK, LabelInv, SetBest
  <2>3. CASE OrphanTip
    <3>1. 1 \in 1 .. Len(chain) /\ Len(chain) - 1 \in Nat /\ Len(chain) \in Nat /\ Len(chain) > 1
      BY <2>3 DEF BaseInv, TypeOK, LabelInv, OrphanTip
    <3>2. chain' \in Seq(Nat) /\ Len(chain') = Len(chain) - 1
      BY <2>3, <3>1 DEF BaseInv, TypeOK, OrphanTip
    <3> QED BY <2>3, <3>1, <3>2 DEF OrphanTip
  <2>4. CASE Clear \/ StoreFails
    BY <2>4 DEF BaseInv, TypeOK, LabelInv, Clear, StoreFails
  <2> QED BY <2>1, <2>2, <2>3, <2>4 DEF WriterStep
<1>6. TypeOK'
  BY <1>1, <1>2, <1>3, <1>4, <1>5, Zenon DEF BaseInv, TypeOK
<1>7. LabelInv'
  BY <1>1, <1>5 DEF BaseInv, LabelInv
<1>8. LockInv'
  BY <1>1 DEF BaseInv, LockInv
<1> QED BY <1>6, <1>7, <1>8 DEF BaseInv

-----------------------------------------------------------------------------
(* What the functions that store in the cache may do to it. *)

\* They store v for address a, and otherwise only remove.
Stores(a, v) ==
    /\ cache' \in [Addresses -> Item]
    /\ \A b \in Addresses \ {a} : cache'[b] \in {cache[b], NoItem}
    /\ cache'[a].rows \in {None, v, cache[a].rows}
    /\ cache'[a].bal \in {None, v, cache[a].bal}
    /\ cache'[a].utxos \in {None, v, cache[a].utxos}
    /\ cache'[a].hist \in {None, v, cache[a].hist}

\* An address without an item has nothing cached.
LEMMA NoItemIs ==
    /\ NoItem \in Item
    /\ NoItem.rows = None /\ NoItem.bal = None /\ NoItem.utxos = None /\ NoItem.hist = None
    /\ NoItem.label = None /\ None \in Int
BY DEF NoItem, Item, None

\* An eviction leaves the items of the addresses that it keeps.
LEMMA KeepType ==
    ASSUME TypeOK, NEW S
    PROVE  /\ Keep(S) \in [Addresses -> Item]
           /\ \A b \in Addresses : Keep(S)[b] = IF b \in S THEN cache[b] ELSE NoItem
BY NoItemIs DEF TypeOK, Keep

\* addCacheItem stores the item or not, and otherwise only evicts.
LEMMA AddCacheItemEffect ==
    ASSUME TypeOK, NEW a \in Addresses, NEW item \in Item, AddCacheItem(a, item)
    PROVE  /\ cache' \in [Addresses -> Item]
           /\ \A b \in Addresses \ {a} : cache'[b] \in {cache[b], NoItem}
           /\ cache'[a] \in {cache[a], NoItem, item}
<1>1. CASE Cap < 1 \/ CapAddr < 1
  BY <1>1 DEF AddCacheItem, TypeOK
<1>2. CASE ~(Cap < 1 \/ CapAddr < 1)
  <2>1. PICK S : cache' = [Keep(S) EXCEPT ![a] = item] \/ cache' = Keep(S)
    BY <1>2 DEF AddCacheItem
  <2> QED BY <2>1, KeepType
<1> QED BY <1>1, <1>2, Zenon

\* StoreBalance caches the given balance, and no rows.
LEMMA StoreBalanceEffect ==
    ASSUME TypeOK, NEW a \in Addresses, NEW v \in Int, NEW label \in Int, StoreBalance(a, v, label)
    PROVE  Stores(a, v) /\ \A b \in Addresses : cache'[b].rows \in {None, cache[b].rows}
<1>1. CASE cache[a].label /= label
  <2> DEFINE item == [NoItem EXCEPT !.label = label, !.bal = v]
  <2>1. item \in Item /\ item.rows = None /\ item.bal = v /\ item.utxos = None /\ item.hist = None
    BY NoItemIs, Zenon DEF Item
  <2>2. AddCacheItem(a, item)
    BY <1>1 DEF StoreBalance
  <2> HIDE DEF item
  <2> QED BY <2>1, <2>2, AddCacheItemEffect, NoItemIs DEF Stores
<1>2. CASE cache[a].label = label
  <2>1. cache' = [cache EXCEPT ![a].bal = v]
    BY <1>2 DEF StoreBalance
  <2> QED BY <2>1, ZenonT(60) DEF Stores, TypeOK, Item
<1> QED BY <1>1, <1>2

\* StoreRows caches only what it is given.
LEMMA StoreRowsEffect ==
    ASSUME TypeOK, NEW a \in Addresses, NEW v \in Int, NEW label \in Int, StoreRows(a, v, label)
    PROVE  Stores(a, v)
<1>1. CASE cache[a].label /= label
  <2> DEFINE item == [NoItem EXCEPT !.label = label, !.rows = v]
  <2>1. item \in Item /\ item.rows = v /\ item.bal = None /\ item.utxos = None /\ item.hist = None
    BY NoItemIs, Zenon DEF Item
  <2>2. AddCacheItem(a, item)
    BY <1>1 DEF StoreRows
  <2> HIDE DEF item
  <2> QED BY <2>1, <2>2, AddCacheItemEffect, NoItemIs DEF Stores
<1>2. CASE cache[a].label = label
  <2>1. \/ cache' = cache
        \/ \E S : \/ cache' = Keep(S)
                  \/ a \in S /\ cache' = [Keep(S) EXCEPT ![a].rows = v]
    <3>1. CASE cache[a].rows /= None /\ NumRows(cache[a].rows) = NumRows(v)
      BY <1>2, <3>1 DEF StoreRows
    <3>2. CASE ~(cache[a].rows /= None /\ NumRows(cache[a].rows) = NumRows(v))
      <4>1. PICK S \in Left(NumRows(v) - NumRows(cache[a].rows)) :
               cache' = IF RowsOf(S) + (NumRows(v) - NumRows(cache[a].rows)) <= Cap /\ a \in S
                        THEN [Keep(S) EXCEPT ![a].rows = v] ELSE Keep(S)
        BY <1>2, <3>2 DEF StoreRows
      <4>2. CASE RowsOf(S) + (NumRows(v) - NumRows(cache[a].rows)) <= Cap /\ a \in S
        BY <4>1, <4>2, Zenon
      <4>3. CASE ~(RowsOf(S) + (NumRows(v) - NumRows(cache[a].rows)) <= Cap /\ a \in S)
        <5>1. cache' = Keep(S)
          BY <4>1, <4>3, Zenon
        <5> QED BY <5>1, Zenon
      <4> QED BY <4>2, <4>3
    <3> QED BY <3>1, <3>2
  <2>2. CASE cache' = cache
    BY <2>2 DEF Stores, TypeOK, Item
  <2>3. ASSUME NEW S, cache' = Keep(S)
        PROVE  Stores(a, v)
    <3>1. \A b \in Addresses : cache'[b] \in {cache[b], NoItem}
      BY <2>3, KeepType
    <3>2. cache'[a] = cache[a] \/ cache'[a] = NoItem
      BY <3>1
    <3> QED BY <2>3, <3>1, <3>2, KeepType, NoItemIs DEF Stores
  <2>4. ASSUME NEW S, a \in S, cache' = [Keep(S) EXCEPT ![a].rows = v]
        PROVE  Stores(a, v)
    <3>1. Keep(S) \in [Addresses -> Item] /\ Keep(S)[a] = cache[a] /\ cache[a] \in Item
      BY <2>4, KeepType DEF TypeOK
    <3>2. cache'[a] = [cache[a] EXCEPT !.rows = v] /\ cache' \in [Addresses -> Item]
      BY <2>4, <3>1 DEF Item
    <3>3. \A b \in Addresses \ {a} : cache'[b] = Keep(S)[b]
      BY <2>4, <3>1
    <3>4. cache'[a].rows = v /\ cache'[a].bal = cache[a].bal /\ cache'[a].utxos = cache[a].utxos
          /\ cache'[a].hist = cache[a].hist
      BY <3>1, <3>2 DEF Item
    <3> QED BY <3>2, <3>3, <3>4, KeepType DEF Stores
  <2> QED BY <2>1, <2>2, <2>3, <2>4
<1> QED BY <1>1, <1>2

\* StoreUTXOs caches the given outputs, and no rows.
LEMMA StoreUTXOsEffect ==
    ASSUME TypeOK, NEW a \in Addresses, NEW v \in Int, NEW label \in Int, StoreUTXOs(a, v, label)
    PROVE  Stores(a, v) /\ \A b \in Addresses : cache'[b].rows \in {None, cache[b].rows}
<1>1. CASE cache' = cache
  BY <1>1 DEF Stores, TypeOK, Item
<1>2. CASE cache[a] = NoItem /\ cache' /= cache
  <2> DEFINE item == [NoItem EXCEPT !.label = label, !.utxos = v]
  <2>1. item \in Item /\ item.rows = None /\ item.bal = None /\ item.utxos = v /\ item.hist = None
    BY NoItemIs, Zenon DEF Item
  <2>2. AddCacheItem(a, item)
    BY <1>2 DEF StoreUTXOs
  <2> HIDE DEF item
  <2> QED BY <2>1, <2>2, AddCacheItemEffect, NoItemIs DEF Stores
<1>3. CASE cache[a] /= NoItem /\ cache' /= cache
  <2>1. cache' = [cache EXCEPT ![a].utxos = v]
    BY <1>3 DEF StoreUTXOs
  <2> QED BY <2>1, Zenon DEF Stores, TypeOK, Item
<1> QED BY <1>1, <1>2, <1>3

\* StoreHistoryChart caches the given chart, and no rows.
LEMMA StoreHistoryChartEffect ==
    ASSUME TypeOK, NEW a \in Addresses, NEW v \in Int, NEW label \in Int, StoreHistoryChart(a, v, label)
    PROVE  Stores(a, v) /\ \A b \in Addresses : cache'[b].rows \in {None, cache[b].rows}
<1>1. CASE cache[a] = NoItem
  <2> DEFINE item == [NoItem EXCEPT !.label = label, !.hist = v]
  <2>1. item \in Item /\ item.rows = None /\ item.bal = None /\ item.utxos = None /\ item.hist = v
    BY NoItemIs, Zenon DEF Item
  <2>2. AddCacheItem(a, item)
    BY <1>1 DEF StoreHistoryChart
  <2> HIDE DEF item
  <2> QED BY <2>1, <2>2, AddCacheItemEffect, NoItemIs DEF Stores
<1>2. CASE cache[a] /= NoItem
  <2>1. cache' = [cache EXCEPT ![a].hist = v]
    BY <1>2 DEF StoreHistoryChart
  <2> QED BY <2>1, Zenon DEF Stores, TypeOK, Item
<1> QED BY <1>1, <1>2

\* Whatever a request stores is what it got, under its address; only a request
\* that holds the lock of the rows stores rows.
LEMMA StoreEffect ==
    ASSUME BaseInv, NEW c \in Clients, Store(c)
    PROVE  /\ Stores(req[c].addr, req[c].got)
           /\ LockOf(req[c].op) /= "rows" =>
                 \A b \in Addresses : cache'[b].rows \in {None, cache[b].rows}
<1>a. /\ TypeOK /\ req[c].addr \in Addresses /\ req[c].got \in Int /\ req[c].at \in Nat
      /\ req[c].op \in Ops
  BY Zenon DEF BaseInv, TypeOK, LabelInv, RequestType, Store
<1>b. req[c].at \in Int
  BY <1>a
<1>1. /\ TypeOK /\ req[c].addr \in Addresses /\ req[c].got \in Int /\ req[c].at \in Int
      /\ req[c].op \in Ops
  BY <1>a, <1>b, Zenon
<1>2. CASE req[c].op = "balance"
  BY <1>1, <1>2, StoreBalanceEffect DEF Store
<1>3. CASE req[c].op \in {"rows", "history"}
  BY <1>1, <1>3, StoreRowsEffect, LockOfIs DEF Store
<1>4. CASE req[c].op = "utxos"
  BY <1>1, <1>4, StoreUTXOsEffect DEF Store
<1>5. CASE req[c].op = "chart"
  BY <1>1, <1>5, StoreHistoryChartEffect DEF Store
<1> QED BY <1>1, <1>2, <1>3, <1>4, <1>5 DEF Ops

-----------------------------------------------------------------------------
(* The requests keep the locks safe. *)

\* A new request holds no lock.
LEMMA RequestBase ==
    ASSUME BaseInv, NEW c \in Clients, NEW op \in Ops, NEW a \in Addresses, Request(c, op, a)
    PROVE  BaseInv'
<1>1. /\ req' = [req EXCEPT ![c] = [Idle EXCEPT !.op = op, !.addr = a, !.pc = "cache"]]
      /\ req[c] = Idle /\ Count("requests")
      /\ UNCHANGED <<block, cache, locks>>
  BY DEF Request
<1>2. /\ req'[c] \in RequestType /\ req'[c].op = op /\ req'[c].addr = a /\ req'[c].pc = "cache"
      /\ \A d \in Clients \ {c} : req'[d] = req[d]
      /\ req' \in [Clients -> RequestType]
  <2>1. Idle \in RequestType
    BY DEF Idle, RequestType, Stages, Ops, None
  <2> HIDE DEF Idle
  <2> QED BY <1>1, <2>1, Zenon DEF BaseInv, TypeOK, RequestType, Stages, Ops
<1>3. TypeOK'
  <2>1. counts' \in [{"blocks", "reorgs", "errors", "requests"} -> Nat]
    BY <1>1 DEF BaseInv, TypeOK, Count
  <2> QED BY <1>1, <1>2, <2>1 DEF BaseInv, TypeOK, block
<1>4. LabelInv'
  BY <1>1, <1>2 DEF BaseInv, LabelInv, Labelled, block
<1>5. LockInv'
  <2>1. req[c].pc = "idle"
    BY <1>1 DEF Idle
  <2> QED BY <1>1, <1>2, <2>1 DEF BaseInv, LockInv, Holding
<1> QED BY <1>3, <1>4, <1>5 DEF BaseInv

\* Steps that neither take nor give back a lock.
LEMMA UnlockedStep ==
    ASSUME BaseInv, NEW c \in Clients, UNCHANGED <<block, locks, counts>>,
           cache' \in [Addresses -> Item],
           req' \in [Clients -> RequestType],
           \A d \in Clients \ {c} : req'[d] = req[d],
           req'[c].pc \in Labelled => req'[c].label \in Nat,
           req'[c].pc /= "idle" => req'[c].addr \in Addresses /\ req'[c].op \in Ops,
           \/ req[c].pc \notin Holding /\ req'[c].pc \notin Holding
           \/ /\ req[c].pc \in Holding /\ req'[c].pc \in Holding
              /\ req'[c].op = req[c].op /\ req'[c].addr = req[c].addr,
           req'[c].pc = "wait" => locks[LockOf(req'[c].op)][req'[c].addr] /= NoOne
    PROVE  BaseInv'
<1>1. TypeOK'
  BY DEF BaseInv, TypeOK, block
<1>2. LabelInv'
  BY DEF BaseInv, LabelInv, block
<1>3. LockInv'
  BY DEF BaseInv, LockInv
<1> QED BY <1>1, <1>2, <1>3 DEF BaseInv

\* The record of a client without a request.
LEMMA IdleIs ==
    /\ Idle \in RequestType /\ Idle.pc = "idle" /\ Idle.got = None /\ Idle.rows = None
    /\ Idle.addr = NoOne
BY DEF Idle, RequestType, Stages, None

\* A request that the cache answers ends without a lock.
LEMMA HitBase ==
    ASSUME BaseInv, NEW c \in Clients, Hit(c)
    PROVE  BaseInv'
<1>1. Best \in Nat /\ Best \in Int
  BY BestIs DEF BaseInv, LabelInv
<1>2. /\ req[c].pc = "cache" /\ UNCHANGED <<block, cache, locks, counts>>
      /\ req[c].addr \in Addresses /\ req[c].op \in Ops
  BY DEF Hit, BaseInv, LabelInv
<1>3. CASE req[c].op /= "history"
  <2>1. req' = [req EXCEPT ![c] = Idle]
    BY <1>3 DEF Hit
  <2> QED BY <1>2, <2>1, IdleIs, UnlockedStep, Zenon DEF BaseInv, TypeOK, Labelled, Holding
<1>4. CASE req[c].op = "history"
  <2> DEFINE rows == CachedData("rows", req[c].addr)
  <2>1. rows = cache[req[c].addr].rows
    BY DEF CachedData, Rows
  <2>2. rows \in Int
    BY <1>2, <2>1 DEF BaseInv, TypeOK, Item
  <2>3. req' = [req EXCEPT ![c] = [req[c] EXCEPT !.pc = "bal", !.label = Best, !.rows = rows]]
    BY <1>4 DEF Hit, BaseInv, TypeOK
  <2> HIDE DEF rows
  <2>4. /\ req'[c] \in RequestType /\ req'[c].pc = "bal" /\ req'[c].label = Best
        /\ req'[c].op = req[c].op /\ req'[c].addr = req[c].addr
        /\ req' \in [Clients -> RequestType] /\ \A d \in Clients \ {c} : req'[d] = req[d]
    <3> DEFINE r == [req[c] EXCEPT !.pc = "bal", !.label = Best, !.rows = rows]
    <3>1. r \in RequestType
      BY <1>1, <2>2, ZenonT(60) DEF BaseInv, TypeOK, RequestType, Stages, Labelled
    <3>a. r.pc = "bal" /\ r.label = Best /\ r.op = req[c].op /\ r.addr = req[c].addr
      BY <1>1, <2>2 DEF BaseInv, TypeOK, RequestType, Stages, Labelled
    <3>2. req' = [req EXCEPT ![c] = r]
      BY <2>3
    <3> HIDE DEF r
    <3> QED BY <3>1, <3>a, <3>2 DEF BaseInv, TypeOK
  <2> QED BY <1>1, <1>2, <2>4, UnlockedStep, Zenon DEF BaseInv, TypeOK, Holding
<1> QED BY <1>3, <1>4

\* Miss, WaitForLock and Query move on in the request only.
LEMMA MissBase ==
    ASSUME BaseInv, NEW c \in Clients, Miss(c) \/ WaitForLock(c) \/ Query(c)
    PROVE  BaseInv'
<1>1. Best \in Nat /\ Best \in Int
  BY BestIs DEF BaseInv, LabelInv
<1>2. req[c] \in RequestType /\ req[c].addr \in Addresses /\ req[c].op \in Ops /\ db[req[c].addr] \in Int
  BY DEF Miss, WaitForLock, Query, BaseInv, LabelInv, TypeOK
<1>3. CASE Miss(c)
  <2>1. req' = [req EXCEPT ![c].pc = "lock", ![c].label = Best] /\ req[c].pc = "cache"
        /\ UNCHANGED <<block, cache, locks, counts>>
    BY <1>3 DEF Miss
  <2>2. /\ req'[c].pc = "lock" /\ req'[c].label = Best
        /\ req'[c].op = req[c].op /\ req'[c].addr = req[c].addr
        /\ req' \in [Clients -> RequestType] /\ \A d \in Clients \ {c} : req'[d] = req[d]
    <3> DEFINE r == [req[c] EXCEPT !.pc = "lock", !.label = Best]
    <3>1. r \in RequestType
      BY <1>1, <1>2, Zenon DEF RequestType, Stages, Labelled
    <3>a. r.pc = "lock" /\ r.label = Best /\ r.op = req[c].op /\ r.addr = req[c].addr
      BY <1>1, <1>2 DEF RequestType, Stages, Labelled
    <3>2. req' = [req EXCEPT ![c] = r]
      BY <1>2, <2>1, Zenon DEF RequestType
    <3> HIDE DEF r
    <3> QED BY <3>1, <3>a, <3>2 DEF BaseInv, TypeOK
  <2> QED BY <1>1, <1>2, <2>1, <2>2, UnlockedStep, Zenon DEF BaseInv, TypeOK, Holding
<1>4. CASE WaitForLock(c)
  <2>1. req' = [req EXCEPT ![c].pc = "wait"] /\ req[c].pc = "lock"
        /\ locks[LockOf(req[c].op)][req[c].addr] /= NoOne
        /\ UNCHANGED <<block, cache, locks, counts>>
    BY <1>4 DEF WaitForLock
  <2>2. /\ req'[c].pc = "wait" /\ req'[c].label = req[c].label
        /\ req'[c].op = req[c].op /\ req'[c].addr = req[c].addr
        /\ req' \in [Clients -> RequestType] /\ \A d \in Clients \ {c} : req'[d] = req[d]
    <3> DEFINE r == [req[c] EXCEPT !.pc = "wait"]
    <3>1. r \in RequestType
      BY <1>1, <1>2 DEF RequestType, Stages, Labelled
    <3>a. r.pc = "wait" /\ r.label = req[c].label /\ r.op = req[c].op /\ r.addr = req[c].addr
      BY <1>1, <1>2 DEF RequestType, Stages, Labelled
    <3>2. req' = [req EXCEPT ![c] = r]
      BY <1>2, <2>1 DEF RequestType
    <3> HIDE DEF r
    <3> QED BY <3>1, <3>a, <3>2 DEF BaseInv, TypeOK
  <2>3. req[c].label \in Nat
    BY <2>1 DEF BaseInv, LabelInv, Labelled
  <2> QED BY <1>2, <2>1, <2>2, <2>3, UnlockedStep, Zenon DEF BaseInv, TypeOK, Holding
<1>5. CASE Query(c)
  <2>1. req' = [req EXCEPT ![c].pc = "store", ![c].got = db[req[c].addr]] /\ req[c].pc = "query"
        /\ UNCHANGED <<block, cache, locks, counts>>
    BY <1>5 DEF Query
  <2>2. /\ req'[c].pc = "store" /\ req'[c].label = req[c].label
        /\ req'[c].op = req[c].op /\ req'[c].addr = req[c].addr
        /\ req' \in [Clients -> RequestType] /\ \A d \in Clients \ {c} : req'[d] = req[d]
    <3> DEFINE r == [req[c] EXCEPT !.pc = "store", !.got = db[req[c].addr]]
    <3>1. r \in RequestType
      BY <1>1, <1>2, Zenon DEF RequestType, Stages, Labelled
    <3>a. r.pc = "store" /\ r.label = req[c].label /\ r.op = req[c].op /\ r.addr = req[c].addr
      BY <1>1, <1>2 DEF RequestType, Stages, Labelled
    <3>2. req' = [req EXCEPT ![c] = r]
      BY <1>2, <2>1, Zenon DEF RequestType
    <3> HIDE DEF r
    <3> QED BY <3>1, <3>a, <3>2 DEF BaseInv, TypeOK
  <2>3. req[c].label \in Nat
    BY <2>1 DEF BaseInv, LabelInv, Labelled
  <2> QED BY <1>2, <2>1, <2>2, <2>3, UnlockedStep, Zenon DEF BaseInv, TypeOK, Holding
<1> QED BY <1>3, <1>4, <1>5

\* TryLock succeeds on a lock that nobody holds.
LEMMA TryLockBase ==
    ASSUME NoOne \notin Clients, BaseInv, NEW c \in Clients, TryLock(c)
    PROVE  BaseInv'
<1> DEFINE l == LockOf(req[c].op)
           a == req[c].addr
           best == IF l = "rows" THEN Best ELSE req[c].label
           r == [req[c] EXCEPT !.pc = "query", !.at = best]
<1>1. /\ req[c] \in RequestType /\ req[c].pc = "lock" /\ a \in Addresses /\ req[c].op \in Ops
      /\ l \in LockNames /\ locks[l][a] = NoOne
  BY LockOfIs DEF TryLock, BaseInv, TypeOK, LabelInv
<1>2. best \in Nat /\ req[c].label \in Nat
  BY <1>1, BestIs DEF BaseInv, LabelInv, Labelled
<1>3. /\ locks' = [locks EXCEPT ![l][a] = c]
      /\ cache' \in {cache, [cache EXCEPT ![a].rows = None]}
      /\ UNCHANGED <<block, counts>>
  BY DEF TryLock
<1>4. req' = [req EXCEPT ![c] = r]
  BY <1>1, Zenon DEF TryLock, RequestType
<1> HIDE DEF best
<1>5. r \in RequestType
  BY <1>1, <1>2, Zenon DEF RequestType, Stages, Labelled
<1>6. r.pc = "query" /\ r.label = req[c].label /\ r.op = req[c].op /\ r.addr = a
  BY <1>1 DEF RequestType
<1> HIDE DEF r
<1>7. /\ req' \in [Clients -> RequestType] /\ req'[c] = r
      /\ \A d \in Clients \ {c} : req'[d] = req[d]
  BY <1>4, <1>5 DEF BaseInv, TypeOK
<1>8. /\ locks' \in [LockNames -> [Addresses -> Clients \cup {NoOne}]]
      /\ locks'[l][a] = c
      /\ \A k \in LockNames, b \in Addresses : k /= l \/ b /= a => locks'[k][b] = locks[k][b]
  BY <1>1, <1>3 DEF BaseInv, TypeOK
<1>9. TypeOK'
  <2>1. cache' \in [Addresses -> Item]
    <3>0. cache[a] \in Item
      BY <1>1 DEF BaseInv, TypeOK
    <3>1. [cache[a] EXCEPT !.rows = None] \in Item
      BY <3>0 DEF Item, None
    <3>2. cache' = cache \/ cache' = [cache EXCEPT ![a] = [cache[a] EXCEPT !.rows = None]]
      BY <1>3
    <3> QED BY <3>1, <3>2, Zenon DEF BaseInv, TypeOK
  <2> QED BY <1>3, <1>7, <1>8, <2>1, Zenon DEF BaseInv, TypeOK, block
<1>10. LabelInv'
  BY <1>1, <1>2, <1>3, <1>6, <1>7 DEF BaseInv, LabelInv, block
<1>11. LockInv'
  <2> HIDE DEF l, a
  <2>1. ASSUME NEW d \in Clients, NEW k \in LockNames, NEW b \in Addresses
        PROVE  locks'[k][b] = d <=> req'[d].pc \in Holding /\ LockOf(req'[d].op) = k /\ req'[d].addr = b
    <3>1. CASE d = c
      <4>1. req'[d].pc \in Holding /\ LockOf(req'[d].op) = l /\ req'[d].addr = a
        BY <3>1, <1>6, <1>7 DEF Holding, l
      <4>2. locks[k][b] /= c
        BY <1>1 DEF BaseInv, LockInv, Holding
      <4> QED BY <3>1, <4>1, <4>2, <1>8
    <3>2. CASE d /= c
      <4>1. locks[k][b] = d <=> req'[d].pc \in Holding /\ LockOf(req'[d].op) = k /\ req'[d].addr = b
        BY <3>2, <1>7 DEF BaseInv, LockInv
      <4>2. CASE k = l /\ b = a
        BY <3>2, <4>1, <4>2, <1>1, <1>8
      <4>3. CASE k /= l \/ b /= a
        BY <4>1, <4>3, <1>8
      <4> QED BY <4>2, <4>3
    <3> QED BY <3>1, <3>2
  <2>2. ASSUME NEW d \in Clients, req'[d].pc = "wait"
        PROVE  locks'[LockOf(req'[d].op)][req'[d].addr] /= NoOne
    <3>1. d /= c /\ req'[d] = req[d]
      BY <2>2, <1>6, <1>7
    <3>2. LockOf(req[d].op) \in LockNames /\ req[d].addr \in Addresses
          /\ locks[LockOf(req[d].op)][req[d].addr] /= NoOne
      BY <2>2, <3>1, LockOfIs DEF BaseInv, LockInv, LabelInv
    <3> QED BY <3>1, <3>2, <1>8
  <2> QED BY <2>1, <2>2 DEF LockInv
<1> QED BY <1>9, <1>10, <1>11 DEF BaseInv

\* done releases the lock of its holder and wakes all who wait for it.
LEMMA ReleaseLocks ==
    ASSUME NoOne \notin Clients, BaseInv, NEW c \in Clients, req[c].pc \in Holding,
           NEW next \in RequestType, Release(c, next),
           next.pc \notin Holding, next.pc /= "wait",
           next.pc \in Labelled => next.label \in Nat,
           next.pc /= "idle" => next.addr \in Addresses /\ next.op \in Ops
    PROVE  /\ LockInv'
           /\ locks' \in [LockNames -> [Addresses -> Clients \cup {NoOne}]]
           /\ req' \in [Clients -> RequestType]
           /\ req'[c] = next
           /\ \A d \in Clients \ {c} : req'[d] \in {req[d], [req[d] EXCEPT !.pc = "cache"]}
           /\ \A d \in Clients : req'[d].pc \in Labelled => req'[d].label \in Nat
           /\ \A d \in Clients : req'[d].pc /= "idle" => req'[d].addr \in Addresses /\ req'[d].op \in Ops
           /\ \A d \in Clients \ {c} : /\ req'[d].addr = req[d].addr /\ req'[d].got = req[d].got
                                       /\ req'[d].rows = req[d].rows /\ req'[d].op = req[d].op
                                       /\ req'[d].pc \in Holding => req[d].pc \in Holding
<1> DEFINE l == LockOf(req[c].op)
           a == req[c].addr
           Woken(d) == req[d].pc = "wait" /\ LockOf(req[d].op) = l /\ req[d].addr = a
<1>1. /\ a \in Addresses /\ l \in LockNames
  BY LockOfIs DEF BaseInv, LabelInv, Holding
<1>2. /\ locks' = [locks EXCEPT ![l][a] = NoOne]
      /\ req' = [d \in Clients |-> IF d = c THEN next
                                   ELSE IF Woken(d) THEN [req[d] EXCEPT !.pc = "cache"] ELSE req[d]]
  BY DEF Release
<1>3. /\ locks' \in [LockNames -> [Addresses -> Clients \cup {NoOne}]]
      /\ locks'[l][a] = NoOne
      /\ \A k \in LockNames, b \in Addresses : k /= l \/ b /= a => locks'[k][b] = locks[k][b]
  BY <1>1, <1>2 DEF BaseInv, TypeOK
<1> HIDE DEF l, a, Woken
<1>4. ASSUME NEW d \in Clients \ {c}
      PROVE  /\ req'[d] = IF Woken(d) THEN [req[d] EXCEPT !.pc = "cache"] ELSE req[d]
             /\ req[d] \in RequestType
             /\ req'[d] \in RequestType
             /\ req'[d].pc = IF Woken(d) THEN "cache" ELSE req[d].pc
             /\ req'[d].addr = req[d].addr /\ req'[d].got = req[d].got
             /\ req'[d].rows = req[d].rows /\ req'[d].op = req[d].op /\ req'[d].label = req[d].label
  <2>1. req'[d] = IF Woken(d) THEN [req[d] EXCEPT !.pc = "cache"] ELSE req[d]
    BY <1>2
  <2>2. req[d] \in RequestType
    BY DEF BaseInv, TypeOK
  <2> QED BY <2>1, <2>2 DEF RequestType, Stages
<1>5. req'[c] = next
  BY <1>2
<1>6. req' \in [Clients -> RequestType]
  <2>1. \A d \in Clients : req'[d] \in RequestType
    BY <1>4, <1>5, Zenon
  <2> QED BY <1>2, <2>1
<1>7. \A d \in Clients : req'[d].pc \in Labelled => req'[d].label \in Nat
  <2> TAKE d \in Clients
  <2>1. CASE d = c
    BY <1>5, <2>1, Zenon
  <2>2. CASE d /= c
    <3>1. req[d].pc \in Labelled => req[d].label \in Nat
      BY Zenon DEF BaseInv, LabelInv
    <3>2. req'[d].pc \in Labelled => req[d].pc \in Labelled
      BY <1>4, <2>2, Zenon DEF Labelled
    <3> QED BY <1>4, <2>2, <3>1, <3>2, Zenon
  <2> QED BY <2>1, <2>2
<1>8. \A d \in Clients : req'[d].pc /= "idle" => req'[d].addr \in Addresses /\ req'[d].op \in Ops
  BY <1>4, <1>5, ZenonT(60) DEF BaseInv, LabelInv, Woken
<1>9. \A d \in Clients \ {c} : req'[d].pc \in Holding <=> req[d].pc \in Holding
  BY <1>4, Zenon DEF Woken, Holding
<1>10. LockInv'
  <2>1. ASSUME NEW d \in Clients, NEW k \in LockNames, NEW b \in Addresses
        PROVE  locks'[k][b] = d <=> req'[d].pc \in Holding /\ LockOf(req'[d].op) = k /\ req'[d].addr = b
    <3>1. CASE d = c
      <4>1. locks[k][b] = c <=> k = l /\ b = a
        BY DEF BaseInv, LockInv, l, a
      <4> QED BY <3>1, <4>1, <1>3, <1>5
    <3>2. CASE d /= c
      <4>0. locks[k][b] = d <=> req[d].pc \in Holding /\ LockOf(req[d].op) = k /\ req[d].addr = b
        BY DEF BaseInv, LockInv
      <4>1. locks[k][b] = d <=> req'[d].pc \in Holding /\ LockOf(req'[d].op) = k /\ req'[d].addr = b
        BY <3>2, <4>0, <1>4, <1>9, Zenon
      <4>2. locks[l][a] = c
        BY <1>1 DEF BaseInv, LockInv, l, a
      <4>3. CASE k = l /\ b = a
        BY <3>2, <4>1, <4>2, <4>3, <1>3, Zenon
      <4>4. CASE k /= l \/ b /= a
        BY <4>1, <4>4, <1>3, Zenon
      <4> QED BY <4>3, <4>4
    <3> QED BY <3>1, <3>2
  <2>2. ASSUME NEW d \in Clients, req'[d].pc = "wait"
        PROVE  locks'[LockOf(req'[d].op)][req'[d].addr] /= NoOne
    <3>1. d /= c /\ ~Woken(d) /\ req'[d].op = req[d].op /\ req'[d].addr = req[d].addr /\ req[d].pc = "wait"
      BY <2>2, <1>4, <1>5, Zenon
    <3>2. LockOf(req[d].op) \in LockNames /\ req[d].addr \in Addresses
          /\ locks[LockOf(req[d].op)][req[d].addr] /= NoOne
      BY <3>1, LockOfIs DEF BaseInv, LockInv, LabelInv
    <3> QED BY <3>1, <3>2, <1>3 DEF Woken
  <2> QED BY <2>1, <2>2 DEF LockInv
<1> QED BY <1>3, <1>4, <1>5, <1>6, <1>7, <1>8, <1>9, <1>10, Zenon

\* A failed query releases the lock as well.
LEMMA QueryFailsBase ==
    ASSUME NoOne \notin Clients, BaseInv, NEW c \in Clients, QueryFails(c)
    PROVE  BaseInv'
<1>1. /\ req[c].pc \in Holding /\ Release(c, Idle) /\ Count("errors") /\ UNCHANGED <<block, cache>>
  BY DEF QueryFails, Holding
<1>2. Idle.pc \notin Holding /\ Idle.pc /= "wait" /\ Idle.pc \notin Labelled
  BY IdleIs DEF Holding, Labelled
<1>3. /\ LockInv' /\ locks' \in [LockNames -> [Addresses -> Clients \cup {NoOne}]]
      /\ req' \in [Clients -> RequestType]
      /\ \A d \in Clients : req'[d].pc \in Labelled => req'[d].label \in Nat
      /\ \A d \in Clients : req'[d].pc /= "idle" => req'[d].addr \in Addresses /\ req'[d].op \in Ops
  BY <1>1, <1>2, IdleIs, ReleaseLocks
<1>4. counts' \in [{"blocks", "reorgs", "errors", "requests"} -> Nat]
  BY <1>1 DEF BaseInv, TypeOK, Count
<1>5. TypeOK'
  BY <1>1, <1>3, <1>4, Zenon DEF BaseInv, TypeOK, block
<1>6. LabelInv'
  BY <1>1, <1>3, Zenon DEF BaseInv, LabelInv, block
<1> QED BY <1>3, <1>5, <1>6 DEF BaseInv

\* What the request goes on with after it has stored: AddressHistory with the rows.
After(c) ==
    IF req[c].op = "history"
    THEN [req[c] EXCEPT !.pc = "bal", !.at = 0, !.rows = req[c].got, !.got = None]
    ELSE Idle

\* After its store a request for the history goes on to the balance, with the
\* rows and the block that it has; every other one has ended.
LEMMA AfterIs ==
    ASSUME BaseInv, NEW c \in Clients, req[c].pc = "store"
    PROVE  /\ After(c) \in RequestType
           /\ After(c).pc \in {"bal", "idle"}
           /\ After(c).pc = "bal" => /\ After(c).label = req[c].label /\ After(c).op = req[c].op
                                     /\ After(c).addr = req[c].addr
                                     /\ After(c).rows = req[c].got /\ After(c).got = None
           /\ After(c).pc = "idle" => After(c) = Idle
<1>1. req[c] \in RequestType
  BY DEF BaseInv, TypeOK
<1>2. CASE req[c].op = "history"
  <2>1. After(c) = [req[c] EXCEPT !.pc = "bal", !.at = 0, !.rows = req[c].got, !.got = None]
    BY <1>2 DEF After
  <2>a. req[c].got \in Int /\ None \in Int /\ 0 \in Nat /\ "bal" \in Stages
    BY <1>1 DEF RequestType, None, Stages, Labelled
  <2>2. After(c) \in RequestType
    BY <1>1, <2>1, <2>a, Zenon DEF RequestType
  <2> QED BY <1>1, <2>1, <2>2 DEF RequestType
<1>3. CASE req[c].op /= "history"
  BY <1>3, IdleIs DEF After
<1> QED BY <1>2, <1>3

\* A request stores what it got and gives its lock back.
LEMMA StoreBase ==
    ASSUME NoOne \notin Clients, BaseInv, NEW c \in Clients, Store(c)
    PROVE  BaseInv'
<1>1. /\ req[c].pc = "store" /\ Release(c, After(c)) /\ UNCHANGED <<block, counts>>
  BY Zenon DEF Store, After
<1>2. /\ After(c) \in RequestType /\ After(c).pc \notin Holding /\ After(c).pc /= "wait"
      /\ After(c).pc \in Labelled => After(c).label \in Nat
      /\ After(c).pc /= "idle" => After(c).addr \in Addresses /\ After(c).op \in Ops
  BY <1>1, AfterIs DEF Holding, Labelled, BaseInv, LabelInv
<1>3. /\ LockInv' /\ locks' \in [LockNames -> [Addresses -> Clients \cup {NoOne}]]
      /\ req' \in [Clients -> RequestType]
      /\ \A d \in Clients : req'[d].pc \in Labelled => req'[d].label \in Nat
      /\ \A d \in Clients : req'[d].pc /= "idle" => req'[d].addr \in Addresses /\ req'[d].op \in Ops
  <2>1. req[c].pc \in Holding
    BY <1>1, Zenon DEF Holding
  <2> QED BY <1>1, <1>2, <2>1, ReleaseLocks
<1>4. cache' \in [Addresses -> Item]
  BY StoreEffect DEF Stores
<1>5. TypeOK'
  BY <1>1, <1>3, <1>4, Zenon DEF BaseInv, TypeOK, block
<1>6. LabelInv'
  BY <1>1, <1>3 DEF BaseInv, LabelInv, block
<1> QED BY <1>3, <1>5, <1>6 DEF BaseInv

\* The balance of a history is looked up without a lock.
LEMMA HistoryBase ==
    ASSUME BaseInv, NEW c \in Clients, HistoryBalanceHit(c) \/ HistoryShortcut(c) \/ HistoryBalance(c)
    PROVE  BaseInv'
<1>1. /\ req[c].pc = "bal" /\ UNCHANGED <<block, locks, counts>>
      /\ req[c] \in RequestType /\ req[c].addr \in Addresses
  BY DEF HistoryBalanceHit, HistoryShortcut, HistoryBalance, BaseInv, LabelInv, TypeOK
<1>2. cache' \in [Addresses -> Item]
  <2>1. CASE HistoryShortcut(c)
    <3>1. StoreBalance(req[c].addr, req[c].rows, req[c].label) /\ req[c].rows \in Int /\ req[c].label \in Int
      BY <1>1, <2>1 DEF HistoryShortcut, RequestType
    <3> QED BY <1>1, <3>1, StoreBalanceEffect, Zenon DEF BaseInv, Stores
  <2>2. CASE ~HistoryShortcut(c)
    BY <2>2 DEF HistoryBalanceHit, HistoryBalance, BaseInv, TypeOK
  <2> QED BY <2>1, <2>2, Zenon
<1>3. CASE HistoryBalanceHit(c) \/ HistoryShortcut(c)
  <2>1. req' = [req EXCEPT ![c] = Idle]
    BY <1>3 DEF HistoryBalanceHit, HistoryShortcut
  <2> QED BY <1>1, <1>2, <2>1, IdleIs, UnlockedStep, Zenon DEF BaseInv, TypeOK, Labelled, Holding
<1>4. CASE HistoryBalance(c)
  <2> DEFINE r == [Idle EXCEPT !.op = "balance", !.addr = req[c].addr, !.pc = "cache"]
  <2>1. req' = [req EXCEPT ![c] = r]
    BY <1>4 DEF HistoryBalance
  <2>2. r \in RequestType /\ r.pc = "cache" /\ r.addr = req[c].addr /\ r.op = "balance"
    BY <1>1, IdleIs, ZenonT(60) DEF RequestType, Stages, Ops
  <2> HIDE DEF r
  <2> QED BY <1>1, <1>2, <2>1, <2>2, UnlockedStep, Zenon DEF BaseInv, TypeOK, Labelled, Holding, Ops
<1> QED BY <1>3, <1>4

\* Nobody holds a lock at the start.
LEMMA BaseInit ==
    ASSUME NoOne \notin Clients
    PROVE  Init => BaseInv
<1> SUFFICES ASSUME Init PROVE BaseInv
  OBVIOUS
<1>1. chain = <<0>> /\ <<0>> \in Seq(Nat) /\ Len(<<0>>) = 1
  BY DEF Init
<1>2. TypeOK
  <2>1. cache \in [Addresses -> Item]
    BY NoItemIs DEF Init
  <2>2. req \in [Clients -> RequestType]
    BY IdleIs DEF Init
  <2>3. counts \in [{"blocks", "reorgs", "errors", "requests"} -> Nat]
    BY DEF Init
  <2> QED BY <1>1, <2>1, <2>2, <2>3 DEF Init, TypeOK, LockNames
<1>3. LabelInv
  BY <1>1, IdleIs DEF Init, LabelInv, Labelled
<1>4. LockInv
  BY IdleIs DEF Init, LockInv, Holding, LockNames
<1> QED BY <1>2, <1>3, <1>4 DEF BaseInv

\* Types, labels and locks are preserved by every step.
LEMMA BaseStep ==
    ASSUME NoOne \notin Clients, BaseInv, [Next]_vars
    PROVE  BaseInv'
<1>1. CASE UNCHANGED vars
  BY <1>1 DEF vars, BaseInv, TypeOK, LabelInv, LockInv
<1>2. CASE \/ \E S \in SUBSET Addresses : StoreRowsOfBlock(S) \/ OrphanRows(S)
           \/ WriterStep
  BY <1>2, WriterBase
<1>3. CASE \E c \in Clients : Step(c)
  BY <1>3, HitBase, MissBase, TryLockBase, QueryFailsBase, StoreBase, HistoryBase DEF Step
<1>4. CASE \E c \in Clients, op \in Ops, a \in Addresses : Request(c, op, a)
  BY <1>4, RequestBase
<1> QED BY <1>1, <1>2, <1>3, <1>4, Zenon DEF Next

\* For any number of requests and addresses a CacheLock has one holder, which is
\* between TryLock and done, and nobody waits for a lock that no one will release.
THEOREM LockIsSafe ==
    ASSUME NoOne \notin Clients
    PROVE  Spec => []LockSafe
<1>1. BaseInv => LockSafe
  <2> SUFFICES ASSUME BaseInv PROVE LockSafe
    OBVIOUS
  <2>1. DOMAIN locks = LockNames
    BY DEF BaseInv, TypeOK
  <2>2. ASSUME NEW c \in Clients
        PROVE  req[c].pc \in {"query", "store"} <=> \E l \in DOMAIN locks, a \in Addresses : locks[l][a] = c
    <3>1. req[c].pc \in Holding => LockOf(req[c].op) \in LockNames /\ req[c].addr \in Addresses
      BY LockOfIs DEF BaseInv, LabelInv, Holding
    <3> QED BY <2>1, <3>1 DEF BaseInv, LockInv, Holding
  <2> QED BY <2>2 DEF LockSafe, BaseInv, LockInv
<1> QED BY <1>1, BaseInit, BaseStep, PTL DEF Spec

-----------------------------------------------------------------------------
(* Cached data are current. *)

\* The versions of the rows of address a that may be in the cache or with a
\* request: none but the one in the database, unless the address has yet to be
\* cleared or is in `late'.
Known(a) == IF a \in dirty \cup late THEN None .. db[a] ELSE {None, db[a]}

Holds(a, item) ==
    item.rows \in Known(a) /\ item.bal \in Known(a) /\ item.utxos \in Known(a) /\ item.hist \in Known(a)

FreshInv ==
    /\ \A a \in Addresses : Holds(a, cache[a])
    /\ \A c \in Clients : req[c].addr \in Addresses =>
          req[c].got \in Known(req[c].addr) /\ req[c].rows \in Known(req[c].addr)

\* What is known grows with the versions, and is never without the newest.
LEMMA KnownIs ==
    ASSUME TypeOK, NEW a \in Addresses
    PROVE  /\ None \in Known(a) /\ db[a] \in Known(a)
           /\ Known(a) \subseteq None .. db[a] /\ db[a] \in Nat
           /\ Holds(a, NoItem)
<1>1. db[a] \in Nat
  BY DEF TypeOK
<1>2. None \in Known(a) /\ db[a] \in Known(a) /\ Known(a) \subseteq None .. db[a]
  BY <1>1, SMTT(60) DEF Known, None
<1> QED BY <1>1, <1>2, NoItemIs DEF Holds

\* What the block writer changes in the database is marked as not cleared yet.
LEMMA WriterFresh ==
    ASSUME BaseInv, FreshInv,
           \/ \E S \in SUBSET Addresses : StoreRowsOfBlock(S) \/ OrphanRows(S)
           \/ SetBest \/ OrphanTip \/ StoreFails
    PROVE  FreshInv'
<1>1. UNCHANGED <<cache, req>>
  BY DEF StoreRowsOfBlock, OrphanRows, Commit, reader, SetBest, OrphanTip, StoreFails
<1>2. ASSUME NEW a \in Addresses
      PROVE  Known(a) \subseteq Known(a)'
  <2>1. CASE \E S \in SUBSET Addresses : StoreRowsOfBlock(S) \/ OrphanRows(S)
    <3>1. PICK S \in SUBSET Addresses : Commit(S)
      BY <2>1 DEF StoreRowsOfBlock, OrphanRows
    <3>2. late' = late /\ dirty' = dirty \cup S /\ db'[a] = IF a \in S THEN db[a] + 1 ELSE db[a]
      BY <3>1 DEF Commit
    <3>3. db[a] \in Nat
      BY DEF BaseInv, TypeOK
    <3> QED BY <3>2, <3>3 DEF Known, None
  <2>2. CASE SetBest \/ OrphanTip
    BY <2>2, Zenon DEF SetBest, OrphanTip, Known
  <2>3. CASE StoreFails
    BY <2>3 DEF StoreFails, Known
  <2> QED BY <2>1, <2>2, <2>3
<1> QED BY <1>1, <1>2 DEF FreshInv, Holds

\* Clear removes what may have become old, but for what a request has read.
LEMMA ClearFresh ==
    ASSUME BaseInv, FreshInv, Clear
    PROVE  FreshInv'
<1>1. /\ cache' = [a \in Addresses |-> IF a \in dirty THEN NoItem ELSE cache[a]]
      /\ late' = (late \ dirty) \cup {a \in dirty : \E c \in Clients : Reading(c, a)}
      /\ dirty' = {} /\ db' = db /\ req' = req
  BY Zenon DEF Clear
<1>2. ASSUME NEW a \in Addresses
      PROVE  /\ None \in Known(a)'
             /\ a \notin dirty => Known(a)' = Known(a)
             /\ a \in dirty /\ (\E c \in Clients : Reading(c, a)) => Known(a)' = None .. db[a]
             /\ a \in dirty /\ ~(\E c \in Clients : Reading(c, a)) => Known(a)' = {None, db[a]}
  <2>1. db[a] \in Nat
    BY DEF BaseInv, TypeOK
  <2> QED BY <1>1, <2>1 DEF Known, None
<1>3. ASSUME NEW a \in Addresses
      PROVE  Holds(a, cache[a])'
  <2>1. CASE a \in dirty
    <3>1. cache'[a] = NoItem
      BY <1>1, <2>1, Zenon
    <3> QED BY <1>2, <3>1, NoItemIs DEF Holds
  <2>2. CASE a \notin dirty
    BY <1>1, <1>2, <2>2, Zenon DEF Holds, FreshInv
  <2> QED BY <2>1, <2>2, Zenon
<1>4. ASSUME NEW c \in Clients, req[c].addr \in Addresses
      PROVE  req[c].got \in Known(req[c].addr)' /\ req[c].rows \in Known(req[c].addr)'
  <2> DEFINE a == req[c].addr
  <2>1. /\ a \in Addresses /\ db[a] \in Nat
        /\ req[c].got \in Known(a) /\ req[c].rows \in Known(a)
        /\ req[c].got \in None .. db[a] /\ req[c].rows \in None .. db[a]
    BY <1>4, KnownIs, Zenon DEF BaseInv, FreshInv
  <2>2. CASE a \in dirty /\ ~(\E d \in Clients : Reading(d, a))
    <3>1. /\ req[c].got = None \/ ~(req[c].got < db[a])
          /\ req[c].rows = None \/ ~(req[c].rows < db[a])
      BY <2>2, Zenon DEF Reading
    <3>2. req[c].got \in {None, db[a]} /\ req[c].rows \in {None, db[a]}
      BY <2>1, <3>1, SMTT(60) DEF None
    <3>3. Known(a)' = {None, db[a]}
      BY <1>1, <1>2, <2>1, <2>2
    <3> QED BY <1>1, <3>2, <3>3, Zenon
  <2>3. CASE a \in dirty /\ (\E d \in Clients : Reading(d, a))
    BY <1>1, <1>2, <2>1, <2>3, Zenon
  <2>4. CASE a \notin dirty
    BY <1>1, <1>2, <2>1, <2>4, Zenon
  <2> QED BY <2>2, <2>3, <2>4, Zenon
<1>5. \A c \in Clients : req'[c].addr \in Addresses =>
         (req[c].got \in Known(req[c].addr) /\ req[c].rows \in Known(req[c].addr))'
  BY <1>1, <1>4, Zenon
<1> QED BY <1>3, <1>5 DEF FreshInv

\* While no block is written the same versions are known, and a request adds none.
LEMMA FreshUnlessOld ==
    ASSUME BaseInv, FreshInv, UNCHANGED <<db, dirty, late>>,
           NEW c \in Clients,
           \A a \in Addresses : Holds(a, cache'[a]),
           \A d \in Clients \ {c} : /\ req'[d].addr = req[d].addr
                                    /\ req'[d].got = req[d].got /\ req'[d].rows = req[d].rows,
           req'[c].addr \in Addresses =>
              req'[c].got \in Known(req'[c].addr) /\ req'[c].rows \in Known(req'[c].addr)
    PROVE  FreshInv'
<1>1. \A a : Known(a)' = Known(a)
  BY Zenon DEF Known
<1>2. \A a \in Addresses : Holds(a, cache[a])'
  BY <1>1 DEF Holds
<1>3. \A d \in Clients : req'[d].addr \in Addresses =>
         req'[d].got \in Known(req'[d].addr) /\ req'[d].rows \in Known(req'[d].addr)
  BY DEF FreshInv
<1>4. \A d \in Clients : (req[d].addr \in Addresses =>
         req[d].got \in Known(req[d].addr) /\ req[d].rows \in Known(req[d].addr))'
  BY <1>1, <1>3, Zenon DEF Known
<1> QED BY <1>2, <1>4, Zenon DEF FreshInv

\* Data stored are those the request has.
LEMMA StoresFresh ==
    ASSUME BaseInv, FreshInv, NEW a \in Addresses, NEW v \in Known(a), Stores(a, v)
    PROVE  \A b \in Addresses : Holds(b, cache'[b])
<1>1. ASSUME NEW b \in Addresses, b /= a
      PROVE  Holds(b, cache'[b])
  <2>1. cache'[b] = cache[b] \/ cache'[b] = NoItem
    BY <1>1 DEF Stores
  <2>2. Holds(b, cache[b]) /\ Holds(b, NoItem)
    BY KnownIs, Zenon DEF FreshInv, BaseInv
  <2> QED BY <2>1, <2>2
<1>2. Holds(a, cache'[a])
  BY KnownIs DEF Stores, FreshInv, Holds, BaseInv
<1> QED BY <1>1, <1>2

\* A new request has no data.
LEMMA RequestFresh ==
    ASSUME BaseInv, FreshInv, NEW c \in Clients, NEW op \in Ops, NEW a \in Addresses, Request(c, op, a)
    PROVE  FreshInv'
<1>1. /\ req' = [req EXCEPT ![c] = [Idle EXCEPT !.op = op, !.addr = a, !.pc = "cache"]]
      /\ UNCHANGED <<db, dirty, late, cache>>
  BY DEF Request, block
<1>2. /\ req'[c].addr = a /\ req'[c].got = None /\ req'[c].rows = None
      /\ \A d \in Clients \ {c} : req'[d] = req[d]
  BY <1>1 DEF BaseInv, TypeOK, Idle
<1>3. None \in Known(a)
  BY KnownIs DEF BaseInv
<1> QED BY <1>1, <1>2, <1>3, FreshUnlessOld DEF FreshInv

\* What a request takes from the cache is as current as the cache.
LEMMA HitFresh ==
    ASSUME BaseInv, FreshInv, NEW c \in Clients, Hit(c)
    PROVE  FreshInv'
<1>1. /\ UNCHANGED <<db, dirty, late, cache>> /\ req[c] \in RequestType
      /\ req[c].addr \in Addresses
  BY Zenon DEF Hit, block, BaseInv, LabelInv, TypeOK
<1>2. CASE req[c].op /= "history"
  <2>1. req' = [req EXCEPT ![c] = Idle]
    BY <1>2, Zenon DEF Hit
  <2>2. /\ \A d \in Clients \ {c} : req'[d] = req[d]
        /\ req'[c].got = None /\ req'[c].rows = None
    BY <2>1, IdleIs, Zenon DEF BaseInv, TypeOK
  <2> QED BY <1>1, <2>2, KnownIs, FreshUnlessOld DEF FreshInv, BaseInv
<1>3. CASE req[c].op = "history"
  <2>1. CachedData("rows", req[c].addr) = cache[req[c].addr].rows
    BY DEF CachedData, Rows
  <2>2. req' = [req EXCEPT ![c] = [req[c] EXCEPT !.pc = "bal", !.label = Best, !.rows = cache[req[c].addr].rows]]
    BY <1>3, <2>1, Zenon DEF Hit, BaseInv, TypeOK
  <2>3. /\ \A d \in Clients \ {c} : req'[d] = req[d]
        /\ req'[c].got = req[c].got /\ req'[c].rows = cache[req[c].addr].rows
        /\ req'[c].addr = req[c].addr
    BY <1>1, <2>2, Zenon DEF BaseInv, TypeOK, RequestType
  <2>4. cache[req[c].addr].rows \in Known(req[c].addr) /\ req[c].got \in Known(req[c].addr)
    BY <1>1 DEF FreshInv, Holds
  <2> QED BY <1>1, <2>3, <2>4, FreshUnlessOld, Zenon DEF FreshInv
<1> QED BY <1>2, <1>3

\* What a request reads from the database is current when it reads it.
LEMMA MissFresh ==
    ASSUME BaseInv, FreshInv, NEW c \in Clients, Miss(c) \/ WaitForLock(c) \/ Query(c)
    PROVE  FreshInv'
<1>1. /\ UNCHANGED <<db, dirty, late, cache>> /\ req[c] \in RequestType
      /\ req[c].addr \in Addresses
  BY Zenon DEF Miss, WaitForLock, Query, block, BaseInv, LabelInv, TypeOK
<1>2. /\ \A d \in Clients \ {c} : req'[d] = req[d]
      /\ req'[c].addr = req[c].addr /\ req'[c].rows = req[c].rows
      /\ req'[c].got \in {req[c].got, db[req[c].addr]}
  <2>1. CASE Miss(c)
    BY <1>1, <2>1 DEF Miss, BaseInv, TypeOK, RequestType
  <2>2. CASE WaitForLock(c)
    BY <1>1, <2>2 DEF WaitForLock, BaseInv, TypeOK, RequestType
  <2>3. CASE Query(c)
    BY <1>1, <2>3 DEF Query, BaseInv, TypeOK, RequestType
  <2> QED BY <2>1, <2>2, <2>3, Zenon
<1>3. req[c].got \in Known(req[c].addr) /\ req[c].rows \in Known(req[c].addr)
      /\ db[req[c].addr] \in Known(req[c].addr)
  BY <1>1, KnownIs DEF FreshInv, BaseInv
<1> QED BY <1>1, <1>2, <1>3, FreshUnlessOld, Zenon DEF FreshInv

\* The lock of the rows clears the rows, which leaves the rest as it is.
LEMMA TryLockFresh ==
    ASSUME BaseInv, FreshInv, NEW c \in Clients, TryLock(c)
    PROVE  FreshInv'
<1> DEFINE a == req[c].addr
<1>1. /\ UNCHANGED <<db, dirty, late>> /\ req[c] \in RequestType /\ a \in Addresses
      /\ cache' \in {cache, [cache EXCEPT ![a].rows = None]}
  BY DEF TryLock, block, BaseInv, LabelInv, TypeOK
<1>2. /\ \A d \in Clients \ {c} : req'[d] = req[d]
      /\ req'[c].addr = req[c].addr /\ req'[c].rows = req[c].rows /\ req'[c].got = req[c].got
  BY <1>1, Zenon DEF TryLock, BaseInv, TypeOK, RequestType
<1>3. ASSUME NEW b \in Addresses
      PROVE  Holds(b, cache'[b])
  <2>1. /\ cache[b] \in Item /\ cache'[b].bal = cache[b].bal /\ cache'[b].utxos = cache[b].utxos
        /\ cache'[b].hist = cache[b].hist /\ cache'[b].rows \in {None, cache[b].rows}
    <3>1. cache[b] \in Item
      BY DEF BaseInv, TypeOK
    <3>2. cache'[b] = cache[b] \/ cache'[b] = [cache[b] EXCEPT !.rows = None]
      BY <1>1, Zenon DEF BaseInv, TypeOK
    <3> QED BY <3>1, <3>2 DEF Item
  <2> QED BY <2>1, KnownIs DEF FreshInv, Holds, BaseInv
<1> QED BY <1>1, <1>2, <1>3, FreshUnlessOld DEF FreshInv

\* What a request stores is current, or is from before a change that the writer
\* had not cleared yet.
LEMMA ReleaseFresh ==
    ASSUME NoOne \notin Clients, BaseInv, FreshInv, NEW c \in Clients, QueryFails(c) \/ Store(c)
    PROVE  FreshInv'
<1>1. UNCHANGED <<db, dirty, late>> /\ req[c].pc \in Holding /\ req[c].addr \in Addresses
  BY DEF QueryFails, Store, block, BaseInv, LabelInv, Holding
<1>2. CASE QueryFails(c)
  <2>1. Release(c, Idle) /\ UNCHANGED cache /\ Idle.pc \notin Holding \cup Labelled \cup {"wait"}
    BY <1>2, IdleIs DEF QueryFails, Holding, Labelled
  <2>2. /\ req'[c] = Idle
        /\ \A d \in Clients \ {c} : /\ req'[d].addr = req[d].addr /\ req'[d].got = req[d].got
                                    /\ req'[d].rows = req[d].rows
    BY <1>1, <2>1, IdleIs, ReleaseLocks, Zenon
  <2> QED BY <1>1, <2>1, <2>2, IdleIs, KnownIs, FreshUnlessOld, ZenonT(60) DEF FreshInv, BaseInv
<1>3. CASE Store(c)
  <2>1. req[c].pc = "store" /\ Release(c, After(c))
    BY <1>3, Zenon DEF Store, After
  <2>2. /\ After(c) \in RequestType /\ After(c).pc \notin Holding /\ After(c).pc /= "wait"
        /\ After(c).pc \in Labelled => After(c).label \in Nat
        /\ After(c).pc /= "idle" => After(c).addr \in Addresses /\ After(c).op \in Ops
    BY <2>1, AfterIs DEF Holding, Labelled, BaseInv, LabelInv
  <2>3. /\ req'[c] = After(c)
        /\ \A d \in Clients \ {c} : /\ req'[d].addr = req[d].addr /\ req'[d].got = req[d].got
                                    /\ req'[d].rows = req[d].rows
    BY <1>1, <2>1, <2>2, ReleaseLocks, Zenon
  <2>4. req[c].got \in Known(req[c].addr)
    BY <1>1, Zenon DEF FreshInv
  <2>5. \A a \in Addresses : Holds(a, cache'[a])
    BY <1>1, <1>3, <2>4, StoreEffect, StoresFresh, Zenon
  <2>6. req'[c].addr \in Addresses =>
           req'[c].got \in Known(req'[c].addr) /\ req'[c].rows \in Known(req'[c].addr)
    BY <2>1, <2>3, <2>4, AfterIs, IdleIs, KnownIs DEF BaseInv
  <2> QED BY <1>1, <2>3, <2>5, <2>6, FreshUnlessOld
<1> QED BY <1>2, <1>3

\* The balance that is made of cached rows is as current as the rows.
LEMMA HistoryFresh ==
    ASSUME BaseInv, FreshInv, NEW c \in Clients,
           HistoryBalanceHit(c) \/ HistoryShortcut(c) \/ HistoryBalance(c)
    PROVE  FreshInv'
<1>1. /\ UNCHANGED <<db, dirty, late>> /\ req[c] \in RequestType /\ req[c].addr \in Addresses
  BY DEF HistoryBalanceHit, HistoryShortcut, HistoryBalance, block, BaseInv, LabelInv, TypeOK
<1>2. \A a \in Addresses : Holds(a, cache'[a])
  <2>1. CASE HistoryShortcut(c)
    <3>1. StoreBalance(req[c].addr, req[c].rows, req[c].label)
      BY <2>1, Zenon DEF HistoryShortcut
    <3>4. req[c].rows \in Int /\ req[c].label \in Int
      BY <1>1, Zenon DEF RequestType
    <3>2. req[c].rows \in Known(req[c].addr)
      BY <1>1 DEF FreshInv
    <3>3. Stores(req[c].addr, req[c].rows)
      BY <1>1, <3>1, <3>4, StoreBalanceEffect, Zenon DEF BaseInv
    <3> QED BY <1>1, <3>2, <3>3, StoresFresh, Zenon
  <2>2. CASE ~HistoryShortcut(c)
    BY <2>2 DEF HistoryBalanceHit, HistoryBalance, FreshInv
  <2> QED BY <2>1, <2>2
<1>3. /\ req'[c].got = None /\ req'[c].rows = None
      /\ \A d \in Clients \ {c} : req'[d] = req[d]
  <2>1. CASE HistoryBalanceHit(c) \/ HistoryShortcut(c)
    <3>1. req' = [req EXCEPT ![c] = Idle]
      BY <2>1 DEF HistoryBalanceHit, HistoryShortcut
    <3> QED BY <3>1, IdleIs, Zenon DEF BaseInv, TypeOK
  <2>2. CASE HistoryBalance(c)
    <3>1. req' = [req EXCEPT ![c] = [Idle EXCEPT !.op = "balance", !.addr = req[c].addr, !.pc = "cache"]]
      BY <2>2 DEF HistoryBalance
    <3> QED BY <3>1 DEF BaseInv, TypeOK, Idle
  <2> QED BY <2>1, <2>2, Zenon
<1> QED BY <1>1, <1>2, <1>3, KnownIs, FreshUnlessOld, Zenon DEF BaseInv

\* No step makes what is known old.
LEMMA FreshStep ==
    ASSUME NoOne \notin Clients, BaseInv, FreshInv, [Next]_vars
    PROVE  FreshInv'
<1>1. CASE UNCHANGED vars
  BY <1>1, Zenon DEF vars, FreshInv, Holds, Known
<1>2. CASE \/ \E S \in SUBSET Addresses : StoreRowsOfBlock(S) \/ OrphanRows(S)
           \/ WriterStep
  BY <1>2, WriterFresh, ClearFresh DEF WriterStep
<1>3. CASE \E c \in Clients : Step(c)
  BY <1>3, HitFresh, MissFresh, TryLockFresh, ReleaseFresh, HistoryFresh DEF Step
<1>4. CASE \E c \in Clients, op \in Ops, a \in Addresses : Request(c, op, a)
  BY <1>4, RequestFresh
<1> QED BY <1>1, <1>2, <1>3, <1>4 DEF Next

\* For any number of requests, blocks, reorganizations and failures, what the
\* cache holds of an address is what the database holds, although hits are not
\* compared with the best block: unless a block with the address is being stored,
\* a request had read the old data when the address was cleared, or StoreBlock
\* failed before it cleared.
THEOREM CachedDataAreCurrent ==
    ASSUME NoOne \notin Clients
    PROVE  Spec => []CachedIsCurrent
<1>1. Init => BaseInv /\ FreshInv
  <2> SUFFICES ASSUME Init PROVE FreshInv
    BY BaseInit
  <2>1. BaseInv
    BY BaseInit
  <2> QED BY <2>1, KnownIs, IdleIs DEF Init, FreshInv, BaseInv
<1>2. BaseInv /\ FreshInv /\ [Next]_vars => (BaseInv /\ FreshInv)'
  BY BaseStep, FreshStep
<1>3. BaseInv /\ FreshInv => CachedIsCurrent
  BY Zenon DEF FreshInv, Holds, Known, CachedIsCurrent
<1> QED BY <1>1, <1>2, <1>3, PTL DEF Spec

-----------------------------------------------------------------------------
(* The capacities. *)

\* Who holds the lock of the rows of an address has removed them, and nobody puts
\* others there: purgeRowsToFit is asked for room for all the rows that come.
ClearedInv ==
    \A c \in Clients : req[c].pc \in Holding /\ LockOf(req[c].op) = "rows" => cache[req[c].addr].rows = None

\* Only the holder of the lock of the rows stores rows.
LEMMA ClearedStep ==
    ASSUME NoOne \notin Clients, BaseInv, ClearedInv, [Next]_vars
    PROVE  ClearedInv'
<1>1. ASSUME NEW d \in Clients, req'[d].pc \in Holding, req[d].pc \in Holding,
             req'[d].op = req[d].op, req'[d].addr = req[d].addr, LockOf(req[d].op) = "rows",
             cache'[req[d].addr].rows \in {None, cache[req[d].addr].rows}
      PROVE  cache'[req'[d].addr].rows = None
  BY <1>1 DEF ClearedInv
<1>2. CASE /\ UNCHANGED req
           /\ \A b \in Addresses : cache'[b].rows \in {None, cache[b].rows}
  <2>1. \A d \in Clients : req[d].pc \in Holding => req[d].addr \in Addresses
    BY Zenon DEF BaseInv, LabelInv, Holding
  <2> QED BY <1>2, <2>1 DEF ClearedInv
<1>3. ASSUME NEW c \in Clients,
             \A b \in Addresses : cache'[b].rows \in {None, cache[b].rows},
             \A d \in Clients \ {c} : /\ req'[d].op = req[d].op /\ req'[d].addr = req[d].addr
                                      /\ req'[d].pc \in Holding => req[d].pc \in Holding,
             \/ req'[c].pc \notin Holding
             \/ /\ req'[c].op = req[c].op /\ req'[c].addr = req[c].addr
                /\ req[c].pc \in Holding
             \/ LockOf(req'[c].op) = "rows" => cache'[req'[c].addr].rows = None
      PROVE  ClearedInv'
  <2>1. \A d \in Clients : req[d].pc \in Holding => req[d].addr \in Addresses
    BY DEF BaseInv, LabelInv, Holding
  <2> QED BY <1>3, <2>1 DEF ClearedInv
<1>4. ASSUME NEW c \in Clients, Step(c)
      PROVE  ClearedInv'
  <2>0. req[c] \in RequestType
    BY Zenon DEF BaseInv, TypeOK
  <2>1. CASE Hit(c) \/ HistoryBalanceHit(c) \/ HistoryBalance(c)
    <3>1. /\ UNCHANGED cache /\ req'[c].pc \notin Holding
          /\ \A d \in Clients \ {c} : req'[d] = req[d]
      <4>1. CASE Hit(c)
        BY <2>0, <4>1, Zenon DEF Hit, Idle, BaseInv, TypeOK, RequestType, Holding
      <4>2. CASE HistoryBalanceHit(c)
        BY <4>2, IdleIs DEF HistoryBalanceHit, BaseInv, TypeOK, Holding
      <4>3. CASE HistoryBalance(c)
        BY <4>3, Zenon DEF HistoryBalance, Idle, BaseInv, TypeOK, Holding
      <4> QED BY <2>1, <4>1, <4>2, <4>3
    <3> QED BY <1>3, <3>1, Zenon
  <2>2. CASE Miss(c) \/ WaitForLock(c) \/ Query(c)
    <3>1. /\ UNCHANGED cache
          /\ \A d \in Clients \ {c} : req'[d] = req[d]
      BY <2>0, <2>2 DEF Miss, WaitForLock, Query, BaseInv, TypeOK
    <3>2. \/ req'[c].pc \notin Holding
          \/ req'[c].op = req[c].op /\ req'[c].addr = req[c].addr /\ req[c].pc \in Holding
      <4>1. CASE Miss(c)
        BY <2>0, <4>1 DEF Miss, BaseInv, TypeOK, RequestType, Holding
      <4>2. CASE WaitForLock(c)
        BY <2>0, <4>2 DEF WaitForLock, BaseInv, TypeOK, RequestType, Holding
      <4>3. CASE Query(c)
        BY <2>0, <4>3 DEF Query, BaseInv, TypeOK, RequestType, Holding
      <4> QED BY <2>2, <4>1, <4>2, <4>3, Zenon
    <3> QED BY <1>3, <3>1, <3>2
  <2>3. CASE TryLock(c)
    <3> DEFINE a == req[c].addr
    <3>1. /\ a \in Addresses /\ cache[a] \in Item
          /\ \A d \in Clients \ {c} : req'[d] = req[d]
          /\ req'[c].op = req[c].op /\ req'[c].addr = req[c].addr
      BY <2>0, <2>3, Zenon DEF TryLock, BaseInv, TypeOK, LabelInv, RequestType
    <3>2. cache' = IF LockOf(req[c].op) = "rows" /\ cache[a] /= NoItem
                   THEN [cache EXCEPT ![a] = [cache[a] EXCEPT !.rows = None]] ELSE cache
      BY <2>3 DEF TryLock
    <3>3. [cache[a] EXCEPT !.rows = None].rows = None
      BY <3>1, Zenon DEF Item
    <3>4. /\ \A b \in Addresses : cache'[b].rows \in {None, cache[b].rows}
          /\ LockOf(req[c].op) = "rows" => cache'[a].rows = None
      <4>1. CASE LockOf(req[c].op) = "rows" /\ cache[a] /= NoItem
        BY <3>1, <3>2, <3>3, <4>1, Zenon DEF BaseInv, TypeOK
      <4>2. CASE ~(LockOf(req[c].op) = "rows" /\ cache[a] /= NoItem)
        BY <3>1, <3>2, <4>2, NoItemIs
      <4> QED BY <4>1, <4>2
    <3> QED BY <1>3, <3>1, <3>4
  <2>4. CASE QueryFails(c)
    <3>1. req[c].pc \in Holding /\ Release(c, Idle) /\ UNCHANGED cache
          /\ Idle.pc \notin Holding \cup Labelled \cup {"wait"}
      BY <2>4, IdleIs DEF QueryFails, Holding, Labelled
    <3>2. /\ req'[c] = Idle
          /\ \A d \in Clients \ {c} : /\ req'[d].op = req[d].op /\ req'[d].addr = req[d].addr
                                      /\ req'[d].pc \in Holding => req[d].pc \in Holding
      BY <3>1, IdleIs, ReleaseLocks
    <3>3. req'[c].pc \notin Holding
      BY <3>1, <3>2, Zenon
    <3>4. \A b \in Addresses : cache'[b].rows \in {None, cache[b].rows}
      BY <3>1, Zenon
    <3> QED BY <1>3, <3>2, <3>3, <3>4, Zenon
  <2>5. CASE Store(c)
    <3>1. /\ req[c].pc = "store" /\ req[c].pc \in Holding /\ req[c].addr \in Addresses
          /\ Release(c, After(c))
      BY <2>5, Zenon DEF Store, After, Holding, BaseInv, LabelInv
    <3>2. /\ After(c) \in RequestType /\ After(c).pc \notin Holding /\ After(c).pc /= "wait"
          /\ After(c).pc \in Labelled => After(c).label \in Nat
          /\ After(c).pc /= "idle" => After(c).addr \in Addresses /\ After(c).op \in Ops
      BY <3>1, AfterIs DEF Holding, Labelled, BaseInv, LabelInv
    <3>3. /\ req'[c] = After(c)
          /\ \A d \in Clients \ {c} : /\ req'[d].op = req[d].op /\ req'[d].addr = req[d].addr
                                      /\ req'[d].pc \in Holding => req[d].pc \in Holding
      BY <3>1, <3>2, ReleaseLocks, Zenon
    <3>4. CASE LockOf(req[c].op) /= "rows"
      BY <1>3, <2>5, <3>2, <3>3, <3>4, StoreEffect, Zenon
    <3>5. CASE LockOf(req[c].op) = "rows"
      <4>1. ASSUME NEW d \in Clients, req'[d].pc \in Holding, LockOf(req'[d].op) = "rows"
            PROVE  cache'[req'[d].addr].rows = None
        <5>1. /\ d /= c /\ req[d].pc \in Holding /\ LockOf(req[d].op) = "rows"
              /\ req'[d].addr = req[d].addr /\ req[d].addr \in Addresses
          BY <3>2, <3>3, <4>1 DEF BaseInv, LabelInv, Holding
        <5>2. "rows" \in LockNames
          BY DEF LockNames
        <5>3. locks["rows"][req[d].addr] = d /\ locks["rows"][req[c].addr] = c
          <6>1. LockInv
            BY Zenon DEF BaseInv
          <6>2. locks["rows"][req[d].addr] = d
            BY <5>1, <5>2, <6>1, SMTT(60) DEF LockInv
          <6>3. locks["rows"][req[c].addr] = c
            BY <3>1, <3>5, <5>2, <6>1, Zenon DEF LockInv
          <6> QED BY <6>2, <6>3
        <5>4. req[d].addr /= req[c].addr
          BY <5>1, <5>3
        <5>5. cache'[req[d].addr] \in {cache[req[d].addr], NoItem}
          BY <2>5, <5>1, <5>4, StoreEffect, Zenon DEF Stores
        <5>6. cache[req[d].addr].rows = None
          BY <5>1, Zenon DEF ClearedInv
        <5> QED BY <5>1, <5>5, <5>6, NoItemIs, Zenon
      <4> QED BY <4>1, Zenon DEF ClearedInv
    <3> QED BY <3>4, <3>5
  <2>6. CASE HistoryShortcut(c)
    <3>1. /\ TypeOK /\ req[c].addr \in Addresses /\ req[c].rows \in Int /\ req[c].label \in Int
      BY <2>0, <2>6, Zenon DEF BaseInv, LabelInv, RequestType, HistoryShortcut
    <3>2. req' = [req EXCEPT ![c] = Idle]
      BY <2>6 DEF HistoryShortcut
    <3>3. \A b \in Addresses : cache'[b].rows \in {None, cache[b].rows}
      <4>1. StoreBalance(req[c].addr, req[c].rows, req[c].label)
        BY <2>6, Zenon DEF HistoryShortcut
      <4> QED BY <3>1, <4>1, StoreBalanceEffect, Zenon
    <3>4. req'[c].pc \notin Holding /\ \A d \in Clients \ {c} : req'[d] = req[d]
      BY <3>2, IdleIs DEF BaseInv, TypeOK, Holding
    <3> QED BY <1>3, <3>3, <3>4, Zenon
  <2> QED BY <1>4, <2>1, <2>2, <2>3, <2>4, <2>5, <2>6 DEF Step
<1>5. CASE UNCHANGED vars
  BY <1>2, <1>5, Zenon DEF vars
<1>6. CASE \E S \in SUBSET Addresses : StoreRowsOfBlock(S) \/ OrphanRows(S)
  BY <1>2, <1>6, Zenon DEF StoreRowsOfBlock, OrphanRows, Commit, reader
<1>7. CASE WriterStep
  <2>1. CASE Clear
    BY <1>2, <2>1, NoItemIs, Zenon DEF Clear
  <2> QED BY <1>2, <1>7, <2>1, Zenon DEF WriterStep, SetBest, OrphanTip, StoreFails, reader
<1>8. ASSUME NEW c \in Clients, NEW op \in Ops, NEW a \in Addresses, Request(c, op, a)
      PROVE  ClearedInv'
  <2>1. /\ UNCHANGED cache /\ req'[c].pc \notin Holding
        /\ \A d \in Clients \ {c} : req'[d] = req[d]
    BY <1>8, Zenon DEF Request, Idle, BaseInv, TypeOK, Holding
  <2> QED BY <1>3, <2>1
<1> QED BY <1>4, <1>5, <1>6, <1>7, <1>8, Zenon DEF Next

INSTANCE FiniteSetTheorems

RoomInv ==
    /\ IsFiniteSet(Cached) /\ IsFiniteSet(CachedRows(Cached))
    /\ RowsOf(Cached) <= Cap
    /\ Cardinality(Cached) <= CapAddr

\* Parts of what fits fit.
LEMMA RowsOfSubset ==
    ASSUME RoomInv, NEW S \in SUBSET Cached
    PROVE  /\ IsFiniteSet(S) /\ Cardinality(S) \in Nat
           /\ IsFiniteSet(CachedRows(S)) /\ RowsOf(S) \in Nat
           /\ CachedRows(S) \subseteq CachedRows(Cached)
<1>1. CachedRows(S) \subseteq CachedRows(Cached)
  BY Zenon DEF CachedRows
<1> QED BY <1>1, FS_Subset, FS_CardinalityType, Zenon DEF RoomInv, RowsOf

\* Removing items or rows keeps the rest within the capacities.
LEMMA RoomIfLess ==
    ASSUME RoomInv, Cap \in Nat, CapAddr \in Nat,
           Cached' \subseteq Cached,
           \A b \in Addresses : cache'[b].rows \in {None, cache[b].rows}
    PROVE  RoomInv'
<1>1. ASSUME NEW p \in CachedRows(Cached)'
      PROVE  p \in CachedRows(Cached)
  <2>1. PICK b \in Cached' : p \in {b} \X (1 .. NumRows(cache'[b].rows))
    BY <1>1, Zenon DEF CachedRows
  <2>2. b \in Addresses /\ b \in Cached
    BY <2>1, Zenon DEF Cached
  <2>3. cache'[b].rows = cache[b].rows
    BY <2>1, <2>2 DEF NumRows, None
  <2> QED BY <2>1, <2>2, <2>3, Zenon DEF CachedRows
<1>2. CachedRows(Cached)' \subseteq CachedRows(Cached)
  BY <1>1, Zenon
<1>3. /\ IsFiniteSet(Cached') /\ Cardinality(Cached') <= Cardinality(Cached)
      /\ IsFiniteSet(CachedRows(Cached)') /\ Cardinality(CachedRows(Cached)') <= Cardinality(CachedRows(Cached))
  BY <1>2, FS_Subset, Zenon DEF RoomInv
<1>4. /\ Cardinality(Cached') \in Nat /\ Cardinality(Cached) \in Nat
      /\ Cardinality(CachedRows(Cached)') \in Nat /\ Cardinality(CachedRows(Cached)) \in Nat
  BY <1>3, FS_CardinalityType, Zenon DEF RoomInv
<1>5. RowsOf(Cached)' = Cardinality(CachedRows(Cached)')
  BY DEF RowsOf
<1> QED BY <1>3, <1>4, <1>5, SMTT(60) DEF RoomInv, RowsOf

\* purgeRowsToFit leaves room for one more address.
LEMMA LeftIs ==
    ASSUME RoomInv, CapAddr \in Nat, NEW n \in Int, NEW S \in Left(n)
    PROVE  S \subseteq Cached /\ Cardinality(S) <= CapAddr - 1
<1> DEFINE most == Min({Cardinality(Cached), CapAddr - 1})
<1>1. PICK K \in SUBSET Cached : Cardinality(K) = most /\ S \subseteq K
  BY DEF Left
<1>2. Cardinality(Cached) \in Int /\ CapAddr - 1 \in Int
  BY FS_CardinalityType DEF RoomInv
<1>3. most \in Int /\ most <= CapAddr - 1
  <2>1. \E x \in {Cardinality(Cached), CapAddr - 1} : \A y \in {Cardinality(Cached), CapAddr - 1} : x <= y
    BY <1>2
  <2>2. most \in {Cardinality(Cached), CapAddr - 1} /\ \A y \in {Cardinality(Cached), CapAddr - 1} : most <= y
    BY <2>1, Zenon DEF Min
  <2> QED BY <1>2, <2>2, Zenon
<1> HIDE DEF most
<1>4. IsFiniteSet(K) /\ Cardinality(S) <= Cardinality(K)
  BY <1>1, RowsOfSubset, FS_Subset, Zenon
<1>5. Cardinality(S) \in Nat
  BY <1>1, RowsOfSubset, Zenon
<1> QED BY <1>1, <1>3, <1>4, <1>5, SMTT(60)

\* The item stored for an address counts once more than the items kept.
LEMMA OneMore ==
    ASSUME RoomInv, CapAddr \in Nat, NEW S \in SUBSET Cached, Cardinality(S) <= CapAddr - 1,
           NEW a \in Addresses, \A b \in Addresses \ (S \cup {a}) : cache'[b] = NoItem
    PROVE  IsFiniteSet(Cached') /\ Cardinality(Cached') <= CapAddr
<1>1. Cached' \subseteq S \cup {a}
  BY DEF Cached
<1>2. IsFiniteSet(S) /\ Cardinality(S) \in Nat
  BY RowsOfSubset, Zenon
<1>3. IsFiniteSet(S \cup {a}) /\ Cardinality(S \cup {a}) <= Cardinality(S) + 1
  <2>1. /\ IsFiniteSet(S \cup {a})
        /\ Cardinality(S \cup {a}) = IF a \in S THEN Cardinality(S) ELSE Cardinality(S) + 1
    BY <1>2, FS_AddElement, Zenon
  <2> QED BY <1>2, <2>1
<1>4. IsFiniteSet(Cached') /\ Cardinality(Cached') <= Cardinality(S \cup {a})
  BY <1>1, <1>3, FS_Subset, Zenon
<1>5. Cardinality(Cached') \in Nat /\ Cardinality(S \cup {a}) \in Nat
  BY <1>3, <1>4, FS_CardinalityType, Zenon
<1> QED BY <1>2, <1>3, <1>4, <1>5, SMTT(60)

\* Rows stored for an address count besides those of the items kept.
LEMMA RowsMore ==
    ASSUME RoomInv, Cap \in Nat, NEW S \in SUBSET Cached,
           NEW a \in Addresses, \A b \in Addresses \ (S \cup {a}) : cache'[b] = NoItem,
           \A b \in S \ {a} : cache'[b] = cache[b],
           NEW n \in Nat, NumRows(cache'[a].rows) = n, RowsOf(S) + n <= Cap
    PROVE  IsFiniteSet(CachedRows(Cached)') /\ RowsOf(Cached)' <= Cap
<1>1. CachedRows(Cached)' \subseteq CachedRows(S) \cup ({a} \X (1 .. n))
  <2> SUFFICES ASSUME NEW p \in CachedRows(Cached)', p \notin {a} \X (1 .. n)
               PROVE  p \in CachedRows(S)
    BY Zenon
  <2>1. PICK b \in Cached' : p \in {b} \X (1 .. NumRows(cache'[b].rows))
    BY Zenon DEF CachedRows
  <2>2. b /= a /\ b \in Addresses /\ cache'[b] /= NoItem
    BY <2>1, Zenon DEF Cached
  <2>3. b \in S /\ cache'[b] = cache[b]
    BY <2>2, Zenon
  <2> QED BY <2>1, <2>3, SMTT(60) DEF CachedRows
<1>2. /\ IsFiniteSet({a} \X (1 .. n)) /\ Cardinality({a} \X (1 .. n)) = n
  <2>1. IsFiniteSet({a}) /\ Cardinality({a}) = 1
    BY FS_Singleton, Zenon
  <2>2. IsFiniteSet(1 .. n) /\ Cardinality(1 .. n) = n
    BY FS_Interval
  <2>3. 1 * n = n
    OBVIOUS
  <2> QED BY <2>1, <2>2, <2>3, FS_Product, SMTT(60)
<1>3. IsFiniteSet(CachedRows(S)) /\ RowsOf(S) \in Nat /\ RowsOf(S) = Cardinality(CachedRows(S))
  BY RowsOfSubset, Zenon DEF RowsOf
<1> DEFINE U == CachedRows(S) \cup ({a} \X (1 .. n))
<1>4. IsFiniteSet(U) /\ Cardinality(U) <= RowsOf(S) + n
  <2> DEFINE A == CachedRows(S)
             B == {a} \X (1 .. n)
  <2>0. IsFiniteSet(A) /\ IsFiniteSet(B) /\ Cardinality(A) = RowsOf(S) /\ Cardinality(B) = n
    BY <1>2, <1>3, Zenon
  <2> HIDE DEF A, B
  <2>1. Cardinality(A \cap B) \in Nat
    BY <2>0, FS_Subset, FS_CardinalityType, Zenon
  <2>2. IsFiniteSet(A \cup B) /\ Cardinality(A \cup B) = Cardinality(A) + Cardinality(B) - Cardinality(A \cap B)
    BY <2>0, FS_Union, Zenon
  <2>3. U = A \cup B
    BY Zenon DEF A, B
  <2> HIDE DEF U
  <2> QED BY <1>3, <2>0, <2>1, <2>2, <2>3, SMTT(60)
<1> HIDE DEF U
<1>5. IsFiniteSet(CachedRows(Cached)') /\ Cardinality(CachedRows(Cached)') <= Cardinality(U)
  BY <1>1, <1>4, FS_Subset, Zenon DEF U
<1>6. Cardinality(CachedRows(Cached)') \in Nat /\ Cardinality(U) \in Nat
  BY <1>4, <1>5, FS_CardinalityType, Zenon
<1>7. RowsOf(Cached)' = Cardinality(CachedRows(Cached)')
  BY Zenon DEF RowsOf
<1> QED BY <1>3, <1>4, <1>5, <1>6, <1>7, SMTT(60)

\* addCacheItem with an item without rows: a balance, outputs or a chart.
LEMMA AddItemRoom ==
    ASSUME Cap \in Nat, CapAddr \in Nat, TypeOK, RoomInv,
           NEW a \in Addresses, NEW item \in Item, item.rows = None, AddCacheItem(a, item)
    PROVE  RoomInv'
<1> DEFINE n == NumRows(item.rows) - NumRows(cache[a].rows)
<1>a. CASE Cap < 1 \/ CapAddr < 1
  <2>1. cache' = cache
    BY <1>a, Zenon DEF AddCacheItem
  <2>2. Cached' \subseteq Cached /\ \A b \in Addresses : cache'[b].rows = cache[b].rows
    BY <2>1 DEF Cached
  <2> QED BY <2>2, RoomIfLess, Zenon
<1>b. SUFFICES ASSUME ~(Cap < 1 \/ CapAddr < 1) PROVE RoomInv'
  BY <1>a
<1>1. n \in Int
  <2>1. item.rows \in Int /\ cache[a] \in Item
    BY Zenon DEF TypeOK, Item
  <2>2. cache[a].rows \in Int
    BY <2>1, Zenon DEF Item
  <2> QED BY <2>1, <2>2 DEF NumRows
<1>2. PICK S \in Left(n) : cache' = Keep(S) \/ cache' = [Keep(S) EXCEPT ![a] = item]
  BY <1>b DEF AddCacheItem
<1> HIDE DEF n
<1>3. S \subseteq Cached /\ Cardinality(S) <= CapAddr - 1
  BY <1>1, <1>2, LeftIs, Zenon
<1>4. /\ \A b \in Addresses \ (S \cup {a}) : cache'[b] = NoItem
      /\ \A b \in Addresses : cache'[b].rows \in {None, cache[b].rows}
  BY <1>2, KeepType, NoItemIs, SMTT(60)
<1>5. IsFiniteSet(Cached') /\ Cardinality(Cached') <= CapAddr
  BY <1>3, <1>4, OneMore, Zenon
<1>6. CachedRows(Cached)' \subseteq CachedRows(Cached)
  <2> SUFFICES ASSUME NEW p \in CachedRows(Cached)'
               PROVE  p \in CachedRows(Cached)
    BY Zenon
  <2>1. PICK b \in Cached' : p \in {b} \X (1 .. NumRows(cache'[b].rows))
    BY Zenon DEF CachedRows
  <2>2. b \in Addresses /\ cache'[b].rows = cache[b].rows /\ cache[b].rows /= None
    BY <1>4, <2>1, SMTT(60) DEF Cached, NumRows, None
  <2>3. b \in Cached
    BY <2>2, NoItemIs, Zenon DEF Cached
  <2> QED BY <2>1, <2>2, <2>3, Zenon DEF CachedRows
<1>7. IsFiniteSet(CachedRows(Cached)') /\ RowsOf(Cached)' <= RowsOf(Cached)
  <2>1. IsFiniteSet(CachedRows(Cached)') /\ Cardinality(CachedRows(Cached)') <= Cardinality(CachedRows(Cached))
    BY <1>6, FS_Subset, Zenon DEF RoomInv
  <2> QED BY <2>1, Zenon DEF RowsOf
<1>8. RowsOf(Cached)' \in Nat /\ RowsOf(Cached) \in Nat
  BY <1>7, FS_CardinalityType, Zenon DEF RoomInv, RowsOf
<1> QED BY <1>5, <1>7, <1>8, SMTT(60) DEF RoomInv

\* StoreBalance adds at most one item, without rows.
LEMMA StoreBalanceRoom ==
    ASSUME Cap \in Nat, CapAddr \in Nat, TypeOK, RoomInv,
           NEW a \in Addresses, NEW v \in Int, NEW label \in Nat, StoreBalance(a, v, label)
    PROVE  RoomInv'
<1>1. CASE cache[a].label /= label
  <2> DEFINE item == [NoItem EXCEPT !.label = label, !.bal = v]
  <2>1. item \in Item /\ item.rows = None
    <3>1. label \in Int
      OBVIOUS
    <3> QED BY <3>1, NoItemIs, Zenon DEF Item
  <2>2. AddCacheItem(a, item)
    BY <1>1, Zenon DEF StoreBalance
  <2> HIDE DEF item
  <2> QED BY <2>1, <2>2, AddItemRoom, Zenon
<1>2. CASE cache[a].label = label
  <2>1. cache' = [cache EXCEPT ![a].bal = v]
    BY <1>2, Zenon DEF StoreBalance
  <2>2. cache[a] /= NoItem
    BY <1>2, NoItemIs DEF None
  <2>3. Cached' \subseteq Cached /\ \A b \in Addresses : cache'[b].rows = cache[b].rows
    BY <2>1, <2>2, Zenon DEF Cached, TypeOK, Item
  <2> QED BY <2>3, RoomIfLess
<1> QED BY <1>1, <1>2, Zenon

\* StoreUTXOs and StoreHistoryChart add at most one item, without rows.
LEMMA StoreOtherRoom ==
    ASSUME Cap \in Nat, CapAddr \in Nat, TypeOK, RoomInv,
           NEW a \in Addresses, NEW v \in Int, NEW label \in Nat,
           StoreUTXOs(a, v, label) \/ StoreHistoryChart(a, v, label)
    PROVE  RoomInv'
<1>1. CASE cache' = cache
  <2>1. Cached' \subseteq Cached /\ \A b \in Addresses : cache'[b].rows = cache[b].rows
    BY <1>1 DEF Cached
  <2> QED BY <2>1, RoomIfLess, Zenon
<1>2. CASE cache' /= cache /\ cache[a] = NoItem
  <2>1. PICK item \in {[NoItem EXCEPT !.label = label, !.utxos = v], [NoItem EXCEPT !.label = label, !.hist = v]} :
           AddCacheItem(a, item)
    BY <1>2 DEF StoreUTXOs, StoreHistoryChart
  <2>2. item \in Item /\ item.rows = None
    <3>1. label \in Int
      OBVIOUS
    <3> QED BY <2>1, <3>1, NoItemIs, Zenon DEF Item
  <2> QED BY <2>1, <2>2, AddItemRoom, Zenon
<1>3. CASE cache' /= cache /\ cache[a] /= NoItem
  <2>1. cache' = [cache EXCEPT ![a].utxos = v] \/ cache' = [cache EXCEPT ![a].hist = v]
    BY <1>3 DEF StoreUTXOs, StoreHistoryChart
  <2>2. Cached' \subseteq Cached /\ \A b \in Addresses : cache'[b].rows = cache[b].rows
    <3>1. CASE cache' = [cache EXCEPT ![a].utxos = v]
      BY <1>3, <3>1, Zenon DEF Cached, TypeOK, Item
    <3>2. CASE cache' = [cache EXCEPT ![a].hist = v]
      BY <1>3, <3>2, Zenon DEF Cached, TypeOK, Item
    <3> QED BY <2>1, <3>1, <3>2, Zenon
  <2> QED BY <2>2, RoomIfLess
<1> QED BY <1>1, <1>2, <1>3, Zenon

\* StoreRows asks for room for all its rows, since the address has none cached.
LEMMA StoreRowsRoom ==
    ASSUME Cap \in Nat, CapAddr \in Nat, TypeOK, RoomInv,
           NEW a \in Addresses, cache[a].rows = None,
           NEW v \in Int, v >= None, NEW label \in Nat, StoreRows(a, v, label)
    PROVE  RoomInv'
<1>1. NumRows(cache[a].rows) = 0 /\ NumRows(v) \in Nat /\ NumRows(v) \in Int /\ NumRows(v) - 0 = NumRows(v)
  BY SMTT(60) DEF NumRows, None
<1>a. CASE (Cap < 1 \/ CapAddr < 1) /\ cache[a].label /= label
  <2>1. cache' = cache
    BY <1>a, Zenon DEF StoreRows, AddCacheItem
  <2>2. Cached' \subseteq Cached /\ \A b \in Addresses : cache'[b].rows = cache[b].rows
    BY <2>1 DEF Cached
  <2> QED BY <2>2, RoomIfLess, Zenon
<1>b. SUFFICES ASSUME ~((Cap < 1 \/ CapAddr < 1) /\ cache[a].label /= label) PROVE RoomInv'
  BY <1>a
<1>2. PICK S \in Left(NumRows(v)) :
         \/ cache' = Keep(S)
         \/ /\ RowsOf(S) + NumRows(v) <= Cap
            /\ cache' \in [Addresses -> Item]
            /\ \A b \in Addresses \ {a} : cache'[b] = Keep(S)[b]
            /\ cache'[a].rows = v
  <2>1. CASE cache[a].label /= label
    <3> DEFINE item == [NoItem EXCEPT !.label = label, !.rows = v]
    <3>1. item \in Item /\ item.rows = v
      <4>1. label \in Int
        OBVIOUS
      <4> QED BY <4>1, NoItemIs, Zenon DEF Item
    <3>2. AddCacheItem(a, item)
      BY <2>1, Zenon DEF StoreRows
    <3> HIDE DEF item
    <3>3. PICK S \in Left(NumRows(v)) :
             cache' = IF RowsOf(S) + NumRows(v) <= Cap THEN [Keep(S) EXCEPT ![a] = item] ELSE Keep(S)
      BY <1>1, <1>b, <2>1, <3>1, <3>2, Zenon DEF AddCacheItem
    <3>4. CASE RowsOf(S) + NumRows(v) <= Cap
      BY <3>1, <3>3, <3>4, KeepType, Zenon
    <3>5. CASE ~(RowsOf(S) + NumRows(v) <= Cap)
      BY <3>3, <3>5, Zenon
    <3> QED BY <3>4, <3>5
  <2>2. CASE cache[a].label = label
    <3>1. PICK S \in Left(NumRows(v)) :
             cache' = IF RowsOf(S) + NumRows(v) <= Cap /\ a \in S
                      THEN [Keep(S) EXCEPT ![a].rows = v] ELSE Keep(S)
      BY <1>1, <2>2, Zenon DEF StoreRows
    <3>2. CASE RowsOf(S) + NumRows(v) <= Cap /\ a \in S
      <4>1. cache' = [Keep(S) EXCEPT ![a].rows = v]
        BY <3>1, <3>2, Zenon
      <4>2. Keep(S) \in [Addresses -> Item] /\ Keep(S)[a] \in Item
        BY KeepType
      <4>3. cache' \in [Addresses -> Item] /\ \A b \in Addresses \ {a} : cache'[b] = Keep(S)[b]
        BY <4>1, <4>2 DEF Item
      <4>4. cache'[a].rows = v
        BY <4>1, <4>2, Zenon DEF Item
      <4> QED BY <3>2, <4>3, <4>4, Zenon
    <3>3. CASE ~(RowsOf(S) + NumRows(v) <= Cap /\ a \in S)
      BY <3>1, <3>3, Zenon
    <3> QED BY <3>2, <3>3, Zenon
  <2> QED BY <2>1, <2>2, Zenon
<1>3. S \subseteq Cached /\ Cardinality(S) <= CapAddr - 1
  BY <1>1, <1>2, LeftIs, Zenon
<1>4. CASE cache' = Keep(S)
  <2>1. Cached' \subseteq Cached /\ \A b \in Addresses : cache'[b].rows \in {None, cache[b].rows}
    BY <1>3, <1>4, KeepType, NoItemIs, SMTT(60) DEF Cached
  <2> QED BY <2>1, RoomIfLess, Zenon
<1>5. CASE /\ RowsOf(S) + NumRows(v) <= Cap
           /\ \A b \in Addresses \ {a} : cache'[b] = Keep(S)[b]
           /\ cache'[a].rows = v
  <2>1. /\ \A b \in Addresses \ (S \cup {a}) : cache'[b] = NoItem
        /\ \A b \in S \ {a} : cache'[b] = cache[b]
    BY <1>3, <1>5, KeepType, Zenon DEF Cached
  <2>2. IsFiniteSet(Cached') /\ Cardinality(Cached') <= CapAddr
    BY <1>3, <2>1, OneMore, Zenon
  <2>3. IsFiniteSet(CachedRows(Cached)') /\ RowsOf(Cached)' <= Cap
    BY <1>1, <1>3, <1>5, <2>1, RowsMore, Zenon
  <2> QED BY <2>2, <2>3, Zenon DEF RoomInv
<1> QED BY <1>2, <1>4, <1>5, Zenon

\* The capacities are kept by the writer and by every step of a request.
LEMMA RoomStep ==
    ASSUME Cap \in Nat, CapAddr \in Nat, BaseInv, FreshInv, ClearedInv, RoomInv, [Next]_vars
    PROVE  RoomInv'
<1>1. CASE UNCHANGED cache
  <2>1. Cached' \subseteq Cached /\ \A b \in Addresses : cache'[b].rows = cache[b].rows
    BY <1>1, Zenon DEF Cached
  <2> QED BY <2>1, RoomIfLess, Zenon
<1>2. CASE Clear
  <2>1. Cached' \subseteq Cached /\ \A b \in Addresses : cache'[b].rows \in {None, cache[b].rows}
    BY <1>2, NoItemIs, Zenon DEF Clear, Cached
  <2> QED BY <2>1, RoomIfLess, Zenon
<1>3. ASSUME NEW c \in Clients, TryLock(c)
      PROVE  RoomInv'
  <2> DEFINE a == req[c].addr
  <2>1. \/ cache' = cache
        \/ cache[a] /= NoItem /\ cache' = [cache EXCEPT ![a].rows = None]
    BY <1>3, Zenon DEF TryLock
  <2>2. CASE cache[a] /= NoItem /\ cache' = [cache EXCEPT ![a].rows = None]
    <3>1. Cached' \subseteq Cached /\ \A b \in Addresses : cache'[b].rows \in {None, cache[b].rows}
      BY <2>2, Zenon DEF Cached, BaseInv, TypeOK, Item
    <3> QED BY <3>1, RoomIfLess, Zenon
  <2> QED BY <1>1, <2>1, <2>2, Zenon
<1>4. ASSUME NEW c \in Clients, Store(c)
      PROVE  RoomInv'
  <2>1. /\ TypeOK /\ req[c].addr \in Addresses /\ req[c].got \in Int /\ req[c].at \in Nat
        /\ req[c].op \in Ops /\ req[c].pc = "store"
    BY <1>4, Zenon DEF BaseInv, TypeOK, LabelInv, Labelled, RequestType, Store
  <2>2. CASE req[c].op = "balance"
    BY <1>4, <2>1, <2>2, StoreBalanceRoom DEF Store
  <2>3. CASE req[c].op \in {"rows", "history"}
    <3>1. cache[req[c].addr].rows = None
      BY <2>1, <2>3, LockOfIs, Zenon DEF ClearedInv, Holding
    <3>2. req[c].got >= None
      BY <2>1, KnownIs DEF FreshInv, None
    <3> QED BY <1>4, <2>1, <2>3, <3>1, <3>2, StoreRowsRoom DEF Store
  <2>4. CASE req[c].op = "utxos"
    BY <1>4, <2>1, <2>4, StoreOtherRoom, Zenon DEF Store
  <2>5. CASE req[c].op = "chart"
    BY <1>4, <2>1, <2>5, StoreOtherRoom, Zenon DEF Store
  <2> QED BY <2>1, <2>2, <2>3, <2>4, <2>5 DEF Ops
<1>5. ASSUME NEW c \in Clients, HistoryShortcut(c)
      PROVE  RoomInv'
  <2>1. /\ TypeOK /\ req[c].addr \in Addresses /\ req[c].rows \in Int /\ req[c].label \in Nat
    BY <1>5, Zenon DEF BaseInv, TypeOK, LabelInv, Labelled, RequestType, HistoryShortcut
  <2> QED BY <1>5, <2>1, StoreBalanceRoom, Zenon DEF HistoryShortcut
<1>6. ASSUME NEW c \in Clients, Step(c), cache' /= cache
      PROVE  TryLock(c) \/ Store(c) \/ HistoryShortcut(c)
  BY <1>6 DEF Step, Hit, Miss, WaitForLock, Query, QueryFails, HistoryBalanceHit, HistoryBalance
<1>7. CASE vars' /= vars
  <2>1. CASE \E S \in SUBSET Addresses : StoreRowsOfBlock(S) \/ OrphanRows(S)
    BY <1>1, <2>1, Zenon DEF StoreRowsOfBlock, OrphanRows, Commit, reader
  <2>2. CASE WriterStep
    BY <1>1, <1>2, <2>2, Zenon DEF WriterStep, SetBest, OrphanTip, StoreFails, reader
  <2>3. CASE \E c \in Clients : Step(c)
    BY <1>1, <1>3, <1>4, <1>5, <1>6, <2>3, Zenon
  <2>4. CASE \E c \in Clients, op \in Ops, a \in Addresses : Request(c, op, a)
    BY <1>1, <2>4 DEF Request
  <2> QED BY <1>7, <2>1, <2>2, <2>3, <2>4 DEF Next
<1> QED BY <1>1, <1>7, Zenon DEF vars

\* However many requests store data of however many addresses, and in whatever
\* order purgeRowsToFit deletes items, the cache holds no more rows and no more
\* addresses than NewAddressCache was told, for the calls that ChainDB makes.
THEOREM CacheIsWithinCapacity ==
    ASSUME NoOne \notin Clients, Cap \in Nat, CapAddr \in Nat
    PROVE  Spec => []WithinCapacity
<1> DEFINE Inv == BaseInv /\ FreshInv /\ ClearedInv /\ RoomInv
<1>1. Init => Inv
  <2> SUFFICES ASSUME Init PROVE Inv
    OBVIOUS
  <2>1. BaseInv
    BY BaseInit, Zenon
  <2>2. FreshInv
    BY <2>1, KnownIs, IdleIs, Zenon DEF Init, FreshInv, BaseInv
  <2>3. ClearedInv
    BY IdleIs, Zenon DEF Init, ClearedInv, Holding
  <2>4. Cached = {} /\ CachedRows(Cached) = {}
    BY DEF Init, Cached, CachedRows
  <2>5. RoomInv
    BY <2>4, FS_EmptySet DEF RoomInv, RowsOf
  <2> QED BY <2>1, <2>2, <2>3, <2>5, Zenon
<1>2. Inv /\ [Next]_vars => Inv'
  BY BaseStep, FreshStep, ClearedStep, RoomStep, Zenon
<1>3. Inv => WithinCapacity
  BY DEF RoomInv, WithinCapacity
<1> QED BY <1>1, <1>2, <1>3, PTL DEF Spec
===========================================================================
