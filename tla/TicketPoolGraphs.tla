-------------------------- MODULE TicketPoolGraphs --------------------------
(***************************************************************************)
(* The ticket pool chart cache of db/dcrpg/pgblockchain.go: requests run   *)
(* TicketPoolVisualization concurrently for one time grouping (groupings   *)
(* share no state), a trylock.Mutex picks the one that queries the DB, and *)
(* the block connecting goroutine changes the tables and the best height   *)
(* under their feet.                                                       *)
(***************************************************************************)
EXTENDS Integers, FiniteSets, TLC

CONSTANTS
    Clients,      \* goroutines that serve a chart request
    NoOne,        \* the trylock.Mutex channel c is nil
    NoCharts,     \* no entry for the grouping in ticketPoolGraphsCache
    MaxHeight,    \* bound: highest block the chain reaches
    MaxReorgs,    \* bound: one-block reorganizations
    MaxErrors     \* bound: chart queries that fail

ASSUME GraphsAssumption ==
    /\ NoOne \notin Clients
    /\ MaxHeight \in Nat /\ MaxReorgs \in Nat /\ MaxErrors \in Nat

Versions == 0 .. (MaxHeight + 2 * MaxReorgs + 1)

Charts == [time : Versions, price : Versions, inputs : Versions, height : -1 .. MaxHeight]

ASSUME NoChartsAssumption == NoCharts \notin Charts

VARIABLES
    height,   \* pgb.bestBlock.height, read by pgb.Height()
    tables,   \* version of the rows the chart queries read
    stored,   \* the rows of a block are written, bestBlock is not yet set
    reorgs,   \* reorganizations so far
    owner,    \* trylock.Mutex: the goroutine that made the channel c
    cache,    \* ticketPoolGraphsCache for the grouping
    pc,       \* what each request does next
    seen,     \* heightSeen, then the height of the query loop
    found,    \* intervalFound
    charts,   \* timeChart, priceChart, outputsChart and height of a request
    errors    \* failed queries so far

dbVars == <<height, tables, stored, reorgs>>
clientVars == <<pc, seen, found, charts>>
vars == <<height, tables, stored, reorgs, owner, cache,
          pc, seen, found, charts, errors>>

\* The pcs between TryLock (or Lock) and the deferred Unlock.
QueryPcs == {"qheight", "qtime", "qprice", "qinputs", "qend", "update"}
HoldingPcs == QueryPcs \cup {"reread", "unlock"}
Returned == {"empty", "served", "updated", "failed", "nodata"}

Init ==
    /\ height = -1 /\ tables = 0
    /\ stored = FALSE
    /\ reorgs = 0
    /\ owner = NoOne
    /\ cache = NoCharts
    /\ pc = [c \in Clients |-> "start"]
    /\ seen = [c \in Clients |-> 0]
    /\ found = [c \in Clients |-> FALSE]
    /\ charts = [c \in Clients |-> NoCharts]
    /\ errors = 0

-----------------------------------------------------------------------------
(* The block connecting goroutine. *)

\* StoreBlock commits the tickets and transactions rows of the next block ...
StoreRows ==
    /\ ~stored
    /\ height < MaxHeight
    /\ tables' = tables + 1
    /\ stored' = TRUE
    /\ UNCHANGED <<height, reorgs, owner, cache, pc, seen, found, charts, errors>>

\* ... and sets bestBlock.height only afterwards.
SetBestBlock ==
    /\ stored
    /\ height' = height + 1
    /\ stored' = FALSE
    /\ UNCHANGED <<tables, reorgs, owner, cache, pc, seen, found, charts, errors>>

\* TipToSideChain flags the rows of the tip block and steps bestBlock back.
TipToSideChain ==
    /\ ~stored
    /\ height > 0      \* the common ancestor is at least genesis
    /\ reorgs < MaxReorgs
    /\ reorgs' = reorgs + 1
    /\ tables' = tables + 1
    /\ height' = height - 1
    /\ UNCHANGED <<stored, owner, cache, pc, seen, found, charts, errors>>

-----------------------------------------------------------------------------
(* trylock.Mutex: the only state is whether the channel c exists.  A       *)
(* goroutine that found it busy holds that channel; closing it releases    *)
(* every such goroutine at once.                                           *)

\* tryLock: make the channel if there is none, report busy otherwise.
Acquire(c) == owner = NoOne /\ owner' = c

\* Mutant: c = nil without close(c).
ReleaseWithoutClose(c, next) ==
    /\ owner' = NoOne
    /\ pc' = [pc EXCEPT ![c] = next]

\* Unlock: close(c) wakes everyone who waits on this channel; c becomes nil.
Release(c, next) ==
    /\ owner' = NoOne
    /\ pc' = [d \in Clients |-> IF d = c THEN next
                                ELSE IF pc[d] = "waiting" THEN "lock" ELSE pc[d]]

Goto(c, next) == pc' = [pc EXCEPT ![c] = next]

-----------------------------------------------------------------------------
(* TicketPoolVisualization, one step per access to shared state. *)

\* heightSeen := pgb.Height(); an empty DB has no charts.
Start(c) ==
    /\ pc[c] = "start"
    /\ seen' = [seen EXCEPT ![c] = height]
    /\ Goto(c, IF height < 0 THEN "empty" ELSE "read")
    /\ UNCHANGED <<dbVars, owner, cache, found, charts, errors>>

\* TicketPoolData: found, and fresh when the cached height is heightSeen.
TicketPoolData(c) ==
    /\ charts' = [charts EXCEPT ![c] = cache]
    /\ found' = [found EXCEPT ![c] = cache # NoCharts]

IsFresh(h) == cache # NoCharts /\ cache.height = h

ReadCache(c) ==
    /\ pc[c] = "read"
    /\ TicketPoolData(c)
    /\ Goto(c, IF IsFresh(seen[c]) THEN "served" ELSE "trylock")
    /\ UNCHANGED <<dbVars, owner, cache, seen, errors>>

\* Mutant: the busy result of tryLock is ignored.
TryLockIgnored(c) ==
    /\ pc[c] = "trylock"
    /\ owner' = c
    /\ Goto(c, "qheight")
    /\ UNCHANGED <<dbVars, cache, seen, found, charts, errors>>

\* TryLock won: this request is the cache updater.
TryLockWon(c) ==
    /\ pc[c] = "trylock"
    /\ Acquire(c)
    /\ Goto(c, "qheight")
    /\ UNCHANGED <<dbVars, cache, seen, found, charts, errors>>

\* TryLock lost: return the stale charts, or wait for the updater without any.
TryLockLost(c) ==
    /\ pc[c] = "trylock"
    /\ owner # NoOne
    /\ Goto(c, IF found[c] THEN "served" ELSE "lock")
    /\ UNCHANGED <<dbVars, owner, cache, seen, found, charts, errors>>

\* Lock: race for the channel, or keep the busy one to wait for its close.
LockWon(c) ==
    /\ pc[c] = "lock"
    /\ Acquire(c)
    /\ Goto(c, "reread")
    /\ UNCHANGED <<dbVars, cache, seen, found, charts, errors>>

LockBusy(c) ==
    /\ pc[c] = "lock"
    /\ owner # NoOne
    /\ Goto(c, "waiting")
    /\ UNCHANGED <<dbVars, owner, cache, seen, found, charts, errors>>

\* The waiter reads the cache again, finding it or not, and unlocks.
Reread(c) ==
    /\ pc[c] = "reread"
    /\ TicketPoolData(c)
    /\ Release(c, IF cache = NoCharts THEN "nodata" ELSE "served")
    /\ UNCHANGED <<dbVars, cache, seen, errors>>

\* ticketPoolVisualization: the height before the queries.
QueryHeight(c) ==
    /\ pc[c] = "qheight"
    /\ seen' = [seen EXCEPT ![c] = height]
    /\ charts' = [charts EXCEPT ![c] =
                    [time |-> 0, price |-> 0, inputs |-> 0, height |-> height]]
    /\ Goto(c, "qtime")
    /\ UNCHANGED <<dbVars, owner, cache, found, errors>>

\* One of the three chart queries, each reading the tables as they are now.
Query(c, from, chart, to) ==
    /\ pc[c] = from
    /\ charts' = [charts EXCEPT ![c][chart] = tables]
    /\ Goto(c, to)
    /\ UNCHANGED <<dbVars, owner, cache, seen, found, errors>>

QueryTime(c) == Query(c, "qtime", "time", "qprice")
QueryPrice(c) == Query(c, "qprice", "price", "qinputs")
QueryInputs(c) == Query(c, "qinputs", "inputs", "qend")

\* Any of the queries fails: the request returns the error and unlocks.
QueryFails(c) ==
    /\ pc[c] \in {"qtime", "qprice", "qinputs"}
    /\ errors < MaxErrors
    /\ errors' = errors + 1
    /\ charts' = [charts EXCEPT ![c] = NoCharts]
    /\ Release(c, "failed")
    /\ UNCHANGED <<dbVars, cache, seen, found>>

\* Mutant: the height is not compared after the queries.
QueryEndUnchecked(c) ==
    /\ pc[c] = "qend"
    /\ seen' = [seen EXCEPT ![c] = height]
    /\ charts' = [charts EXCEPT ![c].height = height]
    /\ Goto(c, "update")
    /\ UNCHANGED <<dbVars, owner, cache, found, errors>>

\* The height after the queries: the same, or query again.
QueryEnd(c) ==
    /\ pc[c] = "qend"
    /\ seen' = [seen EXCEPT ![c] = height]
    /\ charts' = [charts EXCEPT ![c].height = height]
    /\ Goto(c, IF height = seen[c] THEN "update" ELSE "qtime")
    /\ UNCHANGED <<dbVars, owner, cache, found, errors>>

\* Mutant: the queried charts are returned but not cached.
UpdateForgotten(c) ==
    /\ pc[c] = "update"
    /\ Goto(c, "unlock")
    /\ UNCHANGED <<dbVars, owner, cache, seen, found, charts, errors>>

\* UpdateTicketPoolData, before the deferred Unlock.
Update(c) ==
    /\ pc[c] = "update"
    /\ cache' = charts[c]
    /\ Goto(c, "unlock")
    /\ UNCHANGED <<dbVars, owner, seen, found, charts, errors>>

Unlock(c) ==
    /\ pc[c] = "unlock"
    /\ Release(c, "updated")
    /\ UNCHANGED <<dbVars, cache, seen, found, charts, errors>>

\* The HTTP handler is done and the goroutine serves its next request.
NextRequest(c) ==
    /\ pc[c] \in Returned
    /\ Goto(c, "start")
    /\ seen' = [seen EXCEPT ![c] = 0]
    /\ found' = [found EXCEPT ![c] = FALSE]
    /\ charts' = [charts EXCEPT ![c] = NoCharts]
    /\ UNCHANGED <<dbVars, owner, cache, errors>>

ClientStep(c) ==
    \/ Start(c) \/ ReadCache(c)
    \/ TryLockWon(c) \/ TryLockLost(c)
    \/ LockWon(c) \/ LockBusy(c) \/ Reread(c)
    \/ QueryHeight(c) \/ QueryTime(c) \/ QueryPrice(c) \/ QueryInputs(c) \/ QueryEnd(c)
    \/ Update(c) \/ Unlock(c)

Next ==
    \/ StoreRows \/ SetBestBlock \/ TipToSideChain
    \/ \E c \in Clients : ClientStep(c) \/ QueryFails(c) \/ NextRequest(c)

\* The Go scheduler runs every goroutine; queries return (queryTimeout).
Fairness ==
    /\ WF_vars(SetBestBlock)
    /\ \A c \in Clients : WF_vars(ClientStep(c))

Spec == Init /\ [][Next]_vars /\ Fairness

-----------------------------------------------------------------------------
(* Properties *)

TypeOK ==
    /\ height \in -1 .. MaxHeight
    /\ tables \in Versions
    /\ stored \in BOOLEAN
    /\ reorgs \in 0 .. MaxReorgs
    /\ owner \in Clients \cup {NoOne}
    /\ cache \in Charts \cup {NoCharts}
    /\ pc \in [Clients -> HoldingPcs \cup Returned \cup
                {"start", "read", "trylock", "lock", "waiting"}]
    /\ seen \in [Clients -> -1 .. MaxHeight]
    /\ found \in [Clients -> BOOLEAN]
    /\ charts \in [Clients -> Charts \cup {NoCharts}]
    /\ errors \in 0 .. MaxErrors

\* trylock.Mutex: only the goroutine that obtained the lock is between
\* TryLock/Lock and Unlock, and nobody waits on a channel that no owner is
\* going to close.
LockSafe ==
    /\ \A c \in Clients : pc[c] \in HoldingPcs <=> owner = c
    /\ \A c \in Clients : pc[c] = "waiting" => owner # NoOne

\* A request that waited for the updater comes back without charts only when
\* some updater's query failed (the error branch of TicketPoolVisualization).
WaiterFindsCharts == (\E c \in Clients : pc[c] = "nodata") => errors > 0

\* Without reorganizations an updater never overwrites newer charts with older
\* ones, although it read the height long before it wrote the cache.
CacheNeverGoesBack ==
    [][reorgs' = 0 /\ cache # NoCharts => cache' # NoCharts /\ cache'.height >= cache.height]_vars

\* Without reorganizations, charts cached for the height of the best block were
\* computed from the tables of that block, so serving them as fresh is right.
FreshIsCurrent ==
    reorgs = 0 /\ ~stored /\ IsFresh(height) =>
        cache.time = tables /\ cache.price = tables /\ cache.inputs = tables

\* Refuted, see README: the three charts cached together were read from the same tables ("to
\* ensure charts are consistent" in ticketPoolVisualization).
ChartsConsistent ==
    cache # NoCharts => cache.time = cache.price /\ cache.price = cache.inputs

\* A request that needs the updater lock, even one that waits on its channel,
\* returns, unless a query failed: every Unlock wakes the waiters of Lock, and
\* what the updater cached keeps later requests from the lock.
RequestsReturn == \A c \in Clients : pc[c] = "trylock" ~> pc[c] \in Returned \/ errors > 0
=============================================================================
