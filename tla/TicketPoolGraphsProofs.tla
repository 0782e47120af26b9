----------------------- MODULE TicketPoolGraphsProofs -----------------------
(***************************************************************************)
(* Proofs about TicketPoolGraphs for any number of requests, any chain     *)
(* length and any number of reorganizations and failed queries.            *)
(***************************************************************************)
EXTENDS TicketPoolGraphs, TLAPS

\* The version of the tables counts the changes of the tables.
TablesInv ==
    /\ tables = height + 1 + 2 * reorgs + (IF stored THEN 1 ELSE 0)
    /\ stored => height < MaxHeight

\* An updater past QueryHeight has charts.
ChartsInv ==
    \A c \in Clients :
        pc[c] \in {"qtime", "qprice", "qinputs", "qend", "update", "unlock"} => charts[c] \in Charts

\* Nobody gave the lock back before there were charts or a failed query.
WaitInv ==
    /\ WaiterFindsCharts
    /\ errors = 0 /\ cache = NoCharts =>
         /\ \A c \in Clients : pc[c] \notin {"reread", "unlock"}
         /\ \A c \in Clients : pc[c] \in {"lock", "waiting"} => owner # NoOne

\* The charts x were read from tables at least as new as height h.
NotOlder(v, h) == h + 1 <= v /\ v <= tables

\* While no reorganization happened, charts are never older than their height.
AgeInv ==
    reorgs = 0 =>
      /\ cache # NoCharts =>
           /\ cache.height <= height
           /\ NotOlder(cache.time, cache.height)
           /\ NotOlder(cache.price, cache.height)
           /\ NotOlder(cache.inputs, cache.height)
      /\ \A c \in Clients :
           /\ pc[c] \in {"qtime", "qprice", "qinputs", "qend", "update"} =>
                /\ seen[c] <= height
                /\ charts[c].height = seen[c]
                /\ cache # NoCharts => cache.height <= charts[c].height
           /\ pc[c] \in {"qprice", "qinputs", "qend", "update"} => NotOlder(charts[c].time, seen[c])
           /\ pc[c] \in {"qinputs", "qend", "update"} => NotOlder(charts[c].price, seen[c])
           /\ pc[c] \in {"qend", "update"} => NotOlder(charts[c].inputs, seen[c])

Inv == TypeOK /\ LockSafe /\ TablesInv /\ ChartsInv /\ WaitInv /\ AgeInv

\* The safety part of the specification: fairness plays no role here.
SafeSpec == Init /\ [][Next]_vars

USE DEF dbVars, HoldingPcs, QueryPcs, Returned, Goto

\* The empty cache of a new ChainDB satisfies the invariant.
LEMMA InitInv == Init => Inv
<1> USE GraphsAssumption, NoChartsAssumption
<1> SUFFICES ASSUME Init PROVE Inv OBVIOUS
<1>1. TypeOK
  <2>1. stored \in BOOLEAN /\ found \in [Clients -> BOOLEAN] BY Zenon DEF Init
  <2> QED BY <2>1 DEF Init, TypeOK, Versions
<1>2. LockSafe BY Zenon DEF Init, LockSafe
<1>3. TablesInv BY DEF Init, TablesInv
<1>4. ChartsInv BY Zenon DEF Init, ChartsInv
<1>5. WaitInv BY Zenon DEF Init, WaitInv, WaiterFindsCharts
<1>6. AgeInv BY Zenon DEF Init, AgeInv
<1> QED BY <1>1, <1>2, <1>3, <1>4, <1>5, <1>6, Zenon DEF Inv

\* Storing a block's rows, setting the best height and moving blocks to a
\* side chain (StoreBlock, TipToSideChain) keep the invariant.
LEMMA DBStep ==
    ASSUME Inv, StoreRows \/ SetBestBlock \/ TipToSideChain
    PROVE  Inv'
<1> USE GraphsAssumption, NoChartsAssumption
<1>1. CASE StoreRows
  <2>1. TypeOK' BY <1>1 DEF StoreRows, Inv, TypeOK, TablesInv, Versions
  <2>2. LockSafe' BY <1>1, Zenon DEF StoreRows, Inv, LockSafe
  <2>3. TablesInv' BY <1>1 DEF StoreRows, Inv, TypeOK, TablesInv, Versions
  <2>4. ChartsInv' BY <1>1, Zenon DEF StoreRows, Inv, ChartsInv
  <2>5. WaitInv' BY <1>1, Zenon DEF StoreRows, Inv, WaitInv, WaiterFindsCharts
  <2>6. AgeInv' BY <1>1 DEF StoreRows, Inv, AgeInv, NotOlder, TypeOK, ChartsInv, Charts, Versions
  <2> QED BY <2>1, <2>2, <2>3, <2>4, <2>5, <2>6, Zenon DEF Inv
<1>2. CASE SetBestBlock
  <2>1. TypeOK'
    <3>1. stored' \in BOOLEAN BY <1>2, Zenon DEF SetBestBlock
    <3> QED BY <1>2, <3>1 DEF SetBestBlock, Inv, TypeOK, TablesInv, Versions
  <2>2. LockSafe' BY <1>2, Zenon DEF SetBestBlock, Inv, LockSafe
  <2>3. TablesInv' BY <1>2 DEF SetBestBlock, Inv, TypeOK, TablesInv, Versions
  <2>4. ChartsInv' BY <1>2, Zenon DEF SetBestBlock, Inv, ChartsInv
  <2>5. WaitInv' BY <1>2, Zenon DEF SetBestBlock, Inv, WaitInv, WaiterFindsCharts
  <2>6. AgeInv' BY <1>2 DEF SetBestBlock, Inv, AgeInv, NotOlder, TypeOK, ChartsInv, Charts, Versions
  <2> QED BY <2>1, <2>2, <2>3, <2>4, <2>5, <2>6, Zenon DEF Inv
<1>3. CASE TipToSideChain
  <2>1. TypeOK' BY <1>3 DEF TipToSideChain, Inv, TypeOK, TablesInv, Versions
  <2>2. LockSafe' BY <1>3, Zenon DEF TipToSideChain, Inv, LockSafe
  <2>3. TablesInv' BY <1>3 DEF TipToSideChain, Inv, TypeOK, TablesInv, Versions
  <2>4. ChartsInv' BY <1>3, Zenon DEF TipToSideChain, Inv, ChartsInv
  <2>5. WaitInv' BY <1>3, Zenon DEF TipToSideChain, Inv, WaitInv, WaiterFindsCharts
  <2>6. AgeInv' BY <1>3 DEF TipToSideChain, Inv, AgeInv, TypeOK
  <2> QED BY <2>1, <2>2, <2>3, <2>4, <2>5, <2>6, Zenon DEF Inv
<1> QED BY <1>1, <1>2, <1>3, Zenon

\* A request that arrives notes the best height.
LEMMA StartStep == ASSUME Inv, NEW c \in Clients, Start(c) PROVE Inv'
<1> USE GraphsAssumption, NoChartsAssumption
<1>1. TypeOK' BY Zenon DEF Start, Inv, TypeOK, ChartsInv, Charts, TablesInv, Versions
<1>2. LockSafe' BY Zenon DEF Start, Inv, TypeOK, LockSafe
<1>3. TablesInv' BY Zenon DEF Start, Inv, TablesInv
<1>4. ChartsInv' BY Zenon DEF Start, Inv, TypeOK, ChartsInv, Charts, Versions
<1>5. WaitInv' BY Zenon DEF Start, Inv, TypeOK, LockSafe, WaitInv, WaiterFindsCharts
<1>6. AgeInv' BY DEF Start, Inv, TypeOK, LockSafe, TablesInv, ChartsInv, AgeInv, NotOlder, Charts, Versions
<1> QED BY <1>1, <1>2, <1>3, <1>4, <1>5, <1>6, Zenon DEF Inv

\* Reading the cache (TicketPoolData) keeps the invariant.
LEMMA ReadCacheStep == ASSUME Inv, NEW c \in Clients, ReadCache(c) PROVE Inv'
<1> USE GraphsAssumption, NoChartsAssumption
<1>1. TypeOK' BY Zenon DEF ReadCache, TicketPoolData, Inv, TypeOK, ChartsInv, Charts, TablesInv, Versions
<1>2. LockSafe' BY Zenon DEF ReadCache, TicketPoolData, Inv, TypeOK, LockSafe
<1>3. TablesInv' BY Zenon DEF ReadCache, TicketPoolData, Inv, TablesInv
<1>4. ChartsInv' BY Zenon DEF ReadCache, TicketPoolData, Inv, TypeOK, ChartsInv, Charts, Versions
<1>5. WaitInv' BY Zenon DEF ReadCache, TicketPoolData, Inv, TypeOK, LockSafe, WaitInv, WaiterFindsCharts
<1>6. AgeInv' BY DEF ReadCache, TicketPoolData, Inv, TypeOK, LockSafe, TablesInv, ChartsInv, AgeInv, NotOlder, Charts, Versions
<1> QED BY <1>1, <1>2, <1>3, <1>4, <1>5, <1>6, Zenon DEF Inv

\* The request that wins TryLock becomes the only updater.
LEMMA TryLockWonStep == ASSUME Inv, NEW c \in Clients, TryLockWon(c) PROVE Inv'
<1> USE GraphsAssumption, NoChartsAssumption
<1>1. TypeOK' BY Zenon DEF TryLockWon, Acquire, Inv, TypeOK, ChartsInv, Charts, TablesInv, Versions
<1>2. LockSafe' BY Zenon DEF TryLockWon, Acquire, Inv, TypeOK, LockSafe
<1>3. TablesInv' BY Zenon DEF TryLockWon, Acquire, Inv, TablesInv
<1>4. ChartsInv' BY Zenon DEF TryLockWon, Acquire, Inv, TypeOK, ChartsInv, Charts, Versions
<1>5. WaitInv' BY Zenon DEF TryLockWon, Acquire, Inv, TypeOK, LockSafe, WaitInv, WaiterFindsCharts
<1>6. AgeInv' BY DEF TryLockWon, Acquire, Inv, TypeOK, LockSafe, TablesInv, ChartsInv, AgeInv, NotOlder, Charts, Versions
<1> QED BY <1>1, <1>2, <1>3, <1>4, <1>5, <1>6, Zenon DEF Inv

\* A request that loses TryLock serves what it found, or goes on to Lock.
LEMMA TryLockLostStep == ASSUME Inv, NEW c \in Clients, TryLockLost(c) PROVE Inv'
<1> USE GraphsAssumption, NoChartsAssumption
<1>1. TypeOK' BY Zenon DEF TryLockLost, Inv, TypeOK, ChartsInv, Charts, TablesInv, Versions
<1>2. LockSafe' BY Zenon DEF TryLockLost, Inv, TypeOK, LockSafe
<1>3. TablesInv' BY Zenon DEF TryLockLost, Inv, TablesInv
<1>4. ChartsInv' BY Zenon DEF TryLockLost, Inv, TypeOK, ChartsInv, Charts, Versions
<1>5. WaitInv' BY Zenon DEF TryLockLost, Inv, TypeOK, LockSafe, WaitInv, WaiterFindsCharts
<1>6. AgeInv' BY DEF TryLockLost, Inv, TypeOK, LockSafe, TablesInv, ChartsInv, AgeInv, NotOlder, Charts, Versions
<1> QED BY <1>1, <1>2, <1>3, <1>4, <1>5, <1>6, Zenon DEF Inv

\* A waiter that finds the lock free takes it.
LEMMA LockWonStep == ASSUME Inv, NEW c \in Clients, LockWon(c) PROVE Inv'
<1> USE GraphsAssumption, NoChartsAssumption
<1>1. TypeOK' BY Zenon DEF LockWon, Acquire, Inv, TypeOK, ChartsInv, Charts, TablesInv, Versions
<1>2. LockSafe' BY Zenon DEF LockWon, Acquire, Inv, TypeOK, LockSafe
<1>3. TablesInv' BY Zenon DEF LockWon, Acquire, Inv, TablesInv
<1>4. ChartsInv' BY Zenon DEF LockWon, Acquire, Inv, TypeOK, ChartsInv, Charts, Versions
<1>5. WaitInv' BY Zenon DEF LockWon, Acquire, Inv, TypeOK, LockSafe, WaitInv, WaiterFindsCharts
<1>6. AgeInv' BY DEF LockWon, Acquire, Inv, TypeOK, LockSafe, TablesInv, ChartsInv, AgeInv, NotOlder, Charts, Versions
<1> QED BY <1>1, <1>2, <1>3, <1>4, <1>5, <1>6, Zenon DEF Inv

\* A waiter that finds the lock taken waits for the channel of its holder.
LEMMA LockBusyStep == ASSUME Inv, NEW c \in Clients, LockBusy(c) PROVE Inv'
<1> USE GraphsAssumption, NoChartsAssumption
<1>1. TypeOK' BY Zenon DEF LockBusy, Inv, TypeOK, ChartsInv, Charts, TablesInv, Versions
<1>2. LockSafe' BY Zenon DEF LockBusy, Inv, TypeOK, LockSafe
<1>3. TablesInv' BY Zenon DEF LockBusy, Inv, TablesInv
<1>4. ChartsInv' BY Zenon DEF LockBusy, Inv, TypeOK, ChartsInv, Charts, Versions
<1>5. WaitInv' BY Zenon DEF LockBusy, Inv, TypeOK, LockSafe, WaitInv, WaiterFindsCharts
<1>6. AgeInv' BY DEF LockBusy, Inv, TypeOK, LockSafe, TablesInv, ChartsInv, AgeInv, NotOlder, Charts, Versions
<1> QED BY <1>1, <1>2, <1>3, <1>4, <1>5, <1>6, Zenon DEF Inv

\* A waiter that got the lock releases it and reads the cache again.
LEMMA RereadStep == ASSUME Inv, NEW c \in Clients, Reread(c) PROVE Inv'
<1> USE GraphsAssumption, NoChartsAssumption
<1>1. TypeOK' BY Zenon DEF Reread, Release, TicketPoolData, Inv, TypeOK, ChartsInv, Charts, TablesInv, Versions
<1>2. LockSafe' BY Zenon DEF Reread, Release, TicketPoolData, Inv, TypeOK, LockSafe
<1>3. TablesInv' BY Zenon DEF Reread, Release, TicketPoolData, Inv, TablesInv
<1>4. ChartsInv' BY Zenon DEF Reread, Release, TicketPoolData, Inv, TypeOK, ChartsInv, Charts, Versions
<1>5. WaitInv' BY DEF Reread, Release, TicketPoolData, Inv, TypeOK, LockSafe, WaitInv, WaiterFindsCharts
<1>6. AgeInv' BY DEF Reread, Release, TicketPoolData, Inv, TypeOK, LockSafe, TablesInv, ChartsInv, AgeInv, NotOlder, Charts, Versions
<1> QED BY <1>1, <1>2, <1>3, <1>4, <1>5, <1>6, Zenon DEF Inv

\* The updater notes the best height before its queries.
LEMMA QueryHeightStep == ASSUME Inv, NEW c \in Clients, QueryHeight(c) PROVE Inv'
<1> USE GraphsAssumption, NoChartsAssumption
<1>1. TypeOK' BY DEF QueryHeight, Inv, TypeOK, ChartsInv, Charts, TablesInv, Versions
<1>2. LockSafe' BY Zenon DEF QueryHeight, Inv, TypeOK, LockSafe
<1>3. TablesInv' BY Zenon DEF QueryHeight, Inv, TablesInv
<1>4. ChartsInv' BY DEF QueryHeight, Inv, TypeOK, ChartsInv, Charts, Versions
<1>5. WaitInv' BY Zenon DEF QueryHeight, Inv, TypeOK, LockSafe, WaitInv, WaiterFindsCharts
<1>6. AgeInv' BY DEF QueryHeight, Inv, TypeOK, LockSafe, TablesInv, ChartsInv, AgeInv, NotOlder, Charts, Versions
<1> QED BY <1>1, <1>2, <1>3, <1>4, <1>5, <1>6, Zenon DEF Inv

\* The query of the purchase times keeps the invariant.
LEMMA QueryTimeStep == ASSUME Inv, NEW c \in Clients, QueryTime(c) PROVE Inv'
<1> USE GraphsAssumption, NoChartsAssumption
<1>1. TypeOK' BY DEF QueryTime, Query, Inv, TypeOK, ChartsInv, Charts, TablesInv, Versions
<1>2. LockSafe' BY Zenon DEF QueryTime, Query, Inv, TypeOK, LockSafe
<1>3. TablesInv' BY Zenon DEF QueryTime, Query, Inv, TablesInv
<1>4. ChartsInv' BY DEF QueryTime, Query, Inv, TypeOK, ChartsInv, Charts, Versions
<1>5. WaitInv' BY Zenon DEF QueryTime, Query, Inv, TypeOK, LockSafe, WaitInv, WaiterFindsCharts
<1>6. AgeInv' BY DEF QueryTime, Query, Inv, TypeOK, LockSafe, TablesInv, ChartsInv, AgeInv, NotOlder, Charts, Versions
<1> QED BY <1>1, <1>2, <1>3, <1>4, <1>5, <1>6, Zenon DEF Inv

\* The query of the ticket prices keeps the invariant.
LEMMA QueryPriceStep == ASSUME Inv, NEW c \in Clients, QueryPrice(c) PROVE Inv'
<1> USE GraphsAssumption, NoChartsAssumption
<1>1. TypeOK' BY DEF QueryPrice, Query, Inv, TypeOK, ChartsInv, Charts, TablesInv, Versions
<1>2. LockSafe' BY Zenon DEF QueryPrice, Query, Inv, TypeOK, LockSafe
<1>3. TablesInv' BY Zenon DEF QueryPrice, Query, Inv, TablesInv
<1>4. ChartsInv' BY DEF QueryPrice, Query, Inv, TypeOK, ChartsInv, Charts, Versions
<1>5. WaitInv' BY Zenon DEF QueryPrice, Query, Inv, TypeOK, LockSafe, WaitInv, WaiterFindsCharts
<1>6. AgeInv' BY DEF QueryPrice, Query, Inv, TypeOK, LockSafe, TablesInv, ChartsInv, AgeInv, NotOlder, Charts, Versions
<1> QED BY <1>1, <1>2, <1>3, <1>4, <1>5, <1>6, Zenon DEF Inv

\* The query of the ticket inputs keeps the invariant.
LEMMA QueryInputsStep == ASSUME Inv, NEW c \in Clients, QueryInputs(c) PROVE Inv'
<1> USE GraphsAssumption, NoChartsAssumption
<1>1. TypeOK' BY DEF QueryInputs, Query, Inv, TypeOK, ChartsInv, Charts, TablesInv, Versions
<1>2. LockSafe' BY Zenon DEF QueryInputs, Query, Inv, TypeOK, LockSafe
<1>3. TablesInv' BY Zenon DEF QueryInputs, Query, Inv, TablesInv
<1>4. ChartsInv' BY DEF QueryInputs, Query, Inv, TypeOK, ChartsInv, Charts, Versions
<1>5. WaitInv' BY Zenon DEF QueryInputs, Query, Inv, TypeOK, LockSafe, WaitInv, WaiterFindsCharts
<1>6. AgeInv' BY DEF QueryInputs, Query, Inv, TypeOK, LockSafe, TablesInv, ChartsInv, AgeInv, NotOlder, Charts, Versions
<1> QED BY <1>1, <1>2, <1>3, <1>4, <1>5, <1>6, Zenon DEF Inv

\* The height test after the queries admits charts of the noted height only.
LEMMA QueryEndStep == ASSUME Inv, NEW c \in Clients, QueryEnd(c) PROVE Inv'
<1> USE GraphsAssumption, NoChartsAssumption
<1>1. TypeOK' BY DEF QueryEnd, Inv, TypeOK, ChartsInv, Charts, TablesInv, Versions
<1>2. LockSafe' BY Zenon DEF QueryEnd, Inv, TypeOK, LockSafe
<1>3. TablesInv' BY Zenon DEF QueryEnd, Inv, TablesInv
<1>4. ChartsInv' BY DEF QueryEnd, Inv, TypeOK, ChartsInv, Charts, Versions
<1>5. WaitInv' BY Zenon DEF QueryEnd, Inv, TypeOK, LockSafe, WaitInv, WaiterFindsCharts
<1>6. AgeInv' BY DEF QueryEnd, Inv, TypeOK, LockSafe, TablesInv, ChartsInv, AgeInv, NotOlder, Charts, Versions
<1> QED BY <1>1, <1>2, <1>3, <1>4, <1>5, <1>6, Zenon DEF Inv

\* UpdateTicketPoolData replaces the charts by those of no lower height.
LEMMA UpdateStep == ASSUME Inv, NEW c \in Clients, Update(c) PROVE Inv'
<1> USE GraphsAssumption, NoChartsAssumption
<1>1. TypeOK' BY Zenon DEF Update, Inv, TypeOK, ChartsInv, Charts, TablesInv, Versions
<1>2. LockSafe' BY Zenon DEF Update, Inv, TypeOK, LockSafe
<1>3. TablesInv' BY Zenon DEF Update, Inv, TablesInv
<1>4. ChartsInv' BY Zenon DEF Update, Inv, TypeOK, ChartsInv, Charts, Versions
<1>5. WaitInv' BY Zenon DEF Update, Inv, TypeOK, LockSafe, ChartsInv, WaitInv, WaiterFindsCharts
<1>6. AgeInv' BY DEF Update, Inv, TypeOK, LockSafe, TablesInv, ChartsInv, AgeInv, NotOlder, Charts, Versions
<1> QED BY <1>1, <1>2, <1>3, <1>4, <1>5, <1>6, Zenon DEF Inv

\* Unlock leaves the lock free and wakes the waiters.
LEMMA UnlockStep == ASSUME Inv, NEW c \in Clients, Unlock(c) PROVE Inv'
<1> USE GraphsAssumption, NoChartsAssumption
<1>1. TypeOK' BY Zenon DEF Unlock, Release, Inv, TypeOK, ChartsInv, Charts, TablesInv, Versions
<1>2. LockSafe' BY Zenon DEF Unlock, Release, Inv, TypeOK, LockSafe
<1>3. TablesInv' BY Zenon DEF Unlock, Release, Inv, TablesInv
<1>4. ChartsInv' BY Zenon DEF Unlock, Release, Inv, TypeOK, ChartsInv, Charts, Versions
<1>5. WaitInv' BY Zenon DEF Unlock, Release, Inv, TypeOK, LockSafe, WaitInv, WaiterFindsCharts
<1>6. AgeInv' BY Zenon DEF Unlock, Release, Inv, TypeOK, LockSafe, TablesInv, ChartsInv, AgeInv, NotOlder, Charts, Versions
<1> QED BY <1>1, <1>2, <1>3, <1>4, <1>5, <1>6, Zenon DEF Inv

\* A failed query releases the lock and is counted in errors.
LEMMA QueryFailsStep == ASSUME Inv, NEW c \in Clients, QueryFails(c) PROVE Inv'
<1> USE GraphsAssumption, NoChartsAssumption
<1>1. TypeOK' BY DEF QueryFails, Release, Inv, TypeOK, ChartsInv, Charts, TablesInv, Versions
<1>2. LockSafe' BY Zenon DEF QueryFails, Release, Inv, TypeOK, LockSafe
<1>3. TablesInv' BY Zenon DEF QueryFails, Release, Inv, TablesInv
<1>4. ChartsInv' BY Zenon DEF QueryFails, Release, Inv, TypeOK, ChartsInv, Charts, Versions
<1>5. WaitInv' BY DEF QueryFails, Release, Inv, TypeOK, LockSafe, WaitInv, WaiterFindsCharts
<1>6. AgeInv' BY DEF QueryFails, Release, Inv, TypeOK, LockSafe, TablesInv, ChartsInv, AgeInv, NotOlder, Charts, Versions
<1> QED BY <1>1, <1>2, <1>3, <1>4, <1>5, <1>6, Zenon DEF Inv

\* A finished request may be followed by another.
LEMMA NextRequestStep == ASSUME Inv, NEW c \in Clients, NextRequest(c) PROVE Inv'
<1> USE GraphsAssumption, NoChartsAssumption
<1>1. TypeOK'
  <2>1. found' \in [Clients -> BOOLEAN] BY Zenon DEF NextRequest, Inv, TypeOK
  <2> QED BY <2>1 DEF NextRequest, Inv, TypeOK
<1>2. LockSafe' BY Zenon DEF NextRequest, Inv, TypeOK, LockSafe
<1>3. TablesInv' BY Zenon DEF NextRequest, Inv, TablesInv
<1>4. ChartsInv' BY Zenon DEF NextRequest, Inv, TypeOK, ChartsInv, Charts, Versions
<1>5. WaitInv' BY Zenon DEF NextRequest, Inv, TypeOK, LockSafe, WaitInv, WaiterFindsCharts
<1>6. AgeInv' BY DEF NextRequest, Inv, TypeOK, LockSafe, TablesInv, ChartsInv, AgeInv, NotOlder, Charts, Versions
<1> QED BY <1>1, <1>2, <1>3, <1>4, <1>5, <1>6, Zenon DEF Inv

\* Every step of the database or of a request keeps the invariant.
LEMMA NextInv == Inv /\ [Next]_vars => Inv'
<1> SUFFICES ASSUME Inv, [Next]_vars PROVE Inv' OBVIOUS
<1>1. CASE StoreRows \/ SetBestBlock \/ TipToSideChain BY <1>1, DBStep, Zenon
<1>2. ASSUME NEW c \in Clients, ClientStep(c) \/ QueryFails(c) \/ NextRequest(c) PROVE Inv'
  BY <1>2, StartStep, ReadCacheStep, TryLockWonStep, TryLockLostStep, LockWonStep, LockBusyStep,
     RereadStep, QueryHeightStep, QueryTimeStep, QueryPriceStep, QueryInputsStep, QueryEndStep,
     UpdateStep, UnlockStep, QueryFailsStep, NextRequestStep, Zenon DEF ClientStep
<1>3. CASE UNCHANGED vars
  BY <1>3, Zenon DEF vars, Inv, TypeOK, LockSafe, TablesInv, ChartsInv, WaitInv, WaiterFindsCharts, AgeInv, NotOlder
<1> QED BY <1>1, <1>2, <1>3, Zenon DEF Next

\* trylock.Mutex gives the updater role to one request at a time and every
\* waiter of TicketPoolVisualization waits on a channel that will be closed.
THEOREM LockIsSafe == SafeSpec => [](TypeOK /\ LockSafe)
<1>1. Inv => TypeOK /\ LockSafe BY Zenon DEF Inv
<1> QED BY <1>1, InitInv, NextInv, PTL DEF SafeSpec

\* A waiter is only sent away empty-handed after a failed query.
THEOREM WaitersFindCharts == SafeSpec => []WaiterFindsCharts
<1>1. Inv => WaiterFindsCharts BY Zenon DEF Inv, WaitInv
<1> QED BY <1>1, InitInv, NextInv, PTL DEF SafeSpec

\* Without a reorganization the cached charts of the best height are those of
\* the best block's tables.
THEOREM FreshChartsAreCurrent == SafeSpec => []FreshIsCurrent
<1>1. Inv => FreshIsCurrent
  <2> SUFFICES ASSUME Inv, reorgs = 0, ~stored, IsFresh(height)
               PROVE cache.time = tables /\ cache.price = tables /\ cache.inputs = tables
    BY Zenon DEF FreshIsCurrent
  <2>1. cache \in Charts /\ cache.height = height BY Zenon DEF Inv, TypeOK, IsFresh
  <2>2. tables = height + 1 BY DEF Inv, TypeOK, TablesInv
  <2> QED BY <2>1, <2>2 DEF Inv, AgeInv, NotOlder, IsFresh, TypeOK, Charts, Versions
<1> QED BY <1>1, InitInv, NextInv, PTL DEF SafeSpec

\* Without a reorganization no update of the cache goes back in height.
THEOREM CacheHeightGrows == SafeSpec => CacheNeverGoesBack
<1> DEFINE Grows == reorgs' = 0 /\ cache # NoCharts => cache' # NoCharts /\ cache'.height >= cache.height
<1>1. ASSUME Inv, [Next]_vars PROVE [Grows]_vars
  <2> SUFFICES ASSUME Next, reorgs' = 0, cache # NoCharts
               PROVE cache' # NoCharts /\ cache'.height >= cache.height
    BY <1>1, Zenon
  <2>1. cache \in Charts BY <1>1, Zenon DEF Inv, TypeOK
  <2>2. CASE cache' = cache BY <2>1, <2>2 DEF Charts
  <2>3. ASSUME NEW c \in Clients, Update(c) PROVE cache' # NoCharts /\ cache'.height >= cache.height
    <3>1. charts[c] \in Charts /\ cache' = charts[c] /\ reorgs = 0 BY <1>1, <2>3, Zenon DEF Inv, ChartsInv, Update
    <3>2. cache.height <= charts[c].height BY <1>1, <2>3, <3>1, Zenon DEF Inv, AgeInv, Update
    <3> QED BY <3>1, <3>2, <2>1, NoChartsAssumption, Zenon DEF Charts
  <2>4. cache' = cache \/ \E c \in Clients : Update(c)
    BY Zenon DEF Next, StoreRows, SetBestBlock, TipToSideChain, ClientStep, Start, ReadCache, TryLockWon,
           TryLockLost, LockWon, LockBusy, Reread, QueryHeight, QueryTime, QueryPrice, QueryInputs,
           Query, QueryEnd, Unlock, QueryFails, NextRequest
  <2> QED BY <2>2, <2>3, <2>4, Zenon
<1>2. Inv /\ [Next]_vars => [Grows]_vars BY <1>1, Zenon
<1> QED BY <1>2, InitInv, NextInv, PTL DEF SafeSpec, CacheNeverGoesBack
=============================================================================
