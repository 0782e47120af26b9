------------------------------ MODULE CallPool ------------------------------
(***************************************************************************)
(* The calls of ExplorerCalls and StoreCalls at work: processes that run   *)
(* them step by step over one pool of connections (database/sql with       *)
(* SetMaxOpenConns) and the mutexes they share.  Every request to the      *)
(* database, to the node, and every test of a result, may fail.            *)
(*                                                                         *)
(* Two modes.  "alone": one process runs one call, any of them, and any    *)
(* number of its steps fail.  "together": a block is stored, its two trees *)
(* in parallel, while the page and a chart are brought up to date and      *)
(* requests are served; steps that matter to no other process are taken at *)
(* once, and nothing fails but a request's wait for a connection.          *)
(***************************************************************************)
EXTENDS ExplorerCalls, FiniteSets

CONSTANT Scenes  \* [conns |-> connections in the pool, 25 in the code, calls |-> what runs together]

VARIABLES mode, conns, procs

callVars == <<mode, conns, procs>>

\* The calls of the process that stores blocks, and of its trees.
WriterCalls ==
  [store |-> Store, reg |-> storeBlockTxnTree(FALSE, storeTxns), stk |-> storeBlockTxnTree(TRUE, storeTxns),
   reorg |-> TipToSideChain, purge |-> PurgeBestBlocks, open |-> NewChainDB,
   spending |-> updateSpendingInfoInAllAddresses, side |-> MissingSideChainBlocks,
   page |-> exp_Store, mempool |-> StoreMPData, pool |-> ChargePoolInfoCache,
   skaSupply |-> skaSupplyUpdater, status |-> StatusNtfnHandler, nodeHeight |-> UpdateNodeHeight]
ChartCalls == [i \in {"chart" \o ToString(n) : n \in 1..9} |->
                 RegisterCharts[CHOOSE n \in 1..9 : i = "chart" \o ToString(n)]]

\* What else the synchronization, the indexing and the interfaces of ChainDB call.
OtherCalls ==
  [BlockFlags |-> BlockFlags, BlockChainDbID |-> BlockChainDbID,
   BlockChainDbIDNoCancel |-> BlockChainDbIDNoCancel, HashDB |-> HashDB,
   HeightHashDB |-> HeightHashDB, HeightDBLegacy |-> HeightDBLegacy, HashDBLegacy |-> HashDBLegacy,
   HeightHashDBLegacy |-> HeightHashDBLegacy, BlockTransactions |-> BlockTransactions,
   Transaction |-> Transaction, missedVotesForBlockRange |-> missedVotesForBlockRange,
   VoutValue |-> VoutValue, VoutValues |-> VoutValues, TransactionBlock |-> TransactionBlock,
   AgendaVoteCounts |-> AgendaVoteCounts, AllAgendas |-> AllAgendas,
   AddressTransactionsAllMerged |-> AddressTransactionsAllMerged,
   AddressHistoryAll |-> AddressHistoryAll, GetBlockSKAFees |-> GetBlockSKAFees,
   DecodeRawTransaction |-> DecodeRawTransaction, GetSummary |-> GetSummary,
   CurrentDifficulty |-> CurrentDifficulty, VinsForTx |-> VinsForTx, VoutsForTx |-> VoutsForTx,
   exp_Height |-> exp_Height, LastBlock |-> LastBlock, MempoolID |-> MempoolID,
   setIBDComplete |-> setIBDComplete, deleteDuplicateVins |-> deleteDuplicateVins,
   deleteDuplicateVouts |-> deleteDuplicateVouts, deleteDuplicateTxns |-> deleteDuplicateTxns,
   deleteDuplicateAgendas |-> deleteDuplicateAgendas,
   deleteDuplicateAgendaVotes |-> deleteDuplicateAgendaVotes, retrieveUTXOs |-> retrieveUTXOs,
   updateBlockNextByHash |-> updateBlockNextByHash,
   updateBlockNextByNextHash |-> updateBlockNextByNextHash, DropTables |-> DropTables,
   AnalyzeAllTables |-> AnalyzeAllTables, AnalyzeTable |-> AnalyzeTable,
   CheckDefaultTimeZone |-> CheckDefaultTimeZone, PaginationCtx |-> PaginationCtx,
   BlockDateQueryCtx |-> BlockDateQueryCtx, BlockHashLatestCtx |-> BlockHashLatestCtx,
   HandleApiRequestsOnSync |-> HandleApiRequestsOnSync]

\* Steps another process may wait for, or wait behind.
Shares == Takes \cup Gives \cup {"cancel", "lock", "unlock", "rlock", "peek", "join", "spawn", "return", "fail"}

\* What a program holds before its step i.
Depth(prog, i) ==
  LET before(ops) == Cardinality({j \in 1..i - 1 : prog[j].op \in ops})
  IN  before(Keeps \cup {"lock", "rlock"}) - before(Gives \cup {"unlock", "cancel"})

\* A process that holds nothing and gives back at once what it takes can wait,
\* but nobody waits for it.
Matters(prog, i) ==
  LET AtOnce(j) == Depth(prog, j) = 0 /\ j + 2 <= Len(prog) /\ prog[j].op \in Keeps /\ prog[j + 2].op \in Gives
  IN  /\ prog[i].op \in Shares
      /\ Depth(prog, i) = 0 => prog[i].op \notin {"row", "exec", "peek"}
      /\ ~AtOnce(i) /\ (i > 2 => ~AtOnce(i - 2))
Marked(prog) == <<>> \o [i \in 1..Len(prog) |-> [prog[i] EXCEPT !.seen = Matters(prog, i)]]

\* All calls by name, and whether they serve an HTTP request.
AllCalls == WebRoutes @@ WriterCalls @@ ChartCalls @@ OtherCalls
Programs ==
  <<>> @@ [c \in DOMAIN AllCalls |-> [request |-> c \in DOMAIN WebRoutes, steps |-> Marked(Steps(AllCalls[c]))]]

\* The steps before the first and after the last.
Unseen(op) == [Step(op, "", 0) EXCEPT !.seen = FALSE]

\* A process about to make a call, and one that does not exist yet.
Start(call) ==
  [call |-> call, pc |-> 0, step |-> Unseen("call"), request |-> FALSE, held |-> <<>>, locks |-> {}, reads |-> {},
   answers |-> 0, state |-> "run"]
NotStarted(call) == [Start(call) EXCEPT !.state = "idle"]

\* A process that goes on at its next step.
Goto(q, prog) ==
  [q EXCEPT !.request = prog.request,
            !.step = IF q.pc <= Len(prog.steps) THEN prog.steps[q.pc] ELSE Unseen("end")]

CallsInit ==
  \/ /\ mode = "alone" /\ conns = 3
     /\ \E c \in DOMAIN Programs : procs = [p \in {"main"} |-> Start(c)]
  \/ \E s \in Scenes :
       /\ mode = "together" /\ conns = s.conns
       /\ procs = [main |-> Start(s.calls[1]), reg |-> NotStarted("reg"), stk |-> NotStarted("stk"),
                   a |-> Start(s.calls[2]), b |-> Start(s.calls[3])]

Procs == DOMAIN procs
Running(p) == procs[p].state = "run"
Now(p) == procs[p].step
At(p, ops) == Running(p) /\ Now(p).op \in ops

\* The pool and the mutexes as the processes leave them.
InUse == LET n(p) == Len(procs[p].held)
         IN  IF mode = "alone" THEN n("main") ELSE n("main") + n("reg") + n("stk") + n("a") + n("b")
Free == InUse < conns
Writes(m) == \E p \in Procs : m \in procs[p].locks
Reads(m) == \E p \in Procs : m \in procs[p].reads
\* A writer that waits keeps new readers out.
Pending(m) == \E p \in Procs : At(p, {"lock"}) /\ Now(p).lock = m

Joined == mode = "together" => \A t \in {"reg", "stk"} : procs[t].state \in {"ok", "failed"}

\* Whether the step of p can be taken, and whether anybody else can tell.
CanGo(p) ==
  LET s == Now(p)
  IN  CASE s.op \in Takes -> Free
        [] s.op = "lock" -> ~Writes(s.lock) /\ ~Reads(s.lock)
        [] s.op \in {"rlock", "peek"} -> ~Writes(s.lock) /\ ~Pending(s.lock)
        [] s.op = "join" -> Joined
        [] s.op = "fail" -> FALSE
        [] OTHER -> TRUE
\* What a step that works does to the process.
Pop(s) == SubSeq(s, 1, Len(s) - 1)
Done(p, s) ==
  LET q == procs[p]
      held == CASE s.op \in Keeps -> Append(q.held, s.op)
                [] s.op \in Gives -> Pop(q.held)
                [] s.op = "cancel" /\ q.held # <<>> -> Pop(q.held)
                [] OTHER -> q.held
  IN  [q EXCEPT !.held = held,
                !.locks = CASE s.op = "lock" -> @ \cup {s.lock} [] s.op = "unlock" -> @ \ {s.lock} [] OTHER -> @,
                !.reads = CASE s.op = "rlock" -> @ \cup {s.lock} [] s.op = "unlock" -> @ \ {s.lock} [] OTHER -> @,
                !.answers = IF s.op = "write" THEN @ + 1 ELSE @,
                !.state = IF s.op = "return" THEN "ok" ELSE @]

\* A step is taken; a branch may leave out what follows.
Advance(p) ==
  LET s == Now(p)
      q == Done(p, s)
      ends == s.op = "end"
  IN  IF ~Running(p) \/ ~CanGo(p) THEN {}
      ELSE IF ends THEN {[q EXCEPT !.state = "ok"]}
      ELSE {[q EXCEPT !.pc = @ + 1 + n] : n \in IF s.op = "branch" THEN {0, s.jump} ELSE {s.jump}}

\* A step fails: the deferred closes, rollbacks and unlocks of that path run,
\* and the call returns, panics or goes on.
Failed(p) ==
  LET s == Now(p)
      q == procs[p]
      \* A commit that fails has ended its transaction.
      held == IF s.op = "commit" THEN Pop(q.held) ELSE q.held
      undone == IF s.undo > Len(held) THEN Len(held) ELSE s.undo
  IN  [q EXCEPT !.held = SubSeq(held, 1, Len(held) - undone),
                !.locks = @ \ s.unlocks, !.reads = @ \ s.unlocks, !.answers = @ + s.answers,
                !.pc = @ + s.skip,
                !.state = IF s.skip > 0 THEN "run" ELSE IF s.panics THEN "panicked" ELSE "failed"]

\* Together only the error paths and the deadline of a request that waits for
\* a connection make a step fail.  A tree that failed makes StoreBlock fail
\* when it joins them.
MayFailNow(p) ==
  /\ At(p, MayFail \cup {"join"})
  /\ IF mode = "alone" THEN At(p, Takes) => Free
     ELSE At(p, {"fail"}) \/ (At(p, Timed) /\ procs[p].request /\ ~Free)
Fault(p) == IF MayFailNow(p) THEN {Failed(p)} ELSE {}

\* Whose turn it is: first those whose step nobody notices.
Turns ==
  LET first == {p \in Procs : Running(p) /\ CanGo(p) /\ ~Now(p).seen}
  IN  IF mode = "together" /\ first # {} THEN {CHOOSE p \in first : TRUE} ELSE Procs

CallsNext ==
  \E p \in Turns : \E q \in Advance(p) \cup Fault(p) :
    /\ procs' = [r \in Procs |->
         IF r = p THEN Goto(q, Programs[q.call])
         ELSE IF At(p, {"spawn"}) /\ r \in {"reg", "stk"} THEN Start(r)
         ELSE procs[r]]
    /\ UNCHANGED <<mode, conns>>

CallsSpec == CallsInit /\ [][CallsNext]_callVars

Returned(p) == procs[p].state \in {"ok", "failed", "panicked"}
HoldsNothing(p) == procs[p].held = <<>> /\ procs[p].locks = {} /\ procs[p].reads = {}

\* The steps from whose failure storeTxns returns with its transaction open.
InsertsTxns(p) ==
  LET before == Len(Steps(Each(Opt(Try(retrieveTxOutData(Exec)))))) + Len(Steps(storeTxns)) - Len(Steps(insertTxnsDbTxn)) - 1
  IN  procs[p].call \in {"reg", "stk"} /\ procs[p].pc \in before + 1..before + Len(Steps(insertTxnsDbTxn))

\* No call leaves a connection of the pool or a mutex behind, whichever of its
\* steps fail: the deferred closeRows, Rollback and Unlock of each path give
\* back all that was taken on it.  Only storeTxns has a path that does not.
NoLeak == \A p \in Procs : Returned(p) /\ ~InsertsTxns(p) => HoldsNothing(p)

\* The same of every path: "connection leaked: InUse=%d" is what
\* address_balance_cleanup_test.go looks for.
NoConnectionLost == \A p \in Procs : Returned(p) => HoldsNothing(p)

\* A request never waits for a second connection while it keeps one, so that
\* any number of requests on a pool of any size make progress.
RequestsNeverNest ==
  \A p \in Procs : At(p, Takes) /\ procs[p].request => procs[p].held = <<>>

\* Routes on which some path writes no response or two.
AnswersOtherwise == {"api/agendas", "api/address/exists", "api/tx/swaps", "insight/tx/txs"}

\* A request that ends has been answered exactly once, on every path through
\* its middlewares and its handler: no http.Error without the return after it,
\* no return without a response, but for the routes above.
OneResponse ==
  \A p \in Procs :
    /\ procs[p].state \in {"ok", "failed"} /\ procs[p].request
    /\ procs[p].call \notin AnswersOtherwise
    => procs[p].answers = 1

\* Calls that use the nil of a failed request: GetTransactionsForBlockByHash,
\* behind six routes, the visual blocks, which trim each block of
\* GetExplorerFullBlocks, and the page's Store.
NilUsed ==
  {"page", "visualblocks"} \cup {"api/block/" \o b \o t : b \in {"best", "hash", "idx"}, t \in {"/tx", "/txCount"}}

\* Nowhere else is the result of a failed request used before it is tested.
NilTested == \A p \in Procs : procs[p].state = "panicked" => procs[p].call \in NilUsed

\* While a block is stored, the page and the charts are updated and requests
\* are served, somebody can always go on: the connections kept and the mutexes
\* taken while others are waited for never form a circle.  The two trees of a
\* block need a second connection each (the agendas, the swaps), and three
\* are enough; with two they can wait for each other.
NobodyStuck ==
  (\E p \in Procs : Running(p)) =>
    \E p \in Procs :
      /\ Running(p)
      /\ CanGo(p) \/ At(p, {"fail"}) \/ (At(p, Timed) /\ procs[p].request)
=============================================================================
