------------------------------- MODULE Charts -------------------------------
(***************************************************************************)
(* The chart cache of db/cache/charts.go and the nine updaters db/dcrpg     *)
(* registers with it.  After every stored block a goroutine runs Update:    *)
(* one Fetcher after the other reads the rows above the tip of its own      *)
(* series from the database without any lock, and its Appender then         *)
(* appends them under charts.mtx if stateID, the time of the last block     *)
(* of the charts, is what it was before the query.  The database writer     *)
(* stores the next blocks, and moves blocks to the side chain, meanwhile;   *)
(* the ReorgHandler of the charts truncates them to the common ancestor     *)
(* only after the database has been reorganized.  A clean exit dumps the    *)
(* series to a file that the next start loads.                              *)
(*                                                                          *)
(* A block is its height and the fork it is on; block times are distinct,   *)
(* so the time that stateID compares is the block itself.  Each series is   *)
(* the sequence of the blocks whose values it holds; a value computed while *)
(* one transaction tree of the block was stored and not the other is Half.  *)
(***************************************************************************)
EXTENDS Integers, Sequences, FiniteSets, FiniteSetsExt, SequencesExt

CONSTANTS
    Synced,       \* blocks in the database when the program first starts, the genesis block included
    MaxHeight,    \* bound: no block is above this height
    DiffInterval, \* charts.DiffInterval, the blocks of a stake difficulty window
    MaxReorgs,    \* bound on reorganizations, those while stopped included
    MaxFaults     \* bound on failed queries, interrupted scans and restarts

VARIABLES
    chain,   \* main chain rows of the blocks table, by height
    txs,     \* main chain blocks whose transaction rows are stored
    side,    \* blocks of the blocks table that are off the main chain
    stats,   \* the stats table, one row per height, overwritten in place
    mix,     \* ChainDB.mixSetDiffs: height to the block whose delta it holds
    writer,  \* the goroutine that handles block and reorg signals
    pend,    \* Update goroutines waiting for updateMtx
    upd,     \* the running Update
    series,  \* charts.Blocks, by updater
    windows, \* charts.Windows
    file,    \* the dump, or none
    ok,      \* did the last Update that ended succeed?
    blind,   \* a reorg came between a query and its append and went unseen, and
             \* the charts or the dump they were loaded from may show it
    loading, \* the Update of Load is not done, so no signal is handled yet
    offline, \* the dump that was loaded holds blocks of an old chain
    faults, reorgs

db == <<chain, txs, side, stats, mix>>
charts == <<series, windows>>
counters == <<faults, reorgs>>
vars == <<db, writer, pend, upd, charts, file, ok, blind, loading, offline, counters>>

Block(h, fork) == [h |-> h, fork |-> fork]
NoBlock == [h |-> -1, fork |-> -1]
Half(b) == [h |-> b.h, fork |-> b.fork, tree |-> "one"]
Whole(b) == Block(b.h, b.fork)
Wholes(s) == [i \in DOMAIN s |-> Whole(s[i])]
NoFile == [series |-> <<>>, windows |-> <<>>]
Idle == [pc |-> "idle", new |-> <<>>, ancestor |-> -1]
NoUpdate == [pc |-> "none", i |-> 1, id |-> NoBlock, rows |-> <<>>, cached |-> FALSE]

BlockSeries == {"basic", "supply", "fees", "mixed", "anon", "pool"}

EmptySeries == [s \in BlockSeries |-> <<>>]
EmptyWindows == [Height |-> <<>>, StakeCount |-> <<>>, MissedVotes |-> <<>>]

\* The updaters in the order of registration.
RegisterCharts ==
    <<"basic", "supply", "window", "missed", "fees", "mixed", "anon", "pool", "miners">>

Tip(s) == IF s = <<>> THEN NoBlock ELSE Last(s)
stateID == Tip(series["basic"])
validState(id) == stateID = id

Truncate(s, n) == SubSeq(s, 1, IF n < Len(s) THEN n ELSE Len(s))
zoomSetSnip(ss, n) == [s \in BlockSeries |-> Truncate(ss[s], n)]
windowSetSnip(w, n) ==
    [Height |-> Truncate(w.Height, n), StakeCount |-> Truncate(w.StakeCount, n),
     MissedVotes |-> Truncate(w.MissedVotes, n)]

-----------------------------------------------------------------------------
(* The Fetchers: what the query of each updater returns.                    *)

\* The rows above a height, and above the tip of a series: the rows of a table
\* are by height.
AboveHeight(rows, h) == SubSeq(rows, h + 2, Len(rows))
Above(rows, s) == AboveHeight(rows, Len(s) - 1)
Before(a, b) == a.h < b.h \/ (a.h = b.h /\ a.fork < b.fork)
SortedByHeight(S) ==
    [i \in 1..Cardinality(S) |-> CHOOSE b \in S : Cardinality({a \in S : Before(a, b)}) = i - 1]

retrieveChartBlocks == Above(chain, series["basic"])
retrieveCoinSupply == Above(txs, series["supply"])
BlockFeesAboveHeight == Above(txs, series["basic"])
retrieveBlockFees == Above(txs, series["fees"])
retrievePrivacyParticipation == Above(txs, series["mixed"])
retrievePoolStats == Above(stats, series["pool"])

WindowCursor == IF windows.Height = <<>> THEN -1 ELSE Last(windows.Height) - 1

\* The one query without is_mainchain: blocks of the side chain are counted.
retrieveWindowStats ==
    SortedByHeight({b \in ToSet(chain) \union side : b.h > WindowCursor})

\* The cursor is read after the window updater has moved it.
retrieveMissedVotes == AboveHeight(chain, WindowCursor)

\* The heights the anonymity set is short of.
MissingAnon == Len(series["anon"]) .. Len(series["basic"]) - 1

\* mixSetDiffs is used if it has every height that is missing.
anonymitySetCached == series["basic"] # <<>> /\ MissingAnon \subseteq DOMAIN mix

Fetch(u) ==
    CASE u = "basic"  -> retrieveChartBlocks
      [] u = "supply" -> retrieveCoinSupply
      [] u = "window" -> retrieveWindowStats
      [] u = "missed" -> retrieveMissedVotes
      [] u = "fees"   -> retrieveBlockFees
      [] u = "mixed"  -> retrievePrivacyParticipation
      [] u = "anon"   -> IF anonymitySetCached THEN <<>> ELSE txs
      [] u = "pool"   -> retrievePoolStats
      [] u = "miners" -> <<>>

-----------------------------------------------------------------------------
(* The Appenders.                                                           *)

WindowOf(b) == b.h \div DiffInterval
InWindow(rows, w) == {b \in ToSet(rows) : WindowOf(b) = w}
LastWindow(rows) == IF rows = <<>> THEN -1 ELSE WindowOf(Last(rows))

\* New windows are appended with their first row; the rows of the window that
\* was last are counted afresh.
appendWindowStats(w, rows) ==
    LET current == Len(w.Height) - 1
        top     == Max({current, LastWindow(rows)})
        Opened  == [i \in 1..top + 1 |->
                       IF i <= Len(w.Height) THEN w.Height[i]
                       ELSE Min({b.h : b \in InWindow(rows, i - 1)})]
        Counted == [i \in 1..top + 1 |->
                       IF i - 1 < current \/ InWindow(rows, i - 1) = {}
                       THEN w.StakeCount[i] ELSE InWindow(rows, i - 1)]
    IN  [w EXCEPT !.Height = Opened, !.StakeCount = Counted]

\* Every window met gets an entry; it is set once the row of its last block is read.
appendMissedVotesPerWindow(w, rows) ==
    LET top == Max({Len(w.MissedVotes) - 1, LastWindow(rows)})
        Tally(i) == InWindow(rows, i - 1)
        Entry(i) == IF i <= Len(w.MissedVotes) THEN w.MissedVotes[i] ELSE {}
    IN  [w EXCEPT !.MissedVotes =
            [i \in 1..top + 1 |->
                IF \E b \in Tally(i) : b.h = i * DiffInterval - 1 THEN Tally(i) ELSE Entry(i)]]

\* From the cached deltas, or from the transaction rows of the missing heights.
appendAnonymitySet(rows, cached) ==
    [i \in 1..Max({Len(series["anon"]), Len(series["basic"])}) |->
        CASE i <= Len(series["anon"]) -> series["anon"][i]
          [] i > Len(series["anon"]) /\ cached -> mix[i - 1]
          [] OTHER -> IF i <= Len(rows) THEN rows[i] ELSE NoBlock]

\* The height of the last row must be the length of the data less one.
appendChartBlocksAligned(s) == s = <<>> \/ Last(s).h = Len(s) - 1

-----------------------------------------------------------------------------
(* ChartData.Update, one step per query and one per append.                 *)

UpdateStarts ==
    /\ pend > 0
    /\ upd = NoUpdate
    /\ pend' = pend - 1
    /\ upd' = [NoUpdate EXCEPT !.pc = "fetch"]
    /\ UNCHANGED <<db, writer, charts, file, ok, blind, loading, offline, counters>>

Updater == RegisterCharts[upd.i]

Aborts == upd' = NoUpdate /\ ok' = FALSE /\ loading' = FALSE

Fetcher ==
    /\ upd.pc = "fetch"
    /\ upd' = [upd EXCEPT !.pc = "append", !.id = stateID, !.rows = Fetch(Updater),
                          !.cached = Updater = "anon" /\ anonymitySetCached]
    /\ UNCHANGED <<db, writer, pend, charts, file, ok, blind, loading, offline, counters>>

QueryFails ==
    /\ upd.pc = "fetch"
    /\ faults < MaxFaults
    /\ faults' = faults + 1
    /\ Aborts
    /\ UNCHANGED <<db, writer, pend, charts, file, blind, offline, reorgs>>

StateChanged ==
    /\ upd.pc = "append"
    /\ ~validState(upd.id)
    /\ Aborts
    /\ UNCHANGED <<db, writer, pend, charts, file, blind, offline, counters>>

\* What the appender of u leaves when it has read these rows.
AppendRows(u, rows) ==
    /\ series' = CASE u \in {"basic", "supply", "fees", "mixed", "pool"} ->
                        [series EXCEPT ![u] = @ \o rows]
                   [] u = "anon" -> [series EXCEPT !["anon"] = appendAnonymitySet(rows, upd.cached)]
                   [] OTHER -> series
    /\ windows' = CASE u = "window" -> appendWindowStats(windows, rows)
                    [] u = "missed" -> appendMissedVotesPerWindow(windows, rows)
                    [] OTHER -> windows

\* The cached deltas that the appender uses are deleted.
mixSetDiffsUsed ==
    IF upd.cached THEN [h \in DOMAIN mix \ MissingAnon |-> mix[h]] ELSE mix

Appender ==
    /\ upd.pc = "append"
    /\ validState(upd.id)
    /\ IF upd.cached /\ ~MissingAnon \subseteq DOMAIN mix
       THEN Aborts /\ UNCHANGED <<charts, mix>>
       ELSE /\ AppendRows(Updater, upd.rows)
            /\ mix' = mixSetDiffsUsed
            /\ IF Updater = "basic" /\ upd.rows # <<>> /\ ~appendChartBlocksAligned(series'["basic"])
               THEN Aborts
               ELSE /\ upd' = IF upd.i < Len(RegisterCharts)
                              THEN [NoUpdate EXCEPT !.pc = "fetch", !.i = upd.i + 1]
                              ELSE [NoUpdate EXCEPT !.pc = "lengthen"]
                    /\ UNCHANGED <<ok, loading>>
    /\ UNCHANGED <<chain, txs, side, stats, writer, pend, file, blind, offline, counters>>

\* rows.Next ends early: the rows read so far stay appended.  The anonymity set
\* is appended only once all rows are read.
ScanFails ==
    /\ upd.pc = "append"
    /\ validState(upd.id)
    /\ ~upd.cached
    /\ faults < MaxFaults
    /\ faults' = faults + 1
    /\ IF Updater = "anon" THEN UNCHANGED charts
       ELSE \E n \in 0..Len(upd.rows) : AppendRows(Updater, SubSeq(upd.rows, 1, n))
    /\ Aborts
    /\ UNCHANGED <<db, writer, pend, file, blind, offline, reorgs>>

Shortest(lens) == Min(lens)
BlocksLength(ss) == Shortest({Len(ss[s]) : s \in BlockSeries})
WindowsLength(w) == Shortest({Len(w.Height), Len(w.StakeCount), Len(w.MissedVotes)})

\* Series of unequal lengths are truncated to the shortest; windows are looked
\* at only when there are blocks.
LengthenedSeries(ss) == zoomSetSnip(ss, BlocksLength(ss))
LengthenedWindows(ss, w) == IF BlocksLength(ss) = 0 THEN w ELSE windowSetSnip(w, WindowsLength(w))
LengthenFails(ss, w) == BlocksLength(ss) > 0 /\ WindowsLength(w) = 0

Lengthen ==
    /\ upd.pc = "lengthen"
    /\ series' = LengthenedSeries(series)
    /\ windows' = LengthenedWindows(series, windows)
    /\ ok' = ~LengthenFails(series, windows)
    /\ upd' = NoUpdate
    /\ loading' = FALSE
    /\ UNCHANGED <<db, writer, pend, file, blind, offline, counters>>

-----------------------------------------------------------------------------
(* The goroutine that stores blocks and handles reorganizations.            *)

NewBlock ==
    /\ writer = Idle
    /\ ~loading
    /\ Len(chain) <= MaxHeight
    /\ writer' = [Idle EXCEPT !.pc = "txns", !.new = <<Block(Len(chain), reorgs)>>]
    /\ UNCHANGED <<db, pend, upd, charts, file, ok, blind, loading, offline, counters>>

\* storeBlockTxnTree runs for both trees at once, and storeTxns commits each by
\* itself.  The first commit is visible alone.
StoreOneTree ==
    /\ writer.pc = "txns"
    /\ txs' = Append(txs, Half(Head(writer.new)))
    /\ writer' = [writer EXCEPT !.pc = "tree"]
    /\ UNCHANGED <<chain, side, stats, mix, pend, upd, charts, file, ok, blind, loading, offline, counters>>

\* The other tree, then the delta of the mixed set.
StoreTxns ==
    /\ writer.pc = "tree"
    /\ txs' = Append(Front(txs), Head(writer.new))
    /\ mix' = [h \in DOMAIN mix \union {Head(writer.new).h} |->
                  IF h = Head(writer.new).h THEN Head(writer.new) ELSE mix[h]]
    /\ writer' = [writer EXCEPT !.pc = "row"]
    /\ UNCHANGED <<chain, side, stats, pend, upd, charts, file, ok, blind, loading, offline, counters>>

\* insertBlock.
StoreBlockRow ==
    /\ writer.pc = "row"
    /\ chain' = Append(chain, Head(writer.new))
    /\ writer' = [writer EXCEPT !.pc = "stats"]
    /\ UNCHANGED <<txs, side, stats, mix, pend, upd, charts, file, ok, blind, loading, offline, counters>>

\* insertBlockStats, the last write of the block.  The trigger of a connected
\* block starts an Update; a reorganization ends with the handler of the charts.
StoreBlockStats ==
    /\ writer.pc = "stats"
    /\ LET b == Head(writer.new) IN
         stats' = [h \in 1..Max({Len(stats), b.h + 1}) |-> IF h = b.h + 1 THEN b ELSE stats[h]]
    /\ writer' = CASE Len(writer.new) > 1 -> [writer EXCEPT !.pc = "txns", !.new = Tail(@)]
                   [] Len(writer.new) = 1 /\ writer.ancestor >= 0 ->
                        [writer EXCEPT !.pc = "snip", !.new = <<>>]
                   [] OTHER -> Idle
    /\ pend' = IF writer'.pc = "idle" THEN pend + 1 ELSE pend
    /\ UNCHANGED <<chain, txs, side, mix, upd, charts, file, ok, blind, loading, offline, counters>>

\* The blocks of a new branch on top of the block at height a, one longer than the old.
Branch(a) == [i \in 1..Len(chain) - a |-> Block(a + i, reorgs + 1)]

NewBranch ==
    /\ writer = Idle
    /\ ~loading
    /\ reorgs < MaxReorgs
    /\ Len(chain) <= MaxHeight
    /\ reorgs' = reorgs + 1
    /\ \E a \in 0..Len(chain) - 2 :
          writer' = [pc |-> "side", new |-> Branch(a), ancestor |-> a]
    /\ UNCHANGED <<db, pend, upd, charts, file, ok, blind, loading, offline, faults>>

\* TipToSideChain moves one block at a time, its row before its transactions.
TipToSideChain ==
    /\ writer.pc = "side"
    /\ side' = side \union {Last(chain)}
    /\ chain' = Front(chain)
    /\ writer' = [writer EXCEPT !.pc = "sidetxns"]
    /\ UNCHANGED <<txs, stats, mix, pend, upd, charts, file, ok, blind, loading, offline, counters>>

TipTxnsToSideChain ==
    /\ writer.pc = "sidetxns"
    /\ txs' = Front(txs)
    /\ writer' = [writer EXCEPT !.pc = IF Len(chain) = writer.ancestor + 1 THEN "txns" ELSE "side"]
    /\ UNCHANGED <<chain, side, stats, mix, pend, upd, charts, file, ok, blind, loading, offline, counters>>

ReorgSeriesKeepsOne(ss, ancestor) == zoomSetSnip(ss, ancestor + 2)
ReorgSeries(ss, ancestor) == zoomSetSnip(ss, ancestor + 1)

\* Windows that start above the common ancestor go.
ReorgWindows(w, ancestor) ==
    LET Above1 == {i \in DOMAIN w.Height : w.Height[i] > ancestor}
    IN  IF Above1 = {} THEN w ELSE windowSetSnip(w, Min(Above1) - 1)

ReorgHandler ==
    /\ writer.pc = "snip"
    /\ series' = ReorgSeries(series, writer.ancestor)
    /\ windows' = ReorgWindows(windows, writer.ancestor)
    /\ blind' = (blind \/ (upd.pc = "append" /\ Tip(series'["basic"]) = upd.id))
    /\ writer' = Idle
    /\ UNCHANGED <<db, pend, upd, file, ok, loading, offline, counters>>

-----------------------------------------------------------------------------
(* Exit, restart and Load.                                                  *)

gobject == [series |-> series, windows |-> windows]

\* A clean exit dumps; a crash leaves the old dump, or none if it came while
\* the new one was written.  There is no dump before Load has returned.
Dumps == IF loading THEN {file} ELSE {gobject, file, NoFile}

\* readCacheFile: the dump is lengthened, and dropped if that fails.
LoadedSeries(f) ==
    IF f = NoFile \/ LengthenFails(f.series, f.windows) THEN EmptySeries ELSE LengthenedSeries(f.series)
LoadedWindows(f) ==
    IF f = NoFile \/ LengthenFails(f.series, f.windows) THEN EmptyWindows
    ELSE LengthenedWindows(f.series, f.windows)

\* The program stops and starts again.  The database follows a branch that
\* became the main chain meanwhile, and Load runs an Update.
Restart(dump, a) ==
    /\ LET offchain == IF a = Len(chain) - 1 THEN <<>> ELSE Branch(a)
           kept     == SubSeq(chain, 1, a + 1)
       IN  /\ chain' = kept \o offchain
           /\ txs' = chain'
           /\ side' = IF offchain = <<>> THEN side ELSE side \union ToSet(SubSeq(chain, a + 2, Len(chain)))
           /\ stats' = chain'
           /\ mix' = <<>>
           /\ offline' = (dump # NoFile /\ \E s \in BlockSeries :
                             ~ToSet(Wholes(LoadedSeries(dump)[s])) \subseteq ToSet(chain'))
           /\ reorgs' = IF offchain = <<>> THEN reorgs ELSE reorgs + 1
    /\ file' = dump
    /\ series' = LoadedSeries(dump)
    /\ windows' = LoadedWindows(dump)
    /\ upd' = [NoUpdate EXCEPT !.pc = "fetch"]
    /\ pend' = 0
    /\ ok' = FALSE
    /\ blind' = (blind /\ dump # NoFile)
    /\ loading' = TRUE
    /\ faults' = faults + 1
    /\ UNCHANGED writer

Load ==
    /\ writer = Idle
    /\ faults < MaxFaults
    /\ chain # <<>>
    /\ \E dump \in Dumps, a \in 0..Len(chain) - 1 :
          /\ a < Len(chain) - 1 => reorgs < MaxReorgs /\ Len(chain) <= MaxHeight
          /\ Restart(dump, a)

-----------------------------------------------------------------------------
\* The program first starts, and Load comes after the synchronization.
Init ==
    /\ chain = [i \in 1..Synced |-> Block(i - 1, 0)]
    /\ txs = chain
    /\ side = {}
    /\ stats = chain
    /\ mix = <<>>
    /\ writer = Idle
    /\ pend = 0
    /\ upd = [NoUpdate EXCEPT !.pc = "fetch"]
    /\ series = EmptySeries
    /\ windows = EmptyWindows
    /\ file = NoFile
    /\ ok = FALSE
    /\ blind = FALSE
    /\ offline = FALSE
    /\ loading = TRUE
    /\ faults = 0 /\ reorgs = 0

Next ==
    \/ UpdateStarts \/ Fetcher \/ QueryFails \/ StateChanged \/ Appender \/ ScanFails \/ Lengthen
    \/ NewBlock \/ StoreOneTree \/ StoreTxns \/ StoreBlockRow \/ StoreBlockStats
    \/ NewBranch \/ TipToSideChain \/ TipTxnsToSideChain \/ ReorgHandler
    \/ Load

Spec == Init /\ [][Next]_vars

-----------------------------------------------------------------------------
Quiet == writer = Idle /\ pend = 0 /\ upd = NoUpdate

\* An element of every series is of the block at the height of its index,
\* whatever fails or is reorganized in the middle of an Update: the charts use
\* the index as the height (zoomSet), and appendBlockFees rests on it.
IndexIsHeight ==
    ~blind => \A s \in BlockSeries : \A i \in DOMAIN series[s] : series[s][i].h \in {i - 1, -1}

\* Once the last Update has succeeded and nothing is under way, every series is
\* the main chain (up to one height for all while the blocks of a reorganization
\* wait for the next Update) and the windows start at multiples of DiffInterval: neither a
\* failed Update before it, nor blocks stored or reorganized during it, nor a
\* restart loses or repeats a block.  As long as no query fails, the values are
\* those of both trees of the block, although a query may run between their two
\* commits.  Two cases are excepted because validState
\* and readCacheFile do not see them: a reorganization between a query and its
\* append that leaves the tip of the charts, and one while the program was down.
ChartsAreTheChain ==
    Quiet /\ ok /\ ~blind /\ ~offline =>
        /\ \A s \in BlockSeries :
              /\ Wholes(series[s]) = Truncate(chain, Len(series["basic"]))
              /\ reorgs = 0 => Len(series[s]) = Len(chain)
              /\ faults = 0 => Wholes(series[s]) = series[s]
        /\ \A i \in DOMAIN windows.Height : windows.Height[i] = (i - 1) * DiffInterval

\* Refuted, see README: once the last Update has succeeded and nothing is under way, every value is
\* that of both trees of its block.
ValuesAreWhole ==
    Quiet /\ ok /\ ~blind /\ ~offline =>
        \A s \in BlockSeries : Wholes(series[s]) = series[s]

\* Refuted, see README: once the last Update has succeeded and nothing is under way, the missed votes
\* of a window that has ended are those of the blocks of the main chain in it.
MissedVotesTallied ==
    Quiet /\ ok /\ ~blind /\ ~offline =>
        \A i \in DOMAIN windows.MissedVotes :
            i * DiffInterval <= Len(chain) =>
                windows.MissedVotes[i] = InWindow(chain, i - 1)
=============================================================================
