----------------------------- MODULE AddressRows -----------------------------
(***************************************************************************)
(* The pages of an address: the rows of the addresses table cut into pages *)
(* for a view, on two paths. On a cache hit the rows are filtered by       *)
(* db/cache (AddressCacheItem.Transactions), on a miss by db/dbtypes       *)
(* (SliceAddressRows); merged views combine the rows of a transaction. A   *)
(* reader pages through a view, and each page may be a hit or a miss.      *)
(*                                                                         *)
(* A row is a transaction, a direction, whether a credit is spent          *)
(* (matching_tx_hash), a coin and a value. Rows come in the order of the   *)
(* table query, which keeps the rows of a transaction together.            *)
(***************************************************************************)
EXTENDS Integers, Sequences, FiniteSets, SequencesExt

CONSTANTS Txs,        \* transactions, numbered in the order of block time and hash
          TxType,     \* TxType[t]: the type of the rows of transaction t
          Coins,      \* coin types; 0 is VAR, 255 none (AllCoins)
          Values,     \* values of outputs
          MaxRows,    \* most rows of the address
          PageSizes   \* numbers of rows a reader asks for

VARIABLES rows,     \* the rows of the address, cached or in the table
          view,     \* the view that is read
          coin,     \* the coin that is read, or AllCoins
          size,     \* rows asked for per page
          offset,   \* rows already read
          out,      \* the rows of the pages read so far
          more,     \* whether the reader goes on
          missed    \* whether a page was a cache miss

vars == <<rows, view, coin, size, offset, out, more, missed>>

AllCoins == 255

Views == {"all", "credit", "debit", "unspent", "merged", "merged_credit", "merged_debit"}

IsMerged(v) == v \in {"merged", "merged_credit", "merged_debit"}

Row == [tx: Txs, funding: BOOLEAN, spent: BOOLEAN, coin: Coins, value: Values]

InTableOrder(rs) == IsSorted(rs, LAMBDA a, b: a.tx <= b.tx)

Spent(rs, c, v, t) == {i \in DOMAIN rs : rs[i].funding /\ rs[i].spent /\ rs[i].coin = c /\ rs[i].value = v /\ rs[i].tx <= t}
DebitsAfter(rs, c, v, t) == {i \in DOMAIN rs : ~rs[i].funding /\ rs[i].coin = c /\ rs[i].value = v /\ rs[i].tx < t}

\* Newest rows come first. A transaction has one coin; every debit spends a
\* credit of an older transaction, and every spent credit has its debit.
TableRows ==
    {rs \in BoundedSeq(Row, MaxRows) :
        /\ InTableOrder(rs)
        /\ \A i, j \in DOMAIN rs : rs[i].tx = rs[j].tx => rs[i].coin = rs[j].coin
        /\ \A i \in DOMAIN rs : ~rs[i].funding => rs[i].spent
        /\ \A c \in Coins, v \in Values, t \in Txs : Cardinality(Spent(rs, c, v, t)) <= Cardinality(DebitsAfter(rs, c, v, t))
        /\ \A c \in Coins, v \in Values :
              Cardinality({i \in DOMAIN rs : rs[i].funding /\ rs[i].spent /\ rs[i].coin = c /\ rs[i].value = v})
                = Cardinality({i \in DOMAIN rs : ~rs[i].funding /\ rs[i].coin = c /\ rs[i].value = v})}

-----------------------------------------------------------------------------
(* Views that are not merged. *)

Credits(rs) == SelectSeq(rs, LAMBDA r: r.funding)
Debits(rs) == SelectSeq(rs, LAMBDA r: ~r.funding)
UnspentCredits(rs) == SelectSeq(rs, LAMBDA r: r.funding /\ ~r.spent)

\* addressRows and SliceAddressRowsAll: the range itself.
SliceAll(rs, N, off) ==
    SubSeq(rs, off + 1, IF off + N > Len(rs) THEN Len(rs) ELSE off + N)

\* The loop of the other views over the rows of its kind: skip off of them,
\* then take rows until there are limit of them.
SkipAndTake(ofKind, limit, off) ==
    LET step(st, r) ==
            CASE st.full -> st
              [] ~st.full /\ st.skipped < off -> [st EXCEPT !.skipped = @ + 1]
              [] OTHER -> [st EXCEPT !.page = Append(@, r), !.full = Len(st.page) + 1 = limit]
    IN FoldLeft(step, [skipped |-> 0, page |-> <<>>, full |-> FALSE], ofKind).page

\* The number of rows to take is cut to the number of the counted rows;
\* nothing is returned when off is past them.
SliceKind(counted, ofKind, N, off) ==
    IF off >= Len(counted) THEN <<>>
    ELSE SkipAndTake(ofKind, IF Len(counted) < N THEN Len(counted) ELSE N, off)

-----------------------------------------------------------------------------
(* Merged views. *)

WrongDirection(v, r) ==
    \/ v = "merged_credit" /\ ~r.funding
    \/ v = "merged_debit" /\ r.funding

\* AddressRowMerged.add: credits and debits are added up apart.
AddToMerged(mr, r) ==
    [mr EXCEPT !.count = @ + 1,
               !.credit = @ + IF r.funding THEN r.value ELSE 0,
               !.debit = @ + IF r.funding THEN 0 ELSE r.value]

NewMerged(r) == AddToMerged([tx |-> r.tx, coin |-> r.coin, count |-> 0, credit |-> 0, debit |-> 0], r)

\* MergeRowsRange and MergeRowsCompactRange: off transactions are skipped,
\* N merged rows are begun, and rows of a transaction that has been begun are
\* added to it.
MergeRange(rs, N, off, v) ==
    LET step(st, r) ==
            LET begun == {i \in DOMAIN st.page : st.page[i].tx = r.tx}
            IN CASE WrongDirection(v, r) -> st
                 [] ~WrongDirection(v, r) /\ begun /= {} ->
                        [st EXCEPT !.page = [i \in DOMAIN @ |-> IF i \in begun THEN AddToMerged(@[i], r) ELSE @[i]]]
                 [] ~WrongDirection(v, r) /\ begun = {} /\ Len(st.page) = N -> st
                 [] ~WrongDirection(v, r) /\ begun = {} /\ Len(st.page) /= N /\ Cardinality(st.seen) < off ->
                        [st EXCEPT !.seen = @ \cup {r.tx}]
                 [] OTHER -> [st EXCEPT !.page = Append(@, NewMerged(r))]
    IN FoldLeft(step, [seen |-> {}, page |-> <<>>], rs).page

\* The sign and the size of the net value.
UncompactMergedRows(ms) ==
    [i \in DOMAIN ms |->
        [tx |-> ms[i].tx, coin |-> ms[i].coin, merged |-> ms[i].count,
         funding |-> ms[i].credit > ms[i].debit,
         value |-> IF ms[i].credit > ms[i].debit THEN ms[i].credit - ms[i].debit
                                                 ELSE ms[i].debit - ms[i].credit]]

MergeRowsCompactRange(rs, N, off, v) == MergeRange(rs, N, off, v)

MergeRowsRange(rs, N, off, v) == MergeRange(rs, N, off, v)

\* With a coin, the rows of the coin are selected first, cached or not.
OfCoin(rs, c) == SelectSeq(rs, LAMBDA r: c = AllCoins \/ r.coin = c)

\* AddressRowsMerged, for Insight: a page without end. The rows in the cache
\* are asked for coin 0, those of the table are all rows.
MergeRowsCompact(rs) == MergeRange(rs, Len(rs) + 1, 0, "merged")
MergeRows(rs) == MergeRange(rs, Len(rs) + 1, 0, "merged")

MergedHit(rs) == MergeRowsCompact(OfCoin(rs, 0))
MergedMiss(rs) == MergeRows(rs)

-----------------------------------------------------------------------------
(* The two paths to a page. *)

creditAddressRowsNoSkip(rs, N, off) ==  \* Mutant: takes from the start for every page.
    SliceKind(Credits(rs), Credits(rs), N, 0)

creditAddressRows(rs, N, off) == SliceKind(Credits(rs), Credits(rs), N, off)
debitAddressRows(rs, N, off) == SliceKind(Debits(rs), Debits(rs), N, off)
unspentCreditAddressRows(rs, N, off) == SliceKind(UnspentCredits(rs), UnspentCredits(rs), N, off)

\* AddressCacheItem.Transactions: the rows are cached.
HitPage(rs, N, off, v) ==
    CASE off >= Len(rs) -> <<>>
      [] off < Len(rs) /\ v = "all" -> SliceAll(rs, N, off)
      [] off < Len(rs) /\ v = "credit" -> creditAddressRows(rs, N, off)
      [] off < Len(rs) /\ v = "debit" -> debitAddressRows(rs, N, off)
      [] off < Len(rs) /\ v = "unspent" -> unspentCreditAddressRows(rs, N, off)
      [] off < Len(rs) /\ IsMerged(v) -> UncompactMergedRows(MergeRowsCompactRange(rs, N, off, v))

SliceAddressCreditRows(rs, N, off) == SliceKind(Credits(rs), Credits(rs), N, off)
SliceAddressDebitRows(rs, N, off) == SliceKind(Debits(rs), Debits(rs), N, off)

\* Unspent credits are counted, but the loop does not look at spent.
SliceAddressUnspentCreditRows(rs, N, off) == SliceKind(UnspentCredits(rs), Credits(rs), N, off)

\* SliceAddressRows: the rows were just read from the table.
MissPage(rs, N, off, v) ==
    CASE off >= Len(rs) -> <<>>
      [] off < Len(rs) /\ v = "all" -> SliceAll(rs, N, off)
      [] off < Len(rs) /\ v = "credit" -> SliceAddressCreditRows(rs, N, off)
      [] off < Len(rs) /\ v = "debit" -> SliceAddressDebitRows(rs, N, off)
      [] off < Len(rs) /\ v = "unspent" -> SliceAddressUnspentCreditRows(rs, N, off)
      [] off < Len(rs) /\ IsMerged(v) -> UncompactMergedRows(MergeRowsRange(rs, N, off, v))

-----------------------------------------------------------------------------
(* The balance of an address, from its rows and from the table. *)

SumOf(rs) == FoldLeft(LAMBDA acc, r: acc + r.value, 0, rs)
SumOfTypes(rs, types) == SumOf(SelectSeq(rs, LAMBDA r: TxType[r.tx] \in types))

\* FromStake and ToStake, a fraction.
Fraction(part, whole) == IF part = 0 THEN <<0, 1>> ELSE <<part, whole>>

ReducedBalanceOfCredits(rs) ==  \* Mutant: counts every credit as unspent.
    [c \in {r.coin : r \in ToSet(rs)} |->
        LET received == SumOf(Credits(OfCoin(rs, c)))
            sent == SumOf(Debits(OfCoin(rs, c)))
        IN [numUnspent |-> Len(Credits(OfCoin(rs, c))),
            numSpent |-> Len(Debits(OfCoin(rs, c))),
            received |-> received, spent |-> sent, unspent |-> received - sent,
            fromStake |-> Fraction(0, 1), toStake |-> Fraction(0, 1)]]

\* ReduceAddressHistory, for the balance: what is unspent is what was
\* received without what was sent. The stake fractions are returned beside the
\* balance, and AddressHistory discards them.
ReducedBalance(rs) ==
    [c \in {r.coin : r \in ToSet(rs)} |->
        LET received == SumOf(Credits(OfCoin(rs, c)))
            sent == SumOf(Debits(OfCoin(rs, c)))
        IN [numUnspent |-> Len(UnspentCredits(OfCoin(rs, c))),
            numSpent |-> Len(Debits(OfCoin(rs, c))),
            received |-> received, spent |-> sent, unspent |-> received - sent,
            fromStake |-> Fraction(0, 1), toStake |-> Fraction(0, 1)]]

\* Credits that are neither mined nor change of a transaction of the address.
Income(rs) ==
    SelectSeq(Credits(rs), LAMBDA r: /\ TxType[r.tx] /= "BlockRewardPoW"
                                     /\ \A d \in ToSet(Debits(rs)) : d.tx /= r.tx)

\* retrieveAddressBalance: the groups of the balance query by type, coin,
\* direction and matching transaction. The spent SKA atoms fall back to what
\* was received and is not unspent; only VAR is spent to stake.
QueriedBalance(rs) ==
    [c \in {r.coin : r \in ToSet(rs)} |->
        LET unspent == SumOf(UnspentCredits(OfCoin(rs, c)))
            received == SumOf(Credits(OfCoin(rs, c)))
            spent == SumOf(Debits(OfCoin(rs, c)))
            income == Income(OfCoin(rs, c))
        IN [numUnspent |-> Len(UnspentCredits(OfCoin(rs, c))),
            numSpent |-> Len(Debits(OfCoin(rs, c))),
            received |-> received,
            spent |-> IF c /= 0 /\ spent = 0 THEN received - unspent ELSE spent,
            unspent |-> unspent,
            fromStake |-> Fraction(SumOfTypes(income, {"BlockRewardPoS", "SSFeePoS"}), SumOf(income)),
            toStake |-> IF c /= 0 THEN Fraction(0, 1)
                        ELSE Fraction(SumOfTypes(Debits(OfCoin(rs, c)), {"TicketPurchase", "SSFeePoS", "SSGen", "SSRtx"}),
                                      spent)]]

-----------------------------------------------------------------------------
(* CountTransactions, from which the links to the pages are made. *)

\* CountMergedRowsCompact, and the distinct count of the merged queries.
CountMerged(rs, v) == Cardinality({r.tx : r \in {x \in ToSet(rs) : ~WrongDirection(v, x)}})

SpentOf(bal) == FoldSet(LAMBDA c, acc: acc + bal[c].numSpent, 0, DOMAIN bal)

\* All rows are counted for credits too; debits are counted by the balance.
nonMergedTxnCount(rs, v) ==
    CASE v \in {"all", "credit"} -> Len(rs)
      [] v = "debit" -> SpentOf(QueriedBalance(rs))

CountTransactions(rs, v) == IF IsMerged(v) THEN CountMerged(rs, v) ELSE nonMergedTxnCount(rs, v)

-----------------------------------------------------------------------------
Init ==
    /\ rows \in TableRows
    /\ view \in Views
    /\ coin \in Coins \cup {AllCoins}
    /\ size \in PageSizes
    /\ offset = 0 /\ out = <<>> /\ more = TRUE /\ missed = FALSE

\* One page of AddressHistory. A reader stops at a page that is not full.
ReadPage(page) ==
    /\ more
    /\ out' = out \o page
    /\ offset' = offset + size
    /\ more' = (Len(page) = size)
    /\ UNCHANGED <<rows, view, coin, size>>

ReadCached ==
    /\ coin = AllCoins
    /\ ReadPage(HitPage(rows, size, offset, view))
    /\ UNCHANGED missed

ReadTable ==
    /\ coin = AllCoins
    /\ ReadPage(MissPage(rows, size, offset, view))
    /\ missed' = TRUE

ReadCoin ==
    /\ coin /= AllCoins
    /\ ReadPage(MissPage(OfCoin(rows, coin), size, offset, view))
    /\ missed' = TRUE

Next == ReadCached \/ ReadTable \/ ReadCoin

Spec == Init /\ [][Next]_vars

-----------------------------------------------------------------------------
(* What a view is, by definition. *)

RowsOfView(rs, v) ==
    CASE v = "all" -> rs
      [] v = "credit" -> Credits(rs)
      [] v = "debit" -> Debits(rs)
      [] v = "unspent" -> UnspentCredits(rs)
      [] IsMerged(v) ->
            LET kept == SelectSeq(rs, LAMBDA r: ~WrongDirection(v, r))
                txs == SetToSortSeq({r.tx : r \in ToSet(kept)}, LAMBDA a, b: a < b)
                ofTx(t) == SelectSeq(kept, LAMBDA r: r.tx = t)
                net(t) == SumOf(Credits(ofTx(t))) - SumOf(Debits(ofTx(t)))
            IN [i \in DOMAIN txs |->
                   [tx |-> txs[i], coin |-> (CHOOSE r \in ToSet(kept) : r.tx = txs[i]).coin,
                    merged |-> Len(ofTx(txs[i])),
                    funding |-> net(txs[i]) > 0,
                    value |-> IF net(txs[i]) > 0 THEN net(txs[i]) ELSE 0 - net(txs[i])]]

\* Reading a view page by page, each page from the cache or from the table,
\* gives the rows of the view in order, none twice and none left out. Merged
\* views are claimed for their first page (see MergedPages), the unspent view
\* for pages from the cache (MissPage returns spent credits).
PagesAreTheView ==
    \/ IsMerged(view) /\ offset > size
    \/ view = "unspent" /\ missed
    \/ LET all == RowsOfView(OfCoin(rows, coin), view)
       IN IsPrefix(out, all) /\ (more \/ out = all)

\* Refuted, see README: "Note that offset applies to a hypothetical full results slice where there
\* are no repeated transaction hashes" (MergeRowsRange): the pages of a merged
\* view together are the merged view.
MergedPages ==
    IsMerged(view) => IsPrefix(out, RowsOfView(OfCoin(rows, coin), view))

Amounts(bal) ==
    [c \in DOMAIN bal |-> Restrict(bal[c], {"numUnspent", "numSpent", "received", "spent", "unspent"})]

\* The totals shown with the rows agree with them: the counts and amounts that
\* AddressHistory computes from the rows, when it has them all, are those that
\* the query computes, and the count that the links to the pages of a view are
\* made from is no less than the rows of the view, so the links reach every row
\* (for the unspent view CountTransactions returns an error). The stake
\* fractions differ, see BalancesAgree.
TotalsAgree ==
    /\ Amounts(ReducedBalance(rows)) = Amounts(QueriedBalance(rows))
    /\ view /= "unspent" =>
          CountTransactions(OfCoin(rows, coin), view) >= Len(RowsOfView(OfCoin(rows, coin), view))

\* Refuted, see README: "It already has correct Coins map (VAR + all SKA types)" (AddressHistory):
\* the balance computed from the rows, which is then cached, is the queried one.
BalancesAgree == ReducedBalance(rows) = QueriedBalance(rows)

\* Refuted, see README: "AddressRowsMerged gets the merged address rows either from cache or via DB
\* query": the same rows, whichever it is.
MergedRowsAgree == MergedHit(rows) = MergedMiss(rows)
=============================================================================
