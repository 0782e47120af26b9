------------------------------ MODULE MCCaches ------------------------------
(***************************************************************************)
(* AddressCache and AddressRows for TLC.  They share no state: each          *)
(* behavior is one of the component named by `part', with the variables of   *)
(* the other at rest.                                                        *)
(***************************************************************************)
EXTENDS AddressCache, TLC

CONSTANTS Txs, TxType, Coins, Values, MaxRows, PageSizes

VARIABLES part, rows, view, coin, size, offset, out, more, missed

rowVars == <<rows, view, coin, size, offset, out, more, missed>>

Row == INSTANCE AddressRows

RowsAtRest ==
    /\ rows = 0 /\ view = 0 /\ coin = 0 /\ size = 0 /\ offset = 0 /\ out = 0
    /\ more = 0 /\ missed = 0

CachesInit ==
    \/ part = "addresses" /\ Init /\ RowsAtRest
    \/ part = "rows" /\ Row!Init /\ Init

CachesNext ==
    \/ part = "addresses" /\ Next /\ UNCHANGED <<part, rowVars>>
    \/ part = "rows" /\ Row!Next /\ UNCHANGED <<part, vars>>

CachesSpec == CachesInit /\ [][CachesNext]_<<part, vars, rowVars>>

(* An address that votes, mines and buys tickets; the first transaction is the newest. *)
MCTxType == <<"TicketPurchase", "BlockRewardPoS", "BlockRewardPoW">>

(* Requests and addresses are interchangeable. *)
Symmetric == Permutations(Clients) \cup Permutations(Addresses)
-----------------------------------------------------------------------------

\* Reading a view page by page, each page from the cache or from the table,
\* gives the rows of the view in order, none twice and none left out. Merged
\* views are claimed for their first page (see MergedPages), the unspent view
\* for pages from the cache (MissPage returns spent credits).
PagesAreTheView == part = "rows" => Row!PagesAreTheView

\* The totals shown with the rows agree with them: the counts and amounts that
\* AddressHistory computes from the rows, when it has them all, are those that
\* the query computes, and the count that the links to the pages of a view are
\* made from is no less than the rows of the view, so the links reach every row
\* (for the unspent view CountTransactions returns an error). The stake
\* fractions differ.
TotalsAgree == part = "rows" => Row!TotalsAgree
=============================================================================
