----------------------------- MODULE MCServices -----------------------------
(***************************************************************************)
(* CallPool and Mempool for TLC. They share no state: each behavior is one *)
(* of the part named by `component', with the variables of the other at    *)
(* rest.                                                                   *)
(*                                                                         *)
(* The scenes of CallPool are the page, requests and a chart on a single   *)
(* connection, and the storing of a block beside chart updates or balance  *)
(* requests on three. All votes in the mempool are of one ticket and on    *)
(* the first block to come.                                                *)
(***************************************************************************)
EXTENDS CallPool, Mempool

VARIABLE component

MCScenes ==
  {[conns |-> 1, calls |-> <<"page", "home", "chart1">>],
   [conns |-> 1, calls |-> <<"page", "home", "chart7">>],
   [conns |-> 3, calls |-> <<"store", "chart1", "chart7">>],
   [conns |-> 3, calls |-> <<"store", "api/address/totals", "api/address/totals">>]}

MCTicket == [v \in Votes |-> "ticket"]
MCVotesOn == [v \in Votes |-> 1]

CallsAtRest == mode = "none" /\ conns = 0 /\ procs = <<>>

MempoolAtRest ==
    /\ clock = 0 /\ accepted = <<>> /\ queue = <<>> /\ jobs = <<>> /\ fresh = FALSE /\ faults = 0
    /\ node = [pool |-> {}, block |-> 0, time |-> 0, arrival |-> 0]
    /\ mon = Inventory(0, 0, {})

ServicesInit ==
    \/ component = "calls" /\ CallsInit /\ MempoolAtRest
    \/ component = "mempool" /\ Init /\ CallsAtRest

ServicesNext ==
    \/ component = "calls" /\ CallsNext /\ UNCHANGED <<component, vars>>
    \/ component = "mempool" /\ Next /\ UNCHANGED <<component, callVars>>

ServicesSpec == ServicesInit /\ [][ServicesNext]_<<component, vars, callVars>>

(* Votes are interchangeable. *)
Symmetric == Permutations(Votes)
=============================================================================
