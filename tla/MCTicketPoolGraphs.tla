------------------------- MODULE MCTicketPoolGraphs -------------------------
(* TicketPoolGraphs for TLC: requests are interchangeable. *)
EXTENDS TicketPoolGraphs

ClientSymmetry == Permutations(Clients)
=============================================================================
