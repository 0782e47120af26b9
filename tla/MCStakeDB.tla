----------------------------- MODULE MCStakeDB -----------------------------
(* StakeDB on a fork: a1-a2-a3 and a1-b2-b3, with three tickets that mature,   *)
(* vote and expire differently on the two branches.                         *)
EXTENDS StakeDB

MCBlocks == {"g", "a1", "a2", "a3", "b2", "b3"}
MCChain ==
    [b \in MCBlocks |->
        CASE b = "g"  -> <<>>
          [] b = "a1" -> <<"a1">>
          [] b = "a2" -> <<"a1", "a2">>
          [] b = "a3" -> <<"a1", "a2", "a3">>
          [] b = "b2" -> <<"a1", "b2">>
          [] b = "b3" -> <<"a1", "b2", "b3">>]
MCTickets == 1 .. 3
MCLive ==
    [b \in MCBlocks |->
        CASE b = "g"  -> {}
          [] b = "a1" -> {1}
          [] b = "a2" -> {2}
          [] b = "a3" -> {2, 3}
          [] b = "b2" -> {1, 2}
          [] b = "b3" -> {3}]

(* A fork right above genesis with one long branch: the wrong diff at height  *)
(* 1 is found out only when the pool is advanced past it.                    *)
ForkBlocks == {"g", "a1", "b1", "b2", "b3", "b4"}
ForkChain ==
    [b \in ForkBlocks |->
        CASE b = "g"  -> <<>>
          [] b = "a1" -> <<"a1">>
          [] b = "b1" -> <<"b1">>
          [] b = "b2" -> <<"b1", "b2">>
          [] b = "b3" -> <<"b1", "b2", "b3">>
          [] b = "b4" -> <<"b1", "b2", "b3", "b4">>]
ForkLive ==
    [b \in ForkBlocks |->
        CASE b = "g"  -> {}
          [] b = "a1" -> {1}
          [] b = "b1" -> {2}
          [] b = "b2" -> {3}
          [] b = "b3" -> {2, 3}
          [] b = "b4" -> {1, 2}]
=============================================================================
