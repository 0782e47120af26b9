---------------------------- MODULE MCBlockTree ----------------------------
(* The chain g-r1-r2 that forks into a3-a4-a5 and b3-b4.  Miners m and n     *)
(* have blocks on both branches, p has only b3.  Transaction x of r2 is mined  *)
(* again above b3, y of a3 above a4, or by a4 itself; both branches have the   *)
(* vote s.                                                                   *)

MCBlocks == {"g", "r1", "r2", "a3", "a4", "a5", "b3", "b4"}
MCChain ==
    [b \in MCBlocks |->
        CASE b = "g"  -> <<>>
          [] b = "r1" -> <<"r1">>
          [] b = "r2" -> <<"r1", "r2">>
          [] b = "a3" -> <<"r1", "r2", "a3">>
          [] b = "a4" -> <<"r1", "r2", "a3", "a4">>
          [] b = "a5" -> <<"r1", "r2", "a3", "a4", "a5">>
          [] b = "b3" -> <<"r1", "r2", "b3">>
          [] b = "b4" -> <<"r1", "r2", "b3", "b4">>]
MCMiners == {"m", "n", "p"}
MCTxs == {"x", "y", "s"}
MCMinedAbove == [b \in MCBlocks |-> IF b \in {"r2", "b4"} THEN {"x"} ELSE {}]
MCMinedAboveBoth == [b \in MCBlocks |-> IF b \in {"a3", "a5"} THEN {"y"} ELSE MCMinedAbove[b]]
MCMinedAtOnce == [b \in MCBlocks |-> IF b \in {"a3", "a4"} THEN {"y"} ELSE MCMinedAbove[b]]
MCStakeTxs == [b \in MCBlocks |-> IF b \in {"a3", "b3"} THEN {"s"} ELSE {}]
MCMiner == [b \in MCBlocks |-> IF b = "b3" THEN "p" ELSE IF b \in {"r1", "a3", "b4"} THEN "m" ELSE "n"]
=============================================================================
