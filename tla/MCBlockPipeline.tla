-------------------------- MODULE MCBlockPipeline --------------------------
(* BlockPipeline on the chain g-r1 that forks into a2-a3 and b2-b3.         *)
EXTENDS BlockPipeline

MCBlocks == {"g", "r1", "a2", "a3", "b2", "b3"}
MCChain ==
    [b \in MCBlocks |->
        CASE b = "g"  -> <<>>
          [] b = "r1" -> <<"r1">>
          [] b = "a2" -> <<"r1", "a2">>
          [] b = "a3" -> <<"r1", "a2", "a3">>
          [] b = "b2" -> <<"r1", "b2">>
          [] b = "b3" -> <<"r1", "b2", "b3">>]
=============================================================================
