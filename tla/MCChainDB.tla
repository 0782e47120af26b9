----------------------------- MODULE MCChainDB -----------------------------
(* ChainDB on the blocks of MCBlockTree.                                     *)
EXTENDS ChainDB, MCBlockTree
=============================================================================
