--------------------------- MODULE ChainFollower ---------------------------
(***************************************************************************)
(* What a component that follows the node's best chain promises: it is at  *)
(* one block, and goes to a child of it or back to its parent.             *)
(***************************************************************************)
EXTENDS BlockTree

VARIABLE tip

Init == tip \in Blocks

Extend(b) == b # Genesis /\ Parent(b) = tip /\ tip' = b

Retreat == tip # Genesis /\ tip' = Parent(tip)

Next == Retreat \/ \E b \in Blocks : Extend(b)

Spec == Init /\ [][Next]_tip
=============================================================================
