----------------------------- MODULE BlockTree -----------------------------
(***************************************************************************)
(* The blocks the node may ever announce, with their chains: what the      *)
(* explorer knows of a block through its header (height and previous       *)
(* block).  The components that follow the chain are specified over it.    *)
(***************************************************************************)
EXTENDS Integers, Sequences

CONSTANTS
    Blocks, Genesis,
    NoBlock,    \* no block, the zero hash
    Chain,      \* Chain[b]: the blocks from height 1 up to b
    MaxHeight   \* bound: height of the highest block

ASSUME HeightAssumption == MaxHeight \in Nat

ASSUME ChainAssumption ==
    /\ Genesis \in Blocks /\ NoBlock \notin Blocks
    /\ Chain \in [Blocks -> Seq(Blocks)]
    /\ Chain[Genesis] = <<>>
    /\ \A b \in Blocks \ {Genesis} : Len(Chain[b]) \in 1 .. MaxHeight /\ Chain[b][Len(Chain[b])] = b
    /\ \A b \in Blocks : \A i \in 1 .. Len(Chain[b]) : Chain[Chain[b][i]] = SubSeq(Chain[b], 1, i)

Height(b) == Len(Chain[b])
Parent(b) == IF Height(b) <= 1 THEN Genesis ELSE Chain[b][Height(b) - 1]
BlockAt(d, k) == IF k = 0 THEN Genesis ELSE d[k]
IsAncestor(a, b) == a = Genesis \/ \E i \in 1 .. Height(b) : Chain[b][i] = a
=============================================================================
