-------------------------- MODULE BlockTreeProofs --------------------------
(* Facts about chains of blocks that the proofs about the components that    *)
(* follow the chain rest on.                                                 *)
EXTENDS BlockTree, TLAPS

\* A chain is a sequence of blocks no longer than MaxHeight.
LEMMA ChainType ==
    ASSUME NEW b \in Blocks
    PROVE  /\ Chain[b] \in Seq(Blocks)
           /\ Height(b) \in 0 .. MaxHeight
           /\ \A i \in 1 .. Height(b) : Chain[b][i] \in Blocks
<1>1. Chain[b] \in Seq(Blocks)
  BY ChainAssumption
<1>2. Height(b) \in Nat /\ (\A i \in 1 .. Height(b) : Chain[b][i] \in Blocks)
  BY <1>1 DEF Height
<1>3. Height(b) <= MaxHeight
  <2>1. CASE b = Genesis
    BY <2>1, ChainAssumption, HeightAssumption DEF Height
  <2>2. CASE b # Genesis
    BY <2>2, ChainAssumption, HeightAssumption DEF Height
  <2> QED BY <2>1, <2>2
<1> QED BY <1>1, <1>2, <1>3, HeightAssumption

\* Genesis has height 0, and is the only block that does.
LEMMA GenesisHeight ==
    /\ Height(Genesis) = 0
    /\ \A b \in Blocks : Height(b) = 0 => b = Genesis
BY ChainAssumption DEF Height

\* Every block of a chain has the chain below it.
LEMMA OnChain ==
    ASSUME NEW b \in Blocks, NEW i \in 1 .. Height(b)
    PROVE  /\ Chain[b][i] \in Blocks
           /\ Chain[Chain[b][i]] = SubSeq(Chain[b], 1, i)
           /\ Height(Chain[b][i]) = i
           /\ Parent(Chain[b][i]) = BlockAt(Chain[b], i - 1)
<1> DEFINE c == Chain[b][i]
<1>1. c \in Blocks /\ Height(b) \in Nat /\ Chain[b] \in Seq(Blocks)
  BY ChainType, HeightAssumption
<1>2. Chain[c] = SubSeq(Chain[b], 1, i)
  BY ChainAssumption DEF Height
<1>3. /\ Len(SubSeq(Chain[b], 1, i)) = i
      /\ \A j \in 1 .. i : SubSeq(Chain[b], 1, i)[j] = Chain[b][j]
  <2>1. \A j \in 1 .. i : Chain[b][j] \in Blocks
    BY ChainType, <1>1
  <2>2. i \in Int /\ 1 \in Int
    BY <1>1
  <2>3. /\ Len(SubSeq(Chain[b], 1, i)) = IF 1 <= i THEN i - 1 + 1 ELSE 0
        /\ \A j \in 1 .. i - 1 + 1 : SubSeq(Chain[b], 1, i)[j] = Chain[b][1 + j - 1]
    BY <2>1, <2>2
  <2> QED BY <2>3, <1>1
<1>4. Height(c) = i
  BY <1>2, <1>3 DEF Height
<1>5. Parent(c) = BlockAt(Chain[b], i - 1)
  <2>1. CASE i = 1
    BY <2>1, <1>4 DEF Parent, BlockAt
  <2>2. CASE i # 1
    BY <2>2, <1>1, <1>2, <1>3, <1>4 DEF Parent, BlockAt
  <2> QED BY <2>1, <2>2
<1> QED BY <1>1, <1>2, <1>4, <1>5

\* A block and its parent.
LEMMA ParentFacts ==
    ASSUME NEW b \in Blocks, b # Genesis
    PROVE  /\ Parent(b) \in Blocks
           /\ Height(b) >= 1
           /\ Height(Parent(b)) = Height(b) - 1
           /\ Chain[b][Height(b)] = b
           /\ Chain[Parent(b)] = SubSeq(Chain[b], 1, Height(b) - 1)
           /\ Chain[b] = Append(Chain[Parent(b)], b)
           /\ \A i \in 1 .. Height(b) - 1 : Chain[Parent(b)][i] = Chain[b][i]
<1>1. Height(b) \in 1 .. MaxHeight /\ Chain[b][Height(b)] = b /\ Chain[b] \in Seq(Blocks)
  BY ChainAssumption DEF Height
<1>2. /\ Parent(b) \in Blocks
      /\ Height(Parent(b)) = Height(b) - 1
      /\ Chain[Parent(b)] = SubSeq(Chain[b], 1, Height(b) - 1)
  <2>1. CASE Height(b) = 1
    <3>1. Parent(b) = Genesis
      BY <2>1 DEF Parent
    <3>2. SubSeq(Chain[b], 1, 0) = <<>>
      OBVIOUS
    <3> QED BY <3>1, <3>2, <2>1, ChainAssumption, GenesisHeight
  <2>2. CASE Height(b) # 1
    <3>1. Parent(b) = Chain[b][Height(b) - 1] /\ Height(b) - 1 \in 1 .. Height(b)
      BY <2>2, <1>1, HeightAssumption DEF Parent
    <3> QED BY <3>1, OnChain
  <2> QED BY <2>1, <2>2
<1>3. /\ Chain[Parent(b)] \in Seq(Blocks)
      /\ \A i \in 1 .. Height(b) - 1 : Chain[Parent(b)][i] = Chain[b][i]
  <2>1. \A j \in 1 .. Height(b) - 1 : Chain[b][j] \in Blocks
    BY ChainType, <1>1, HeightAssumption
  <2>2. Height(b) - 1 \in Int /\ 1 \in Int
    BY <1>1, HeightAssumption
  <2>3. \A j \in 1 .. Height(b) - 1 - 1 + 1 :
          SubSeq(Chain[b], 1, Height(b) - 1)[j] = Chain[b][1 + j - 1]
    BY <2>1, <2>2
  <2>4. \A j \in 1 .. Height(b) - 1 : 1 + j - 1 = j
    BY <2>2
  <2>5. Height(b) - 1 - 1 + 1 = Height(b) - 1
    BY <2>2
  <2>6. \A j \in 1 .. Height(b) - 1 : SubSeq(Chain[b], 1, Height(b) - 1)[j] = Chain[b][j]
    BY <2>3, <2>4, <2>5, Zenon
  <2>7. Chain[Parent(b)] \in Seq(Blocks)
    BY <1>2, ChainType
  <2> QED BY <2>6, <2>7, <1>2
<1>4. Chain[b] = Append(Chain[Parent(b)], b)
  <2> DEFINE s == Append(Chain[Parent(b)], b)
  <2>1. /\ s \in Seq(Blocks) /\ Len(s) = Height(b)
        /\ \A i \in 1 .. Height(b) : s[i] = IF i = Height(b) THEN b ELSE Chain[Parent(b)][i]
    <3>1. Len(Chain[Parent(b)]) = Height(b) - 1 /\ Height(b) \in Nat
      BY <1>1, <1>2, HeightAssumption DEF Height
    <3>2. /\ s \in Seq(Blocks) /\ Len(s) = Len(Chain[Parent(b)]) + 1
          /\ \A i \in 1 .. Len(Chain[Parent(b)]) : s[i] = Chain[Parent(b)][i]
          /\ s[Len(Chain[Parent(b)]) + 1] = b
      BY <1>3
    <3> HIDE DEF s
    <3> QED BY <3>1, <3>2
  <2>2. \A i \in 1 .. Height(b) : s[i] = Chain[b][i]
    BY <2>1, <1>1, <1>3, HeightAssumption
  <2>3. s = Chain[b]
    <3> HIDE DEF s
    <3> QED BY <2>1, <2>2, <1>1 DEF Height
  <2> QED BY <2>3
<1> QED BY <1>1, <1>2, <1>3, <1>4, HeightAssumption

\* Every block is an ancestor of itself, and of its children.
LEMMA AncestorParent ==
    ASSUME NEW b \in Blocks
    PROVE  /\ IsAncestor(b, b)
           /\ b # Genesis => \A a \in Blocks : IsAncestor(a, b) <=> a = b \/ IsAncestor(a, Parent(b))
<1>1. CASE b = Genesis
  BY <1>1 DEF IsAncestor
<1>2. CASE b # Genesis
  <2>1. /\ Height(b) \in Nat /\ Height(b) >= 1 /\ Height(Parent(b)) = Height(b) - 1
        /\ Chain[b][Height(b)] = b
        /\ \A i \in 1 .. Height(b) - 1 : Chain[Parent(b)][i] = Chain[b][i]
    BY <1>2, ParentFacts, ChainType, HeightAssumption
  <2>2. \A i \in 1 .. Height(b) : i = Height(b) \/ i \in 1 .. Height(b) - 1
    BY <2>1
  <2>3. ASSUME NEW a \in Blocks
        PROVE  IsAncestor(a, b) <=> a = b \/ IsAncestor(a, Parent(b))
    BY <2>1, <2>2 DEF IsAncestor
  <2>4. IsAncestor(b, b)
    BY <2>1 DEF IsAncestor
  <2> QED BY <2>3, <2>4
<1> QED BY <1>1, <1>2

\* The heights of blocks are natural numbers.
LEMMA HeightNat == \A b \in Blocks : Height(b) \in Nat /\ Height(b) <= MaxHeight
<1> SUFFICES ASSUME NEW b \in Blocks PROVE Height(b) \in Nat /\ Height(b) <= MaxHeight
  BY Zenon
<1>1. Height(b) \in 0 .. MaxHeight
  BY ChainType, Zenon
<1> QED BY <1>1, HeightAssumption

\* An ancestor is lower than its descendants.
LEMMA AncestorHeight ==
    ASSUME NEW a \in Blocks, NEW b \in Blocks, IsAncestor(a, b)
    PROVE  Height(a) <= Height(b) /\ (Height(a) = Height(b) => a = b)
<1>1. CASE a = Genesis
  BY <1>1, GenesisHeight, ChainType, HeightAssumption
<1>2. CASE a # Genesis
  <2>1. PICK i \in 1 .. Height(b) : Chain[b][i] = a
    BY <1>2 DEF IsAncestor
  <2>2. Height(a) = i /\ Height(b) \in Nat
    BY <2>1, OnChain, ChainType, HeightAssumption
  <2>3. b # Genesis
    BY <2>1, <2>2, GenesisHeight
  <2>4. Chain[b][Height(b)] = b
    BY <2>3, ParentFacts
  <2> QED BY <2>1, <2>2, <2>4
<1> QED BY <1>1, <1>2

\* What is an ancestor of a block and not that block is an ancestor of its
\* parent; the block itself is not.
LEMMA ProperAncestor ==
    ASSUME NEW a \in Blocks, NEW b \in Blocks, b # Genesis
    PROVE  /\ IsAncestor(a, Parent(b)) <=> IsAncestor(a, b) /\ a # b
           /\ Parent(b) \in Blocks /\ Parent(b) # b
<1>1. Parent(b) \in Blocks /\ Height(Parent(b)) = Height(b) - 1 /\ Height(b) \in Nat
  BY ParentFacts, ChainType, HeightAssumption
<1>2. ~IsAncestor(b, Parent(b))
  BY <1>1, AncestorHeight
<1>3. IsAncestor(a, b) <=> a = b \/ IsAncestor(a, Parent(b))
  BY AncestorParent
<1> QED BY <1>1, <1>2, <1>3
=============================================================================
