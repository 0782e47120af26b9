------------------------ MODULE BlockPipelineProofs ------------------------
(***************************************************************************)
(* Proofs about BlockPipeline for any tree of blocks, any number of moves  *)
(* of the node and any interleaving of the handlers: as long as no RPC     *)
(* failed and no handler was late, the handler groups keep the databases   *)
(* in step and the panics of the handlers are out of reach.                *)
(***************************************************************************)
EXTENDS BlockPipeline, BlockTreeProofs, WellFoundedInduction

-----------------------------------------------------------------------------
(* Chains. *)

\* The block of height h on a chain, and its parent.
LEMMA AtFacts ==
    ASSUME NEW b \in Blocks, NEW h \in 0 .. Height(b)
    PROVE  /\ At(b, h) \in Blocks /\ Height(At(b, h)) = h /\ IsAncestor(At(b, h), b)
           /\ h > 0 => At(b, h) # Genesis /\ Parent(At(b, h)) = At(b, h - 1)
<1>1. CASE h = 0
  BY <1>1, GenesisHeight, ChainAssumption DEF At, BlockAt, IsAncestor
<1>2. CASE h # 0
  <2>1. h \in 1 .. Height(b)
    BY <1>2, HeightNat
  <2>2. At(b, h) = Chain[b][h]
    BY <1>2 DEF At, BlockAt
  <2>3. Chain[b][h] \in Blocks /\ Height(Chain[b][h]) = h /\ Parent(Chain[b][h]) = At(b, h - 1)
    BY <2>1, OnChain DEF At
  <2>4. Chain[b][h] # Genesis
    BY <1>2, <2>3, GenesisHeight
  <2> QED BY <2>1, <2>2, <2>3, <2>4 DEF IsAncestor
<1> QED BY <1>1, <1>2

\* A block is an ancestor exactly when it is the chain's block of its height.
LEMMA AncestorAt ==
    ASSUME NEW a \in Blocks, NEW b \in Blocks
    PROVE  IsAncestor(a, b) <=> Height(a) <= Height(b) /\ a = At(b, Height(a))
<1>1. ASSUME IsAncestor(a, b) PROVE Height(a) <= Height(b) /\ a = At(b, Height(a))
  <2>1. CASE a = Genesis
    BY <2>1, GenesisHeight, HeightNat DEF At, BlockAt
  <2>2. CASE a # Genesis
    <3>1. PICK i \in 1 .. Height(b) : Chain[b][i] = a
      BY <1>1, <2>2 DEF IsAncestor
    <3>2. Height(a) = i
      BY <3>1, OnChain
    <3> QED BY <3>1, <3>2, HeightNat DEF At, BlockAt
  <2> QED BY <2>1, <2>2
<1>2. ASSUME Height(a) <= Height(b), a = At(b, Height(a)) PROVE IsAncestor(a, b)
  <2>1. Height(a) \in 0 .. Height(b)
    BY <1>2, HeightNat
  <2> QED BY <1>2, <2>1, AtFacts
<1> QED BY <1>1, <1>2

\* The chain of an ancestor is the lower part of the chain.
LEMMA AtAncestor ==
    ASSUME NEW a \in Blocks, NEW b \in Blocks, IsAncestor(a, b), NEW h \in 0 .. Height(a)
    PROVE  At(a, h) = At(b, h)
<1>1. CASE h = 0
  BY <1>1 DEF At, BlockAt
<1>2. CASE h # 0
  <2>1. a # Genesis /\ Height(a) \in Nat /\ h \in 1 .. Height(a)
    BY <1>2, GenesisHeight, HeightNat
  <2>2. PICK i \in 1 .. Height(b) : Chain[b][i] = a
    BY <2>1 DEF IsAncestor
  <2>3. Height(a) = i /\ Chain[a] = SubSeq(Chain[b], 1, i)
    BY <2>2, OnChain
  <2>4. Chain[b] \in Seq(Blocks) /\ i \in 1 .. Len(Chain[b])
    BY <2>2, ChainType DEF Height
  <2>5. SubSeq(Chain[b], 1, i)[h] = Chain[b][h]
    <3> HIDE DEF Height
    <3>1. /\ i \in Int /\ 1 \in Int /\ h \in 1 .. i
          /\ \A j \in 1 .. i : Chain[b][j] \in Blocks
      BY <2>1, <2>2, <2>3, <2>4, HeightNat, ChainType
    <3>2. \A j \in 1 .. i - 1 + 1 : SubSeq(Chain[b], 1, i)[j] = Chain[b][1 + j - 1]
      BY <3>1
    <3>3. i - 1 + 1 = i /\ 1 + h - 1 = h
      BY <3>1, <2>1
    <3> QED BY <3>1, <3>2, <3>3
  <2> QED BY <1>2, <2>3, <2>5 DEF At, BlockAt
<1> QED BY <1>1, <1>2

\* Ancestors of ancestors are ancestors, and the ancestors of a block are a
\* single line.
LEMMA AncestorLine ==
    ASSUME NEW a \in Blocks, NEW b \in Blocks, NEW c \in Blocks
    PROVE  /\ IsAncestor(a, b) /\ IsAncestor(b, c) => IsAncestor(a, c)
           /\ IsAncestor(a, c) /\ IsAncestor(b, c) /\ Height(a) <= Height(b) => IsAncestor(a, b)
<1>1. Height(a) \in Nat /\ Height(b) \in Nat /\ Height(c) \in Nat
  BY HeightNat
<1>2. ASSUME IsAncestor(b, c), Height(a) <= Height(b)
      PROVE  At(b, Height(a)) = At(c, Height(a))
  BY <1>1, <1>2, AtAncestor
<1> QED BY <1>1, <1>2, AncestorAt

\* The child of an ancestor on the way to a block.
LEMMA NextOnChain ==
    ASSUME NEW a \in Blocks, NEW b \in Blocks, IsAncestor(a, b), a # b
    PROVE  LET c == At(b, Height(a) + 1)
           IN  /\ c \in Blocks /\ c # Genesis /\ Parent(c) = a /\ Height(c) = Height(a) + 1
               /\ IsAncestor(c, b) /\ IsAncestor(a, c)
<1>1. Height(a) \in Nat /\ Height(b) \in Nat /\ Height(a) <= Height(b) /\ Height(a) # Height(b)
  BY HeightNat, AncestorHeight
<1>2. Height(a) + 1 \in 0 .. Height(b) /\ Height(a) + 1 > 0 /\ Height(a) + 1 - 1 = Height(a)
  BY <1>1
<1> DEFINE h == Height(a) + 1
           c == At(b, h)
<1>3. /\ c \in Blocks /\ Height(c) = h /\ IsAncestor(c, b)
      /\ c # Genesis /\ Parent(c) = At(b, h - 1)
  <2>1. h \in 0 .. Height(b) /\ h > 0
    BY <1>2
  <2> HIDE DEF h
  <2> QED BY <2>1, AtFacts
<1>4. At(b, h - 1) = a
  <2>1. h - 1 = Height(a)
    BY <1>1
  <2> HIDE DEF h
  <2> QED BY <2>1, AncestorAt
<1>5. IsAncestor(a, c)
  <2> HIDE DEF c
  <2> QED BY <1>1, <1>3, AncestorLine
<1> QED BY <1>3, <1>4, <1>5

\* rpcutils.CommonAncestor finds the highest block of both chains.
LEMMA RootFacts ==
    ASSUME NEW a \in Blocks, NEW b \in Blocks
    PROVE  /\ Root(a, b) \in Blocks /\ IsAncestor(Root(a, b), a) /\ IsAncestor(Root(a, b), b)
           /\ \A c \in Blocks : IsAncestor(c, a) /\ IsAncestor(c, b) => Height(c) <= Height(Root(a, b))
<1> DEFINE S == ChainOf(a) \cap ChainOf(b)
           T == {MaxHeight - Height(c) : c \in S}
<1>1. S \subseteq Blocks /\ Genesis \in S
  BY ChainAssumption DEF ChainOf, IsAncestor
<1>2. \A c \in S : MaxHeight - Height(c) \in Nat /\ Height(c) \in Nat
  <2> HIDE DEF S
  <2> QED BY <1>1, HeightNat, HeightAssumption
<1>3. T \subseteq Nat /\ T # {}
  <2> HIDE DEF S
  <2> QED BY <1>1, <1>2
<1>4. PICK x \in T : \A y \in T : <<y, x>> \notin OpToRel(<, Nat)
  <2> HIDE DEF T
  <2> QED BY <1>3, NatLessThanWellFounded, WFMin, Zenon
<1>5. PICK m \in S : x = MaxHeight - Height(m)
  OBVIOUS
<1>6. \A d \in S : Height(d) <= Height(m)
  <2> TAKE d \in S
  <2>1. <<MaxHeight - Height(d), x>> \notin OpToRel(<, Nat)
    BY <1>4, Zenon
  <2> HIDE DEF S, T
  <2>2. MaxHeight - Height(d) \in Nat /\ x \in Nat
    BY <1>2, <1>5
  <2>3. ~(MaxHeight - Height(d) < x)
    BY <2>1, <2>2 DEF OpToRel
  <2> QED BY <1>2, <1>5, <2>3, HeightAssumption
<1>7. Root(a, b) \in S /\ \A d \in S : Height(d) <= Height(Root(a, b))
  <2>1. Root(a, b) = CHOOSE c \in S : \A d \in S : Height(d) <= Height(c)
    BY DEF Root
  <2> HIDE DEF S
  <2> QED BY <2>1, <1>5, <1>6, Zenon
<1> QED BY <1>7, Zenon DEF ChainOf

\* The chain of a block is that of its parent and the block.
LEMMA ChainOfChild ==
    ASSUME NEW b \in Blocks, b # Genesis
    PROVE  /\ ChainOf(b) = ChainOf(Parent(b)) \cup {b}
           /\ ChainOf(Parent(b)) = ChainOf(b) \ {b}
BY ProperAncestor, AncestorParent, Zenon DEF ChainOf

-----------------------------------------------------------------------------
(* The notifications on their way to the handlers. *)

\* Two blocks on different branches.
Forked(a, b) == ~IsAncestor(a, b) /\ ~IsAncestor(b, a)

Msgs == [old : Blocks \cup {NoBlock}, new : Blocks \cup {NoBlock}]

\* The notification m moves the notifier's previous block a on.
Connects(m, a) ==
    /\ m.new \in Blocks \ {Genesis}
    /\ m.old = NoBlock => Parent(m.new) = a
    /\ m.old # NoBlock => m.old = a /\ Forked(a, m.new) /\ Height(a) <= Height(m.new)

\* What the notification m makes of the notifier's previous block a: a block
\* that connects and a reorganization move it on to b, other blocks are dropped.
StepTo(m, a, b) ==
    \/ Connects(m, a) /\ b = m.new
    \/ m.old = NoBlock /\ Parent(m.new) # a /\ b = a

\* The notifications q take the notifier's previous block from a to b.
Leads(q, a, b) ==
    \E pos \in [1 .. Len(q) + 1 -> Blocks] :
        /\ pos[1] = a /\ pos[Len(q) + 1] = b
        /\ \A i \in 1 .. Len(q) : StepTo(q[i], pos[i], pos[i + 1])

\* Nothing to process leads nowhere else.
LEMMA LeadsEmpty == \A a \in Blocks : Leads(<<>>, a, a)
<1> TAKE a \in Blocks
<1> DEFINE pos == [i \in 1 .. Len(<<>>) + 1 |-> a]
<1>1. Len(<<>>) = 0
  OBVIOUS
<1>2. pos \in [1 .. Len(<<>>) + 1 -> Blocks] /\ pos[1] = a /\ pos[Len(<<>>) + 1] = a
  BY <1>1
<1>3. \A i \in 1 .. Len(<<>>) : StepTo(<<>>[i], pos[i], pos[i + 1])
  BY <1>1
<1> QED BY <1>2, <1>3, Zenon DEF Leads

\* Notifications that are queued one after the other.
LEMMA LeadsConcat ==
    ASSUME NEW q \in Seq(Msgs), NEW r \in Seq(Msgs),
           NEW a \in Blocks, NEW b \in Blocks, NEW c \in Blocks, Leads(q, a, b), Leads(r, b, c)
    PROVE  Leads(q \o r, a, c)
<1>1. PICK f \in [1 .. Len(q) + 1 -> Blocks] :
        /\ f[1] = a /\ f[Len(q) + 1] = b
        /\ \A i \in 1 .. Len(q) : StepTo(q[i], f[i], f[i + 1])
  BY Zenon DEF Leads
<1>2. PICK g \in [1 .. Len(r) + 1 -> Blocks] :
        /\ g[1] = b /\ g[Len(r) + 1] = c
        /\ \A i \in 1 .. Len(r) : StepTo(r[i], g[i], g[i + 1])
  BY Zenon DEF Leads
<1> DEFINE n == Len(q)
           k == Len(r)
           s == q \o r
           pos == [i \in 1 .. n + k + 1 |-> IF i <= n THEN f[i] ELSE g[i - n]]
<1>3. n \in Nat /\ k \in Nat /\ Len(s) = n + k
  OBVIOUS
<1>4. /\ \A i \in 1 .. n : s[i] = q[i]
      /\ \A i \in 1 .. k : s[n + i] = r[i]
  OBVIOUS
<1> HIDE DEF n, k, s
<1>5. pos \in [1 .. Len(s) + 1 -> Blocks]
  BY <1>1, <1>2, <1>3 DEF n, k
<1>6. pos[1] = a
  BY <1>1, <1>2, <1>3 DEF n, k
<1>7. pos[Len(s) + 1] = c
  BY <1>2, <1>3 DEF n, k
<1>8. ASSUME NEW i \in 1 .. Len(s) PROVE StepTo(s[i], pos[i], pos[i + 1])
  <2>1. CASE i <= n
    <3>1. i \in 1 .. n /\ i + 1 \in 1 .. n + k + 1 /\ i \in 1 .. n + k + 1
      BY <2>1, <1>3
    <3>2. pos[i] = f[i] /\ s[i] = q[i]
      BY <2>1, <3>1, <1>4
    <3>3. pos[i + 1] = f[i + 1]
      <4>1. CASE i = n
        <5>1. pos[i + 1] = g[1]
          BY <4>1, <3>1, <1>3
        <5>2. f[i + 1] = b
          BY <4>1, <1>1 DEF n
        <5> QED BY <5>1, <5>2, <1>2
      <4>2. CASE i # n
        BY <4>2, <3>1, <1>3
      <4> QED BY <4>1, <4>2
    <3>4. StepTo(q[i], f[i], f[i + 1])
      BY <3>1, <1>1 DEF n
    <3> HIDE DEF pos
    <3> QED BY <3>2, <3>3, <3>4
  <2>2. CASE ~(i <= n)
    <3> DEFINE j == i - n
    <3>1. j \in 1 .. k /\ i = n + j /\ i + 1 - n = j + 1 /\ ~(i + 1 <= n)
          /\ i \in 1 .. n + k + 1 /\ i + 1 \in 1 .. n + k + 1
      BY <2>2, <1>3
    <3>2. pos[i] = g[j] /\ pos[i + 1] = g[j + 1]
      <4>1. pos[i] = g[i - n]
        BY <2>2, <3>1
      <4> DEFINE e == i + 1
      <4>2. e \in 1 .. n + k + 1 /\ ~(e <= n) /\ e - n = j + 1
        BY <3>1, <1>3
      <4> HIDE DEF e
      <4>3. pos[e] = g[e - n]
        BY <4>2
      <4> QED BY <4>1, <4>2, <4>3 DEF e
    <3> HIDE DEF pos, j
    <3>3. s[i] = r[j]
      BY <3>1, <1>4
    <3>4. StepTo(r[j], g[j], g[j + 1])
      BY <3>1, <1>2 DEF k
    <3> QED BY <3>2, <3>3, <3>4
  <2> QED BY <2>1, <2>2
<1>9. \E f2 \in [1 .. Len(s) + 1 -> Blocks] :
        /\ f2[1] = a /\ f2[Len(s) + 1] = c
        /\ \A i \in 1 .. Len(s) : StepTo(s[i], f2[i], f2[i + 1])
  <2> HIDE DEF pos
  <2> QED BY <1>5, <1>6, <1>7, <1>8, Zenon
<1> QED BY <1>9, Zenon DEF Leads, s

\* One notification.
LEMMA LeadsOne ==
    ASSUME NEW m \in Msgs, NEW a \in Blocks, NEW b \in Blocks, StepTo(m, a, b)
    PROVE  Leads(<<m>>, a, b)
<1> DEFINE q == <<m>>
           pos == [i \in 1 .. 2 |-> IF i = 1 THEN a ELSE b]
<1>1. Len(q) = 1 /\ q[1] = m
  OBVIOUS
<1>2. pos \in [1 .. 2 -> Blocks] /\ pos[1] = a /\ pos[2] = b
  OBVIOUS
<1> HIDE DEF q, pos
<1>3. pos \in [1 .. Len(q) + 1 -> Blocks] /\ pos[Len(q) + 1] = b
  BY <1>1, <1>2
<1>4. \A i \in 1 .. Len(q) : StepTo(q[i], pos[i], pos[i + 1])
  BY <1>1, <1>2
<1>5. Leads(q, a, b)
  BY <1>2, <1>3, <1>4 DEF Leads
<1> QED BY <1>5 DEF q

\* The first of the notifications is processed.
LEMMA LeadsTail ==
    ASSUME NEW q \in Seq(Msgs), q # <<>>, NEW a, NEW b, Leads(q, a, b)
    PROVE  \E c \in Blocks : StepTo(Head(q), a, c) /\ Leads(Tail(q), c, b)
<1>1. PICK f \in [1 .. Len(q) + 1 -> Blocks] :
        /\ f[1] = a /\ f[Len(q) + 1] = b
        /\ \A i \in 1 .. Len(q) : StepTo(q[i], f[i], f[i + 1])
  BY Zenon DEF Leads
<1> DEFINE t == Tail(q)
           pos == [i \in 1 .. Len(t) + 1 |-> f[i + 1]]
<1>2. Len(q) \in Nat \ {0} /\ Len(t) = Len(q) - 1 /\ Head(q) = q[1]
      /\ \A i \in 1 .. Len(t) : t[i] = q[i + 1]
  OBVIOUS
<1> HIDE DEF t
<1>3. StepTo(Head(q), a, f[2]) /\ f[2] \in Blocks
  <2>1. 1 \in 1 .. Len(q) /\ 2 \in 1 .. Len(q) + 1 /\ 1 + 1 = 2
    BY <1>2
  <2> QED BY <1>1, <1>2, <2>1
<1>4. \A i \in 1 .. Len(t) + 1 : i + 1 \in 1 .. Len(q) + 1 /\ pos[i] = f[i + 1]
  BY <1>2
<1>5. pos \in [1 .. Len(t) + 1 -> Blocks]
  BY <1>4, <1>1
<1>6. pos[1] = f[2] /\ pos[Len(t) + 1] = b
  BY <1>1, <1>2
<1>7. ASSUME NEW i \in 1 .. Len(t) PROVE StepTo(t[i], pos[i], pos[i + 1])
  <2>1. i + 1 \in 1 .. Len(q) /\ i \in 1 .. Len(t) + 1 /\ i + 1 \in 1 .. Len(t) + 1
    BY <1>2
  <2>2. pos[i] = f[i + 1] /\ pos[i + 1] = f[i + 1 + 1] /\ t[i] = q[i + 1]
    BY <2>1, <1>2
  <2> HIDE DEF pos
  <2> QED BY <2>1, <2>2, <1>1
<1>8. Leads(t, f[2], b)
  <2> HIDE DEF pos
  <2> QED BY <1>5, <1>6, <1>7, Zenon DEF Leads
<1> QED BY <1>3, <1>8 DEF t

\* The blocks of a new branch do not connect to a block that is not on it.
LEMMA LeadsNowhere ==
    ASSUME NEW a \in Blocks, NEW b \in Blocks, ~IsAncestor(a, b), NEW h \in 0 .. Height(b)
    PROVE  LET ms == [i \in 1 .. Height(b) - h |-> BlockMsg(At(b, h + i))]
           IN  ms \in Seq(Msgs) /\ Leads(ms, a, a)
<1> DEFINE n == Height(b) - h
           ms == [i \in 1 .. n |-> BlockMsg(At(b, h + i))]
           pos == [i \in 1 .. n + 1 |-> a]
<1>1. n \in Nat /\ Height(b) \in Nat
  BY HeightNat
<1>2. ASSUME NEW i \in 1 .. n
      PROVE  /\ At(b, h + i) \in Blocks \ {Genesis}
             /\ Parent(At(b, h + i)) # a
  <2> DEFINE k == h + i
  <2>1. k \in 0 .. Height(b) /\ k > 0 /\ k - 1 \in 0 .. Height(b)
    BY <1>1
  <2> HIDE DEF k
  <2>2. At(b, k) \in Blocks /\ At(b, k) # Genesis /\ Parent(At(b, k)) = At(b, k - 1)
    BY <2>1, AtFacts
  <2>3. IsAncestor(At(b, k - 1), b)
    BY <2>1, AtFacts
  <2> QED BY <2>2, <2>3 DEF k
<1>3. \A i \in 1 .. n : ms[i] = BlockMsg(At(b, h + i))
  OBVIOUS
<1>4. \A i \in 1 .. n : ms[i] \in Msgs /\ ms[i].old = NoBlock /\ ms[i].new = At(b, h + i)
  <2> TAKE i \in 1 .. n
  <2>1. ms[i] = [old |-> NoBlock, new |-> At(b, h + i)]
    BY <1>3 DEF BlockMsg
  <2>2. At(b, h + i) \in Blocks
    BY <1>2
  <2> HIDE DEF n, ms
  <2> QED BY <2>1, <2>2 DEF Msgs
<1>5. ms \in Seq(Msgs) /\ Len(ms) = n
  <2>1. ms \in [1 .. n -> Msgs]
    BY <1>2 DEF BlockMsg, Msgs
  <2> HIDE DEF ms, n
  <2> QED BY <1>1, <2>1
<1>6. pos \in [1 .. n + 1 -> Blocks] /\ \A i \in 1 .. n + 1 : pos[i] = a
  OBVIOUS
<1>7. 1 \in 1 .. n + 1 /\ n + 1 \in 1 .. n + 1 /\ \A i \in 1 .. n : i \in 1 .. n + 1 /\ i + 1 \in 1 .. n + 1
  BY <1>1
<1> HIDE DEF n, ms, pos
<1>8. \A i \in 1 .. n : StepTo(ms[i], pos[i], pos[i + 1])
  BY <1>2, <1>4, <1>6, <1>7, Zenon DEF StepTo
<1>9. Leads(ms, a, a)
  BY <1>5, <1>6, <1>7, <1>8, Zenon DEF Leads
<1> QED BY <1>5, <1>9 DEF ms, n

-----------------------------------------------------------------------------
(* The invariant. *)

\* Blocks of the first chain whose pool info main.go does not load.
Uncharged == {b \in ChainOf(InitTip) : b # Genesis /\ Height(b) < Height(InitTip) - Charged}

\* No block of the tree forks off below the charged part of the pool info
\* cache: the node does not reorganize deeper than that.
ForksAreCharged ==
    \A b \in Blocks \ {Genesis} : Parent(b) \in Uncharged => IsAncestor(b, InitTip)

\* The running handlers.
Working == {p \in procs : p.h # "main"}

ProcType ==
    [h : {"main", "stake", "data", "chain"}, old : Blocks \cup {NoBlock}, new : Blocks \cup {NoBlock},
     pc : {"start", "page", "side", "connect", "collect", "collectHash", "save"},
     at : Blocks \cup {NoBlock}, wait : BOOLEAN]

Types ==
    /\ ~dead
    /\ node \in Blocks /\ previous \in Blocks /\ stakeTip \in Blocks /\ best \in Blocks
    /\ queue \in Seq(Msgs) /\ cur \in Msgs /\ group \in 0 .. 2
    /\ procs \subseteq ProcType

\* The queue leads from where the current notification ends to the node.
Start == IF group = 0 THEN previous ELSE cur.new

OnTheWay ==
    /\ Leads(queue, Start, node)
    /\ group = 0 <=> cur = NoMsg
    /\ group # 0 => Connects(cur, previous)
    /\ Height(InitTip) <= Height(previous)

\* There is one process for each handler of the group, and main.go's.
Workers ==
    /\ \A p \in procs : p.h = "main" => ~p.wait
    /\ \A p, q \in Working : p.h = q.h => p = q
    /\ \A p \in Working :
         /\ p.wait /\ p.old = cur.old /\ p.new = cur.new
         /\ p.h = "stake" => group = 1
         /\ p.h # "stake" => group = 2
         /\ p.h = "chain" => cur.old # NoBlock

Running(x) == \E p \in Working : p.h = x

\* The blocks table.
TableInv == main = ChainOf(best) /\ main \subseteq rows

\* Where the databases and the page are while a notification is processed.
Stages ==
    /\ group = 0 => stakeTip = previous /\ best = previous
    /\ group = 1 => best = previous /\ stakeTip = IF Running("stake") THEN previous ELSE cur.new
    /\ group = 2 => stakeTip = cur.new
    /\ group = 0 /\ page.by = "handler" => page.block = best
    /\ group = 2 /\ ~Running("data") /\ page.by = "handler" => page.block = cur.new

\* Where a notification's new blocks connect.
Base == IF cur.old = NoBlock THEN Parent(cur.new) ELSE Root(cur.old, cur.new)

\* The pool info cache has what the blocks of the notification need.
Cached ==
    /\ \A x \in ChainOf(stakeTip) : x \in info \/ x \in Uncharged
    /\ group # 0 /\ stakeTip = cur.new => \A x \in ChainOf(cur.new) : IsAncestor(Base, x) => x \in info

\* A new block gets stored.
Stored ==
    group = 2 /\ cur.old = NoBlock =>
        best = IF \E p \in Working : p.pc # "page" THEN previous ELSE cur.new

\* A reorganization goes down to the common ancestor and up the new branch.
Switched ==
    group = 2 /\ cur.old # NoBlock =>
      /\ ~Running("chain") => best = cur.new
      /\ \A p \in Working : p.h = "data" => p.pc # "save"
      /\ \A p \in Working : p.h = "chain" =>
           /\ p.pc \in {"start", "side", "connect"}
           /\ p.pc = "start" => best = previous
           /\ p.pc = "side" => best = p.at /\ IsAncestor(Base, p.at) /\ IsAncestor(p.at, previous)
           /\ p.pc = "connect" => best = p.at /\ IsAncestor(Base, p.at) /\ IsAncestor(p.at, cur.new)

Calm == Types /\ OnTheWay /\ Workers /\ TableInv /\ Stages /\ Cached /\ Stored /\ Switched

Inv == fails \in Nat /\ lates \in Nat /\ (Undisturbed => Calm)

-----------------------------------------------------------------------------
(* Steps of processes. *)

\* A process goes on: one process of the same handler takes its place.
LEMMA GoesFacts ==
    ASSUME procs \subseteq ProcType, NEW p \in procs, NEW pc, NEW at, Goes(p, pc, at),
           pc \in {"start", "page", "side", "connect", "collect", "collectHash", "save"},
           at \in Blocks \cup {NoBlock}
    PROVE  \E q \in ProcType :
             /\ procs' = (procs \ {p}) \cup {q}
             /\ q.h = p.h /\ q.old = p.old /\ q.new = p.new /\ q.wait = p.wait
             /\ q.pc = pc /\ q.at = at
<1> DEFINE q == [p EXCEPT !.pc = pc, !.at = at]
<1>1. p \in ProcType
  OBVIOUS
<1>2. /\ q \in ProcType
      /\ q.h = p.h /\ q.old = p.old /\ q.new = p.new /\ q.wait = p.wait
      /\ q.pc = pc /\ q.at = at
  BY <1>1, Zenon DEF ProcType
<1>3. procs' = (procs \ {p}) \cup {q}
  BY DEF Goes
<1> QED BY <1>2, <1>3, Zenon

\* A handler that goes on, of which Working has one for each handler.
LEMMA HandlerGoes ==
    ASSUME Types, Workers, NEW p \in Working, NEW pc, NEW at, Goes(p, pc, at),
           pc \in {"start", "page", "side", "connect", "collect", "collectHash", "save"},
           at \in Blocks \cup {NoBlock}, UNCHANGED <<cur, group>>
    PROVE  /\ procs' \subseteq ProcType /\ Workers'
           /\ \A x : Running(x)' <=> Running(x)
           /\ \A q \in Working' : q.h # p.h => q \in Working
           /\ \A q \in Working' : q.h = p.h => q.pc = pc /\ q.at = at /\ q.old = p.old /\ q.new = p.new
           /\ \A q \in Working : q.h # p.h => q \in Working'
           /\ \E q \in Working' : q.h = p.h
<1>1. p \in procs /\ p.h # "main" /\ procs \subseteq ProcType
  BY Zenon DEF Working, Types
<1>2. PICK q \in ProcType :
        /\ procs' = (procs \ {p}) \cup {q}
        /\ q.h = p.h /\ q.old = p.old /\ q.new = p.new /\ q.wait = p.wait
        /\ q.pc = pc /\ q.at = at
  BY <1>1, GoesFacts
<1>3. Working' = (Working \ {p}) \cup {q}
  BY <1>1, <1>2, Zenon DEF Working
<1>4. procs' \subseteq ProcType
  BY <1>1, <1>2, Zenon
<1>5. \A r \in Working \ {p} : r.h # p.h
  BY Zenon DEF Workers
<1>6. \A r, s \in Working' : r.h = s.h => r = s
  BY <1>2, <1>3, <1>5, Zenon DEF Workers
<1>7. \A r \in procs' : r.h = "main" => ~r.wait
  BY <1>1, <1>2, Zenon DEF Workers
<1>8. Workers'
  BY <1>2, <1>3, <1>6, <1>7, Zenon DEF Workers
<1>9. \A x : Running(x)' <=> Running(x)
  BY <1>2, <1>3, Zenon DEF Running
<1> QED BY <1>2, <1>3, <1>4, <1>5, <1>8, <1>9, Zenon

\* A handler that returns.
LEMMA HandlerEnds ==
    ASSUME Types, Workers, NEW p \in Working, Ends(p), UNCHANGED <<cur, group>>
    PROVE  /\ procs' \subseteq ProcType /\ Workers'
           /\ \A x : Running(x)' <=> Running(x) /\ x # p.h
           /\ \A q \in Working' : q.h # p.h /\ q \in Working
           /\ \A q \in Working : q.h # p.h => q \in Working'
<1>1. p \in procs /\ p.h # "main" /\ procs \subseteq ProcType
  BY Zenon DEF Working, Types
<1>2. procs' = procs \ {p} /\ Working' = Working \ {p}
  BY <1>1, Zenon DEF Working, Ends
<1>3. \A r \in Working \ {p} : r.h # p.h
  BY Zenon DEF Workers
<1>4. Workers'
  BY <1>2, Zenon DEF Workers
<1>5. \A x : Running(x)' <=> Running(x) /\ x # p.h
  BY <1>2, <1>3, Zenon DEF Running
<1> QED BY <1>1, <1>2, <1>3, <1>4, <1>5, Zenon

\* What the steps below leave alone.
LEMMA Still ==
    ASSUME Calm, UNCHANGED <<previous, cur, group, procs, stakeTip, info, rows, main, best, page>>
    PROVE  Workers' /\ TableInv' /\ Stages' /\ Cached' /\ Stored' /\ Switched'
<1>1. Working' = Working /\ Base' = Base
  BY Zenon DEF Working, Base
<1>2. \A x : Running(x)' <=> Running(x)
  BY <1>1, Zenon DEF Running
<1>3. Workers' BY <1>1, Zenon DEF Calm, Workers
<1>4. TableInv' BY Zenon DEF Calm, TableInv
<1>5. Stages' BY <1>2, Zenon DEF Calm, Stages
<1>6. Cached' BY <1>1, Zenon DEF Calm, Cached
<1>7. Stored' BY <1>1, Zenon DEF Calm, Stored
<1>8. Switched' BY <1>1, <1>2, Zenon DEF Calm, Switched
<1> QED BY <1>3, <1>4, <1>5, <1>6, <1>7, <1>8

-----------------------------------------------------------------------------
(* The node and main.go. *)

\* The node's new block is queued at the end of the way.
LEMMA NodeExtendsStep ==
    ASSUME Calm, NEW b \in Blocks, NodeExtends(b)
    PROVE  Calm'
<1>1. /\ node' = b /\ b # Genesis /\ Parent(b) = node /\ queue' = queue \o <<BlockMsg(b)>>
      /\ UNCHANGED <<previous, cur, group, procs, stakeTip, info, rows, main, best, page, dead>>
  BY Zenon DEF NodeExtends, Notify, stakeDB, chainDB
<1>2. BlockMsg(b) \in Msgs /\ BlockMsg(b).old = NoBlock /\ BlockMsg(b).new = b
  BY DEF BlockMsg, Msgs
<1>3. StepTo(BlockMsg(b), node, b)
  BY <1>1, <1>2, Zenon DEF StepTo, Connects
<1>4. Start \in Blocks /\ node \in Blocks /\ queue \in Seq(Msgs) /\ Leads(queue, Start, node)
  BY Zenon DEF Calm, Types, OnTheWay, Start, Connects
<1>5. <<BlockMsg(b)>> \in Seq(Msgs) /\ Leads(<<BlockMsg(b)>>, node, b)
  BY <1>2, <1>3, <1>4, LeadsOne
<1>6. Leads(queue \o <<BlockMsg(b)>>, Start, b)
  BY <1>4, <1>5, LeadsConcat, Zenon
<1>7. OnTheWay'
  BY <1>1, <1>6, Zenon DEF Calm, OnTheWay, Start
<1>8. queue' \in Seq(Msgs)
  BY <1>1, <1>4, <1>5
<1>9. Types'
  BY <1>1, <1>8, Zenon DEF Calm, Types
<1> QED BY <1>1, <1>7, <1>9, Still, Zenon DEF Calm

\* The blocks that the node announces before a reorganization connect to nothing
\* the notifier has got to; the reorganization does.
LEMMA NodeReorganizesStep ==
    ASSUME Calm, NEW b \in Blocks, NodeReorganizes(b)
    PROVE  Calm'
<1> DEFINE c == Height(Root(node, b))
           ms == [i \in 1 .. Height(b) - c |-> BlockMsg(At(b, c + i))]
           m == ReorgMsg(node, b)
<1>1. /\ node' = b /\ Height(b) >= Height(node) /\ ~IsAncestor(node, b)
      /\ queue' = queue \o (ms \o <<m>>)
      /\ UNCHANGED <<previous, cur, group, procs, stakeTip, info, rows, main, best, page, dead>>
  BY Zenon DEF NodeReorganizes, Notify, stakeDB, chainDB
<1>2. node \in Blocks /\ queue \in Seq(Msgs) /\ Leads(queue, Start, node) /\ Start \in Blocks
  BY Zenon DEF Calm, Types, OnTheWay, Start, Connects
<1>3. m \in Msgs /\ m.old = node /\ m.new = b
  BY <1>2 DEF ReorgMsg, Msgs
<1>4. Forked(node, b) /\ b # Genesis
  <2>1. ~IsAncestor(b, node)
    BY <1>1, <1>2, AncestorHeight, AncestorParent, HeightNat
  <2> QED BY <1>1, <2>1 DEF Forked, IsAncestor
<1>5. StepTo(m, node, b)
  BY <1>1, <1>2, <1>3, <1>4, ChainAssumption, HeightNat DEF StepTo, Connects
<1>6. c \in 0 .. Height(b)
  BY <1>2, RootFacts, AncestorHeight, HeightNat
<1>7. ms \in Seq(Msgs) /\ Leads(ms, node, node)
  <2> HIDE DEF c
  <2> QED BY <1>1, <1>2, <1>6, LeadsNowhere
<1> HIDE DEF c, ms, m
<1>8. <<m>> \in Seq(Msgs) /\ Leads(<<m>>, node, b)
  BY <1>2, <1>3, <1>5, LeadsOne
<1> DEFINE ns == ms \o <<m>>
<1>9. ns \in Seq(Msgs) /\ Leads(ns, node, b)
  <2>1. ns \in Seq(Msgs)
    BY <1>7, <1>8
  <2> QED BY <2>1, <1>2, <1>7, <1>8, LeadsConcat, Zenon
<1> HIDE DEF ns
<1>10. queue' \in Seq(Msgs) /\ Leads(queue', Start, b)
  <2>1. queue' = queue \o ns
    BY <1>1 DEF ns
  <2>2. queue \o ns \in Seq(Msgs)
    BY <1>2, <1>9
  <2> QED BY <2>1, <2>2, <1>2, <1>9, LeadsConcat, Zenon
<1>11. OnTheWay'
  BY <1>1, <1>10, Zenon DEF Calm, OnTheWay, Start
<1>12. Types'
  BY <1>1, <1>10, Zenon DEF Calm, Types
<1> QED BY <1>1, <1>11, <1>12, Still, Zenon DEF Calm

\* The initial data summary.
LEMMA MainStepStep ==
    ASSUME Calm, MainStep, fails' = 0, fails = 0
    PROVE  Calm'
<1>1. PICK p \in procs : MainCollect(p) \/ MainStore(p)
  BY Zenon DEF MainStep
<1>2. procs \subseteq ProcType /\ node \in Blocks /\ p.h = "main"
  BY <1>1, Zenon DEF Calm, Types, MainCollect, MainStore
<1>3. /\ UNCHANGED <<node, queue, previous, cur, group, stakeTip, info, rows, main, best, dead>>
      /\ procs' \subseteq ProcType /\ Working' = Working
      /\ \A q \in procs' : q.h = "main" => ~q.wait
      /\ page' = page \/ page'.by # "handler"
  <2>1. CASE MainCollect(p)
    <3>1. Goes(p, "page", node) /\ UNCHANGED dead
      BY <2>1, fails = 0, fails' = 0 DEF MainCollect, Fail
    <3>2. PICK q \in ProcType :
            procs' = (procs \ {p}) \cup {q} /\ q.h = p.h /\ q.wait = p.wait
      BY <3>1, <1>2, GoesFacts
    <3>3. procs' \subseteq ProcType /\ Working' = Working
      BY <3>2, <1>2, Zenon DEF Working
    <3>4. \A r \in procs' : r.h = "main" => ~r.wait
      BY <3>2, <1>2, Zenon DEF Calm, Workers
    <3> QED BY <2>1, <3>1, <3>3, <3>4, Zenon DEF MainCollect, env, notifier, stakeDB, chainDB
  <2>2. CASE MainStore(p)
    <3>1. procs' = procs \ {p} /\ page' = [block |-> p.at, by |-> "main"]
      BY <2>2, Zenon DEF MainStore, Ends
    <3>2. page'.by # "handler"
      BY <3>1
    <3>3. procs' \subseteq ProcType /\ Working' = Working
      BY <3>1, <1>2, Zenon DEF Working
    <3>4. \A q \in procs' : q.h = "main" => ~q.wait
      BY <3>1, Zenon DEF Calm, Workers
    <3> QED BY <2>2, <3>2, <3>3, <3>4, Zenon DEF MainStore, env, notifier, stakeDB, chainDB
  <2> QED BY <1>1, <2>1, <2>2
<1>4. Base' = Base /\ Start' = Start /\ \A x : Running(x)' <=> Running(x)
  BY <1>3, Zenon DEF Base, Start, Running
<1>5. Types' BY <1>3, Zenon DEF Calm, Types
<1>6. OnTheWay' BY <1>3, <1>4, Zenon DEF Calm, OnTheWay
<1>7. Workers' BY <1>3, Zenon DEF Calm, Workers
<1>8. TableInv' BY <1>3, Zenon DEF Calm, TableInv
<1>9. Stages' BY <1>3, <1>4, Zenon DEF Calm, Stages
<1>10. Cached' BY <1>3, <1>4, Zenon DEF Calm, Cached
<1>11. Stored' BY <1>3, Zenon DEF Calm, Stored
<1>12. Switched' BY <1>3, <1>4, Zenon DEF Calm, Switched
<1> QED BY <1>5, <1>6, <1>7, <1>8, <1>9, <1>10, <1>11, <1>12 DEF Calm

-----------------------------------------------------------------------------
(* The notifier. *)

\* The handlers of a group start.
LEMMA SpawnFacts ==
    ASSUME NEW m \in Msgs, NEW g \in {1, 2}, NEW p \in Spawn(m, g)
    PROVE  /\ p \in ProcType /\ p.old = m.old /\ p.new = m.new /\ p.pc = "start" /\ p.wait
           /\ p.h \in Handlers(m, g)
           /\ \A q \in Spawn(m, g) : p.h = q.h => p = q
<1>1. \A x \in Handlers(m, g) : x \in {"stake", "data", "chain"}
  BY DEF Handlers
<1>2. \A x \in {"stake", "data", "chain"} :
        LET r == Proc(x, m, TRUE)
        IN  r \in ProcType /\ r.h = x /\ r.old = m.old /\ r.new = m.new /\ r.pc = "start" /\ r.wait
  BY DEF Proc, ProcType, Msgs
<1>3. \A q \in Spawn(m, g) : \E x \in Handlers(m, g) : q = Proc(x, m, TRUE)
  BY Zenon DEF Spawn
<1>4. \A q \in Spawn(m, g) :
        /\ q \in ProcType /\ q.old = m.old /\ q.new = m.new /\ q.pc = "start" /\ q.wait
        /\ q.h \in Handlers(m, g) /\ q = Proc(q.h, m, TRUE)
  <2> SUFFICES ASSUME NEW q \in Spawn(m, g)
               PROVE  /\ q \in ProcType /\ q.old = m.old /\ q.new = m.new /\ q.pc = "start" /\ q.wait
                      /\ q.h \in Handlers(m, g) /\ q = Proc(q.h, m, TRUE)
    BY Zenon
  <2>1. PICK x \in Handlers(m, g) : q = Proc(x, m, TRUE)
    BY <1>3, Zenon
  <2>2. x \in {"stake", "data", "chain"}
    BY <1>1
  <2> HIDE DEF Proc
  <2> QED BY <1>2, <2>1, <2>2, Zenon
<1> QED BY <1>4, Zenon

\* A notification with which the handlers of the first group start.
LEMMA ProcessStep ==
    ASSUME Calm, NEW m \in Msgs, group = 0, queue' \in Seq(Msgs),
           Connects(m, previous), Leads(queue', m.new, node), Process(m),
           UNCHANGED <<node, previous, stakeTip, info, rows, main, best, page, dead>>
    PROVE  Calm'
<1>1. cur' = m /\ group' = 1 /\ procs' = procs \cup Spawn(m, 1)
  BY Zenon DEF Process
<1>2. Working = {}
  <2>1. \A p \in Working : p.h = "stake" \/ p.h # "stake"
    OBVIOUS
  <2> QED BY <2>1 DEF Calm, Workers
<1>3. Handlers(m, 1) = {"stake"}
  BY DEF Handlers
<1>4. \A p \in Spawn(m, 1) :
        /\ p \in ProcType /\ p.old = m.old /\ p.new = m.new /\ p.wait /\ p.h = "stake"
        /\ \A q \in Spawn(m, 1) : p.h = q.h => p = q
  BY <1>3, SpawnFacts, Zenon
<1>5. Working' = Spawn(m, 1)
  BY <1>1, <1>2, <1>4 DEF Working
<1>6. Proc("stake", m, TRUE) \in Spawn(m, 1) /\ Proc("stake", m, TRUE).h = "stake"
  BY <1>3, Zenon DEF Spawn, Proc
<1>7. Running("stake")'
  BY <1>5, <1>6, Zenon DEF Running
<1>8. m.new \in Blocks \ {Genesis} /\ m # NoMsg /\ m.new # previous
  <2>1. m.new # previous
    BY ProperAncestor, AncestorParent, Zenon DEF Connects, Forked
  <2> QED BY <2>1, ChainAssumption DEF Connects, NoMsg
<1>9. procs' \subseteq ProcType
  BY <1>1, <1>4, Zenon DEF Calm, Types
<1> 1 # 0 /\ 1 # 2 /\ 1 \in 0 .. 2
  OBVIOUS
<1>10. Types'
  BY <1>1, <1>9, Zenon DEF Calm, Types
<1>11. OnTheWay'
  BY <1>1, <1>8, Zenon DEF Calm, OnTheWay, Start
<1>12. Workers'
  BY <1>1, <1>4, <1>5, Zenon DEF Calm, Workers
<1>13. TableInv' BY Zenon DEF Calm, TableInv
<1>14. Stages'
  BY <1>1, <1>7, Zenon DEF Calm, Stages
<1>15. Cached'
  BY <1>1, <1>8, Zenon DEF Calm, Cached, Stages
<1>16. Stored' /\ Switched'
  BY <1>1, Zenon DEF Stored, Switched
<1> QED BY <1>10, <1>11, <1>12, <1>13, <1>14, <1>15, <1>16, Zenon DEF Calm

\* processBlock and signalReorg.
LEMMA DequeueStep ==
    ASSUME Calm, ProcessBlock \/ SignalReorg, fails = 0, fails' = 0
    PROVE  Calm'
<1>1. /\ cur = NoMsg /\ queue # <<>> /\ queue' = Tail(queue)
      /\ UNCHANGED <<node, previous, stakeTip, info, rows, main, best, page, dead>>
  BY Zenon DEF ProcessBlock, SignalReorg, Idle, env, stakeDB, chainDB
<1>2. group = 0 /\ queue \in Seq(Msgs) /\ Leads(queue, previous, node)
  BY <1>1, Zenon DEF Calm, OnTheWay, Types, Start
<1>3. PICK c \in Blocks : StepTo(Head(queue), previous, c) /\ Leads(queue', c, node)
  BY <1>1, <1>2, LeadsTail
<1>4. queue' \in Seq(Msgs) /\ Head(queue) \in Msgs
  BY <1>1, <1>2
<1> DEFINE m == Head(queue)
<1>5. Process(m) \/ (UNCHANGED <<cur, group, procs>> /\ m.old = NoBlock /\ Parent(m.new) # previous)
  BY fails = 0, fails' = 0 DEF ProcessBlock, SignalReorg, Fail, IsReorg
<1>6. Process(m) => m.old # NoBlock \/ Parent(m.new) = previous
  <2>1. CASE ProcessBlock
    <3>1. UNCHANGED cur \/ Parent(m.new) = previous
      BY <2>1, Zenon DEF ProcessBlock
    <3>2. Process(m) => group' = 1
      BY DEF Process
    <3>3. UNCHANGED group \/ Parent(m.new) = previous
      BY <2>1, Zenon DEF ProcessBlock
    <3> QED BY <3>2, <3>3, <1>2
  <2>2. CASE SignalReorg
    BY <2>2 DEF SignalReorg, IsReorg
  <2> QED BY <2>1, <2>2
<1> HIDE DEF m
<1>7. CASE Process(m)
  <2>1. Connects(m, previous) /\ c = m.new
    BY <1>3, <1>6, <1>7 DEF StepTo, m
  <2> QED BY <2>1, <1>1, <1>2, <1>3, <1>4, <1>7, ProcessStep, Zenon DEF m
<1>8. CASE UNCHANGED <<cur, group, procs>> /\ m.old = NoBlock /\ Parent(m.new) # previous
  <2>1. c = previous
    BY <1>3, <1>8 DEF StepTo, Connects, m
  <2>2. OnTheWay'
    BY <1>1, <1>2, <1>3, <1>8, <2>1 DEF Calm, OnTheWay, Start
  <2>3. Types'
    BY <1>1, <1>4, <1>8, Zenon DEF Calm, Types
  <2> QED BY <2>2, <2>3, <1>1, <1>8, Still, Zenon DEF Calm
<1> QED BY <1>5, <1>7, <1>8

\* The handlers of the second group start, or the notification is done.
LEMMA GroupDoneStep ==
    ASSUME Calm, GroupDone
    PROVE  Calm'
<1>1. /\ cur # NoMsg /\ Waiting = {} /\ NextGroup(procs)
      /\ UNCHANGED <<node, queue, stakeTip, info, rows, main, best, page, dead>>
  BY Zenon DEF GroupDone, env, stakeDB, chainDB
<1>2. Working = {}
  BY <1>1, Zenon DEF Calm, Workers, Waiting, Working
<1>3. \A x : ~Running(x)
  BY <1>2, Zenon DEF Running
<1>4. /\ group \in {1, 2} /\ cur \in Msgs /\ stakeTip = cur.new /\ Connects(cur, previous)
      /\ cur.new \in Blocks \ {Genesis} /\ previous \in Blocks
  BY <1>1, <1>3 DEF Calm, OnTheWay, Types, Stages, Connects
<1>5. CASE group = 1
  <2>1. group' = 2 /\ procs' = procs \cup Spawn(cur, 2) /\ UNCHANGED <<previous, cur>>
    BY <1>1, <1>5 DEF NextGroup
  <2>2. /\ "data" \in Handlers(cur, 2) /\ Handlers(cur, 2) \subseteq {"data", "chain"}
        /\ "chain" \in Handlers(cur, 2) <=> cur.old # NoBlock
    BY DEF Handlers, IsReorg
  <2>3. \A p \in Spawn(cur, 2) :
          /\ p \in ProcType /\ p.old = cur.old /\ p.new = cur.new /\ p.wait /\ p.pc = "start"
          /\ p.h \in {"data", "chain"} /\ p.h \in Handlers(cur, 2)
          /\ \A q \in Spawn(cur, 2) : p.h = q.h => p = q
    BY <1>4, <2>2, SpawnFacts
  <2>4. Working' = Spawn(cur, 2)
    BY <2>1, <2>3, <1>2 DEF Working
  <2>5. \A x \in Handlers(cur, 2) : \E p \in Spawn(cur, 2) : p.h = x
    <3> TAKE x \in Handlers(cur, 2)
    <3>1. Proc(x, cur, TRUE) \in Spawn(cur, 2) /\ Proc(x, cur, TRUE).h = x
      BY Zenon DEF Spawn, Proc
    <3> QED BY <3>1, Zenon
  <2>6. Running("data")' /\ (cur.old # NoBlock => Running("chain")')
    BY <2>2, <2>4, <2>5, Zenon DEF Running
  <2>7. Base' = Base /\ Start' = Start
    BY <2>1, <1>5 DEF Base, Start
  <2>8. procs' \subseteq ProcType
    BY <2>1, <2>3, Zenon DEF Calm, Types
  <2>9. Types'
    BY <1>1, <2>1, <2>8 DEF Calm, Types
  <2>10. OnTheWay'
    BY <1>1, <1>4, <1>5, <2>1, <2>7 DEF Calm, OnTheWay
  <2>11. Workers'
    BY <2>1, <2>2, <2>3, <2>4 DEF Calm, Workers
  <2>12. TableInv' BY <1>1, Zenon DEF Calm, TableInv
  <2>13. best = previous
    BY <1>5 DEF Calm, Stages
  <2>14. Stages'
    BY <1>1, <1>4, <2>1, <2>6 DEF Stages
  <2>15. Cached'
    BY <1>1, <1>4, <1>5, <2>1, <2>7, Zenon DEF Calm, Cached
  <2>16. Stored'
    <3>1. \E p \in Working' : p.pc # "page"
      BY <2>2, <2>3, <2>4, <2>5, Zenon
    <3> QED BY <3>1, <1>1, <2>1, <2>13, Zenon DEF Stored
  <2>17. Switched'
    BY <1>1, <2>1, <2>3, <2>4, <2>6, <2>13, Zenon DEF Switched
  <2> QED BY <2>9, <2>10, <2>11, <2>12, <2>14, <2>15, <2>16, <2>17 DEF Calm
<1>6. CASE group = 2
  <2>1. group' = 0 /\ procs' = procs /\ cur' = NoMsg /\ previous' = cur.new
    BY <1>1, <1>6, SMTT(60) DEF NextGroup
  <2>2. best = cur.new /\ (page.by = "handler" => page.block = cur.new)
    BY <1>2, <1>3, <1>6 DEF Calm, Stages, Stored, Switched
  <2>3. Height(InitTip) <= Height(cur.new)
    <3>1. Height(InitTip) \in Nat /\ Height(previous) \in Nat /\ Height(cur.new) \in Nat
          /\ Height(InitTip) <= Height(previous)
      BY <1>4, HeightNat, PipelineAssumption DEF Calm, OnTheWay
    <3>2. Height(previous) <= Height(cur.new)
      <4>1. CASE cur.old = NoBlock
        <5>1. Height(previous) = Height(cur.new) - 1
          BY <4>1, <1>4, ParentFacts DEF Connects
        <5> QED BY <5>1, <3>1
      <4>2. CASE cur.old # NoBlock
        BY <4>2, <1>4 DEF Connects
      <4> QED BY <4>1, <4>2
    <3> QED BY <3>1, <3>2
  <2>4. Working' = {}
    BY <2>1, <1>2 DEF Working
  <2>5. Types'
    <3>1. NoMsg \in Msgs
      BY DEF NoMsg, Msgs
    <3> QED BY <3>1, <1>1, <1>4, <2>1 DEF Calm, Types
  <2>6. OnTheWay'
    BY <1>1, <1>6, <2>1, <2>3 DEF Calm, OnTheWay, Start
  <2>7. Workers'
    BY <2>1, <2>4, Zenon DEF Calm, Workers
  <2>8. TableInv' BY <1>1, Zenon DEF Calm, TableInv
  <2>9. Stages'
    BY <1>1, <1>4, <2>1, <2>2 DEF Stages
  <2>10. Cached'
    BY <1>1, <2>1 DEF Calm, Cached
  <2>11. Stored' /\ Switched'
    BY <2>1 DEF Stored, Switched
  <2> QED BY <2>5, <2>6, <2>7, <2>8, <2>9, <2>10, <2>11, Zenon DEF Calm
<1> QED BY <1>4, <1>5, <1>6

-----------------------------------------------------------------------------
(* The stake database. *)

\* The stake handler's part of the invariant, when it has brought the stake
\* database to the notification's block.
LEMMA StakeDone ==
    ASSUME Calm, NEW p \in Working, p.h = "stake", Ends(p), stakeTip' = cur.new,
           info \subseteq info',
           \A x \in ChainOf(cur.new) : x \in info' \/ x \in Uncharged,
           \A x \in ChainOf(cur.new) : IsAncestor(Base, x) => x \in info',
           UNCHANGED <<node, queue, previous, cur, group, rows, main, best, page, dead>>
    PROVE  Calm'
<1>1. group = 1 /\ cur.new \in Blocks
  BY DEF Calm, Workers, OnTheWay, Connects
<1>2. /\ procs' \subseteq ProcType /\ Workers'
      /\ \A x : Running(x)' <=> Running(x) /\ x # p.h
  BY HandlerEnds DEF Calm
<1>3. Base' = Base /\ Start' = Start
  BY Zenon DEF Base, Start
<1>4. Types' BY <1>1, <1>2, Zenon DEF Calm, Types
<1>5. OnTheWay' BY <1>3, Zenon DEF Calm, OnTheWay
<1>6. TableInv' BY Zenon DEF Calm, TableInv
<1>7. Stages' BY <1>1, <1>2 DEF Calm, Stages
<1>8. Cached' BY <1>3, Zenon DEF Cached
<1>9. Stored' /\ Switched' BY <1>1 DEF Stored, Switched
<1> QED BY <1>2, <1>4, <1>5, <1>6, <1>7, <1>8, <1>9, Zenon DEF Calm

\* Blocks that are ancestors of each other are the same.
LEMMA AncestorBoth ==
    ASSUME NEW a \in Blocks, NEW b \in Blocks, IsAncestor(a, b), IsAncestor(b, a)
    PROVE  a = b
<1>1. Height(a) <= Height(b) /\ Height(b) <= Height(a)
      /\ (Height(a) = Height(b) => a = b)
  BY AncestorHeight
<1> QED BY <1>1, HeightNat

\* ConnectBlock of the stake database finds the new block's parent at its tip, and
\* leaves both in the pool info cache.
LEMMA StakeConnectStep ==
    ASSUME Calm, NEW p \in Working, StakeConnect(p), fails = 0, fails' = 0
    PROVE  Calm'
<1>1. /\ p.h = "stake" /\ p.old = NoBlock /\ Ends(p)
      /\ UNCHANGED <<node, queue, previous, cur, group, rows, main, best, page, dead>>
  BY Zenon DEF StakeConnect, env, notifier, chainDB
<1>2. group = 1 /\ p.new = cur.new /\ cur.old = NoBlock /\ Running("stake") /\ previous \in Blocks
  BY <1>1, Zenon DEF Calm, Workers, Running, Types
<1>3. cur.new \in Blocks \ {Genesis} /\ Parent(cur.new) = previous /\ stakeTip = previous
  BY <1>2, SMTT(60) DEF Calm, OnTheWay, Connects, Stages
<1>4. stakeTip' = cur.new /\ info' = info \cup {cur.new}
  BY <1>2, <1>3, fails = 0, fails' = 0 DEF StakeConnect, Fail
<1>5. ChainOf(cur.new) = ChainOf(previous) \cup {cur.new}
  BY <1>3, ChainOfChild
<1>6. previous \in info
  <2>1. previous \in ChainOf(previous)
    BY <1>2, AncestorParent, Zenon DEF ChainOf
  <2>2. Height(InitTip) <= Height(previous) /\ Height(InitTip) \in Nat /\ Height(previous) \in Nat
    BY <1>2, HeightNat, PipelineAssumption DEF Calm, OnTheWay
  <2>3. previous \notin Uncharged
    BY <2>2, PipelineAssumption DEF Uncharged
  <2> QED BY <2>1, <2>3, <1>3 DEF Calm, Cached
<1>7. \A x \in ChainOf(cur.new) : x \in info' \/ x \in Uncharged
  BY <1>3, <1>4, <1>5, Zenon DEF Calm, Cached
<1>8. \A x \in ChainOf(cur.new) : IsAncestor(Base, x) => x \in info'
  <2> TAKE x \in ChainOf(cur.new)
  <2> HAVE IsAncestor(Base, x)
  <2>1. Base = previous
    BY <1>2, <1>3 DEF Base
  <2>2. x = cur.new \/ (x \in Blocks /\ IsAncestor(x, previous))
    BY <1>5 DEF ChainOf
  <2>3. x = cur.new \/ x = previous
    BY <2>1, <2>2, <1>2, AncestorBoth
  <2> QED BY <2>3, <1>4, <1>6
<1>9. info \subseteq info'
  BY <1>4
<1> QED BY <1>1, <1>4, <1>7, <1>8, <1>9, StakeDone

\* The common ancestor of two branches is in the pool info cache, when those
\* blocks of the old branch are that main.go loads or that came later.
LEMMA RootIsCached ==
    ASSUME ForksAreCharged, NEW a \in Blocks, NEW b \in Blocks, Forked(a, b),
           \A x \in ChainOf(a) : x \in info \/ x \in Uncharged
    PROVE  Root(a, b) \in info
<1> DEFINE r == Root(a, b)
           c == At(a, Height(r) + 1)
           d == At(b, Height(r) + 1)
<1>1. /\ r \in Blocks /\ IsAncestor(r, a) /\ IsAncestor(r, b)
      /\ \A x \in Blocks : IsAncestor(x, a) /\ IsAncestor(x, b) => Height(x) <= Height(r)
  BY RootFacts
<1> HIDE DEF r
<1>2. r # a /\ r # b
  BY <1>1 DEF Forked
<1>3. /\ c \in Blocks /\ c # Genesis /\ Parent(c) = r /\ Height(c) = Height(r) + 1 /\ IsAncestor(c, a)
  BY <1>1, <1>2, NextOnChain, Zenon
<1>4. /\ d \in Blocks /\ d # Genesis /\ Parent(d) = r /\ Height(d) = Height(r) + 1 /\ IsAncestor(d, b)
  BY <1>1, <1>2, NextOnChain, Zenon
<1> HIDE DEF c, d
<1>5. r \notin Uncharged
  <2> SUFFICES ASSUME r \in Uncharged PROVE FALSE
    OBVIOUS
  <2>1. IsAncestor(c, InitTip) /\ IsAncestor(d, InitTip)
    BY <1>3, <1>4, Zenon DEF ForksAreCharged
  <2>2. c = d
    BY <2>1, <1>3, <1>4, AncestorAt, PipelineAssumption, Zenon
  <2> QED BY <2>2, <1>1, <1>3, <1>4, HeightNat
<1>6. r \in ChainOf(a)
  BY <1>1, Zenon DEF ChainOf
<1> QED BY <1>5, <1>6 DEF r

\* ReorgHandler of the stake database finds the common ancestor below its tip, and
\* leaves it and the new branch in the pool info cache.
LEMMA StakeReorgStep ==
    ASSUME ForksAreCharged, Calm, NEW p \in Working, StakeReorg(p), fails = 0, fails' = 0
    PROVE  Calm'
<1> DEFINE r == Root(p.old, p.new)
<1>1. /\ p.h = "stake" /\ p.old # NoBlock
      /\ UNCHANGED <<node, queue, previous, cur, group, rows, main, best, page>>
  BY Zenon DEF StakeReorg, env, notifier, chainDB
<1>2. /\ group = 1 /\ p.new = cur.new /\ p.old = cur.old /\ Running("stake") /\ previous \in Blocks
  BY <1>1, Zenon DEF Calm, Workers, Running, Types
<1>3. /\ cur.new \in Blocks \ {Genesis} /\ cur.old = previous /\ Forked(previous, cur.new)
      /\ stakeTip = previous
  <2>1. group # 0
    BY <1>2
  <2>2. Connects(cur, previous)
    BY <2>1, Zenon DEF Calm, OnTheWay
  <2>3. stakeTip = previous
    BY <1>2, Zenon DEF Calm, Stages
  <2> QED BY <1>1, <1>2, <2>2, <2>3, Zenon DEF Connects
<1>4. /\ r \in Blocks /\ IsAncestor(r, previous) /\ IsAncestor(r, cur.new) /\ Base = r
      /\ ~(Height(previous) < Height(r))
  <2>1. r = Root(previous, cur.new) /\ Base = r
    BY <1>1, <1>2, <1>3, Zenon DEF Base
  <2> HIDE DEF r
  <2>2. /\ r \in Blocks /\ IsAncestor(r, previous) /\ IsAncestor(r, cur.new)
        /\ Height(r) <= Height(previous) /\ Height(r) \in Nat /\ Height(previous) \in Nat
    BY <1>2, <1>3, <2>1, RootFacts, AncestorHeight, HeightNat, Zenon
  <2> QED BY <2>1, <2>2
<1>5. StakeConnected(p, p.new)
  <2>1. ~(Height(stakeTip) < Height(r)) /\ IsAncestor(r, stakeTip)
    BY <1>3, <1>4, Zenon
  <2>2. ~Fail
    BY fails = 0, fails' = 0 DEF Fail
  <2> QED BY <2>1, <2>2, Zenon DEF StakeReorg
<1>6. /\ stakeTip' = cur.new /\ info' = info \cup (ChainOf(cur.new) \ ChainOf(r))
      /\ Ends(p) /\ UNCHANGED dead
  BY <1>2, <1>5, Zenon DEF StakeConnected
<1>7. r \in info
  <2>1. \A x \in ChainOf(previous) : x \in info \/ x \in Uncharged
    BY <1>3, Zenon DEF Calm, Cached
  <2> QED BY <2>1, <1>2, <1>3, RootIsCached, Zenon
<1> HIDE DEF r
<1>8. \A x \in ChainOf(cur.new) : x \in info' \/ x \in Uncharged
  <2> TAKE x \in ChainOf(cur.new)
  <2>1. CASE x \in ChainOf(r)
    <3>1. x \in ChainOf(previous)
      BY <2>1, <1>2, <1>4, AncestorLine, Zenon DEF ChainOf
    <3> QED BY <3>1, <1>3, <1>6, Zenon DEF Calm, Cached
  <2>2. CASE x \notin ChainOf(r)
    BY <2>2, <1>6
  <2> QED BY <2>1, <2>2
<1>9. \A x \in ChainOf(cur.new) : IsAncestor(Base, x) => x \in info'
  <2> TAKE x \in ChainOf(cur.new)
  <2> HAVE IsAncestor(Base, x)
  <2>1. CASE x \in ChainOf(r)
    <3>1. x = r
      BY <2>1, <1>4, AncestorBoth DEF ChainOf
    <3> QED BY <3>1, <1>6, <1>7
  <2>2. CASE x \notin ChainOf(r)
    BY <2>2, <1>6
  <2> QED BY <2>1, <2>2
<1>10. info \subseteq info'
  BY <1>6, Zenon
<1> QED BY <1>1, <1>6, <1>8, <1>9, <1>10, StakeDone

-----------------------------------------------------------------------------
(* ChainDB. *)

\* A reorganization as ChainDB's handler finds it.
LEMMA ChainFacts ==
    ASSUME Calm, NEW p \in Working, p.h = "chain"
    PROVE  /\ group = 2 /\ p.old = cur.old /\ p.new = cur.new /\ cur.old # NoBlock
           /\ previous \in Blocks /\ best \in Blocks /\ cur.new \in Blocks /\ cur.old = previous
           /\ Root(p.old, p.new) = Base /\ Base \in Blocks
           /\ IsAncestor(Base, previous) /\ IsAncestor(Base, cur.new)
           /\ stakeTip = cur.new /\ Forked(previous, cur.new)
<1>1. /\ group = 2 /\ p.old = cur.old /\ p.new = cur.new /\ cur.old # NoBlock
  BY Zenon DEF Calm, Workers
<1>2. /\ previous \in Blocks /\ best \in Blocks /\ cur.new \in Blocks /\ cur.old = previous
      /\ stakeTip = cur.new /\ Forked(previous, cur.new)
  BY <1>1 DEF Calm, Types, OnTheWay, Connects, Stages
<1>3. Root(p.old, p.new) = Base /\ Base = Root(previous, cur.new)
  BY <1>1, <1>2, Zenon DEF Base
<1>4. Base \in Blocks /\ IsAncestor(Base, previous) /\ IsAncestor(Base, cur.new)
  BY <1>2, <1>3, RootFacts, Zenon
<1> QED BY <1>1, <1>2, <1>3, <1>4, Zenon

\* ChainDB's handler is at a block of the old or the new branch, which is the
\* best block.
LEMMA ChainGoes ==
    ASSUME Calm, NEW p \in Working, p.h = "chain", NEW pc \in {"side", "connect"}, NEW at \in Blocks,
           Goes(p, pc, at), best' = at, main' = ChainOf(at), main' \subseteq rows', IsAncestor(Base, at),
           pc = "side" => IsAncestor(at, previous), pc = "connect" => IsAncestor(at, cur.new),
           UNCHANGED <<node, queue, previous, cur, group, stakeTip, info, page, dead>>
    PROVE  Calm'
<1>1. /\ group = 2 /\ cur.old # NoBlock /\ stakeTip = cur.new
  BY ChainFacts, Zenon
<1>2. /\ procs' \subseteq ProcType /\ Workers'
      /\ \A x : Running(x)' <=> Running(x)
      /\ \A q \in Working' : q.h # p.h => q \in Working
      /\ \A q \in Working' : q.h = p.h => q.pc = pc /\ q.at = at
      /\ \E q \in Working' : q.h = p.h
  BY HandlerGoes DEF Calm
<1>3. Base' = Base /\ Start' = Start
  BY Zenon DEF Base, Start
<1>4. Running("chain")'
  BY <1>2, Zenon DEF Running
<1>5. Types' BY <1>2, Zenon DEF Calm, Types
<1>6. OnTheWay' BY <1>3, Zenon DEF Calm, OnTheWay
<1>7. TableInv' BY Zenon DEF TableInv
<1>8. Stages' BY <1>1, <1>2 DEF Calm, Stages
<1>9. Cached' BY <1>3, Zenon DEF Calm, Cached
<1>10. Stored' BY <1>1, Zenon DEF Stored
<1>11. Switched'
  <2>1. \A q \in Working' : q.h = "data" => q.pc # "save"
    BY <1>1, <1>2, Zenon DEF Calm, Switched
  <2>2. \A q \in Working' : q.h = "chain" => q.pc = pc /\ q.at = at
    BY <1>2, Zenon
  <2> QED BY <1>3, <1>4, <2>1, <2>2, Zenon DEF Switched
<1> QED BY <1>2, <1>5, <1>6, <1>7, <1>8, <1>9, <1>10, <1>11, Zenon DEF Calm

\* switchToSideChain begins at the end of the old branch.
LEMMA ChainReorgStep ==
    ASSUME Calm, NEW p \in Working, ChainReorg(p)
    PROVE  Calm'
<1>1. /\ p.h = "chain" /\ p.pc = "start" /\ Goes(p, "side", best)
      /\ UNCHANGED <<node, queue, previous, cur, group, stakeTip, info, rows, main, best, page, dead>>
  BY Zenon DEF ChainReorg, env, notifier, stakeDB, chainDB
<1>2. best = previous /\ previous \in Blocks /\ IsAncestor(Base, previous)
  BY <1>1, ChainFacts, Zenon DEF Calm, Switched
<1>3. IsAncestor(previous, previous)
  BY <1>2, AncestorParent
<1>4. best' = best /\ main' = ChainOf(best) /\ main' \subseteq rows'
  BY <1>1, Zenon DEF Calm, TableInv
<1> QED BY <1>1, <1>2, <1>3, <1>4, ChainGoes

\* TipToSideChain flags the block it is at, which has a row, and moves on to that
\* block's parent.
LEMMA TipToSideChainStep ==
    ASSUME Calm, NEW p \in Working, TipToSideChain(p), fails = 0, fails' = 0
    PROVE  Calm'
<1>1. /\ p.h = "chain" /\ p.pc = "side" /\ p.at # Root(p.old, p.new) /\ Goes(p, "side", best')
      /\ UNCHANGED <<node, queue, previous, cur, group, stakeTip, info, rows, page, dead>>
  BY Zenon DEF TipToSideChain, env, notifier, stakeDB
<1>2. /\ best = p.at /\ IsAncestor(Base, p.at) /\ IsAncestor(p.at, previous) /\ p.at # Base
      /\ p.at \in Blocks /\ Base \in Blocks /\ previous \in Blocks
  BY <1>1, ChainFacts, Zenon DEF Calm, Switched
<1>3. p.at # Genesis
  BY <1>2, AncestorBoth, ChainAssumption DEF IsAncestor
<1>4. main = ChainOf(p.at) /\ main \subseteq rows /\ p.at \in rows
  <2>1. main = ChainOf(p.at) /\ main \subseteq rows
    BY <1>2, Zenon DEF Calm, TableInv
  <2>2. p.at \in ChainOf(p.at)
    BY <1>2, AncestorParent DEF ChainOf
  <2> QED BY <2>1, <2>2
<1>5. main' = main \ {p.at} /\ best' = Parent(p.at)
  <2>1. ~Fail
    BY fails = 0, fails' = 0, SMTT(60) DEF Fail
  <2> QED BY <2>1, <1>3, <1>4, Zenon DEF TipToSideChain
<1>6. /\ Parent(p.at) \in Blocks /\ IsAncestor(Base, Parent(p.at)) /\ IsAncestor(Parent(p.at), previous)
      /\ ChainOf(Parent(p.at)) = ChainOf(p.at) \ {p.at}
  <2>1. Parent(p.at) \in Blocks /\ IsAncestor(Base, Parent(p.at))
    BY <1>2, <1>3, ProperAncestor, Zenon
  <2>2. IsAncestor(Parent(p.at), p.at)
    BY <2>1, <1>2, <1>3, AncestorParent
  <2> QED BY <2>1, <2>2, <1>2, <1>3, AncestorLine, ChainOfChild, Zenon
<1>7. main' = ChainOf(Parent(p.at)) /\ main' \subseteq rows' /\ Goes(p, "side", Parent(p.at))
  BY <1>1, <1>4, <1>5, <1>6, Zenon
<1> QED BY <1>1, <1>5, <1>6, <1>7, ChainGoes, Zenon

\* The comparison of the heights at the common ancestor does not panic.
LEMMA ChainAtRootStep ==
    ASSUME Calm, NEW p \in Working, ChainAtRoot(p)
    PROVE  Calm'
<1>1. /\ p.h = "chain" /\ p.pc = "side" /\ p.at = Root(p.old, p.new)
      /\ UNCHANGED <<node, queue, previous, cur, group, stakeTip, info, rows, main, best, page>>
  BY Zenon DEF ChainAtRoot, env, notifier, stakeDB, chainDB
<1>2. /\ best = p.at /\ p.at = Base /\ Base \in Blocks /\ IsAncestor(Base, cur.new)
  BY <1>1, ChainFacts, Zenon DEF Calm, Switched
<1>3. main = ChainOf(best) /\ main \subseteq rows /\ best \in rows /\ IsAncestor(Base, Base)
  <2>1. IsAncestor(Base, Base)
    BY <1>2, AncestorParent
  <2>2. main = ChainOf(best) /\ main \subseteq rows
    BY Zenon DEF Calm, TableInv
  <2> QED BY <1>2, <2>1, <2>2, Zenon DEF ChainOf
<1>4. BestHeight = Height(p.at)
  BY <1>2, <1>3 DEF BestHeight
<1>5. Goes(p, "connect", p.at) /\ UNCHANGED dead
  BY <1>4, Zenon DEF ChainAtRoot
<1> QED BY <1>1, <1>2, <1>3, <1>5, ChainGoes, Zenon

\* The next block of the new branch has its winners, so that it is stored.
LEMMA ChainConnectStep ==
    ASSUME Calm, NEW p \in Working, ChainConnect(p), fails = 0, fails' = 0
    PROVE  Calm'
<1> DEFINE b == At(p.new, Height(p.at) + 1)
<1>1. /\ p.h = "chain" /\ p.pc = "connect" /\ p.at # p.new
      /\ UNCHANGED <<node, queue, previous, cur, group, stakeTip, info, page, dead>>
  BY Zenon DEF ChainConnect, env, notifier, stakeDB
<1>2. /\ best = p.at /\ IsAncestor(Base, p.at) /\ IsAncestor(p.at, cur.new) /\ p.at # cur.new
      /\ p.at \in Blocks /\ Base \in Blocks /\ cur.new \in Blocks /\ p.new = cur.new
      /\ group = 2 /\ stakeTip = cur.new
  <2>1. /\ group = 2 /\ cur.old # NoBlock /\ p.new = cur.new /\ stakeTip = cur.new
        /\ best \in Blocks /\ Base \in Blocks /\ cur.new \in Blocks
    BY <1>1, ChainFacts, Zenon
  <2>2. best = p.at /\ IsAncestor(Base, p.at) /\ IsAncestor(p.at, cur.new)
    BY <1>1, <2>1, Zenon DEF Calm, Switched
  <2> QED BY <1>1, <2>1, <2>2, Zenon
<1>3. /\ b \in Blocks /\ b # Genesis /\ Parent(b) = p.at
      /\ IsAncestor(b, cur.new) /\ IsAncestor(p.at, b)
  BY <1>2, NextOnChain
<1>4. Storable(b) /\ StoreBlock(b) /\ Goes(p, "connect", b)
  <2>1. \A x \in ChainOf(cur.new) : IsAncestor(Base, x) => x \in info
    BY <1>2 DEF Calm, Cached
  <2> HIDE DEF b
  <2>2. IsAncestor(Base, b)
    BY <1>2, <1>3, AncestorLine, Zenon
  <2>3. b \in info /\ p.at \in info
    BY <1>2, <1>3, <2>1, <2>2, Zenon DEF ChainOf
  <2>4. Storable(b)
    BY <1>3, <2>3 DEF Storable
  <2>5. ~Fail
    BY fails = 0, fails' = 0 DEF Fail
  <2> QED BY <2>4, <2>5, Zenon DEF ChainConnect, b
<1> HIDE DEF b
<1>5. rows' = rows \cup {b} /\ main' = main \cup {b} /\ best' = b
  BY <1>4, Zenon DEF StoreBlock
<1>6. main' = ChainOf(b) /\ main' \subseteq rows'
  BY <1>2, <1>3, <1>5, ChainOfChild, Zenon DEF Calm, TableInv
<1>7. IsAncestor(Base, b)
  BY <1>2, <1>3, AncestorLine
<1> QED BY <1>1, <1>3, <1>4, <1>5, <1>6, <1>7, ChainGoes, Zenon

\* The comparison of the heights at the end of the new branch does not panic.
LEMMA ChainConnectedStep ==
    ASSUME Calm, NEW p \in Working, ChainConnected(p)
    PROVE  Calm'
<1>1. /\ p.h = "chain" /\ p.pc = "connect" /\ p.at = p.new
      /\ UNCHANGED <<node, queue, previous, cur, group, stakeTip, info, rows, main, best, page>>
  BY Zenon DEF ChainConnected, env, notifier, stakeDB, chainDB
<1>2. best = cur.new /\ p.at = cur.new /\ cur.new \in Blocks /\ group = 2 /\ cur.old # NoBlock
  BY <1>1, ChainFacts, Zenon DEF Calm, Switched
<1>3. best \in rows
  BY <1>2, AncestorParent DEF Calm, TableInv, ChainOf
<1>4. Ends(p) /\ UNCHANGED dead
  <2>1. BestHeight = Height(p.at)
    BY <1>2, <1>3, SMTT(60) DEF BestHeight
  <2> QED BY <2>1, Zenon DEF ChainConnected
<1>5. /\ procs' \subseteq ProcType /\ Workers'
      /\ \A x : Running(x)' <=> Running(x) /\ x # p.h
      /\ \A q \in Working' : q.h # p.h /\ q \in Working
  BY <1>1, <1>4, HandlerEnds, Zenon DEF Calm
<1>6. Base' = Base /\ Start' = Start
  BY <1>1, Zenon DEF Base, Start
<1>7. Types' BY <1>1, <1>4, <1>5, Zenon DEF Calm, Types
<1>8. OnTheWay' BY <1>1, <1>6, Zenon DEF Calm, OnTheWay
<1>9. TableInv' BY <1>1, Zenon DEF Calm, TableInv
<1>10. Stages' BY <1>1, <1>2, <1>5, Zenon DEF Calm, Stages
<1>11. Cached' BY <1>1, <1>6, Zenon DEF Calm, Cached
<1>12. Stored' BY <1>1, <1>2, Zenon DEF Stored
<1>13. Switched' BY <1>1, <1>2, <1>5, Zenon DEF Calm, Switched
<1> QED BY <1>5, <1>7, <1>8, <1>9, <1>10, <1>11, <1>12, <1>13 DEF Calm

-----------------------------------------------------------------------------
(* The block data collector and its savers. *)

\* The collector's handler, which has a new block to itself.
LEMMA DataFacts ==
    ASSUME Calm, NEW p \in Working, p.h = "data"
    PROVE  /\ group = 2 /\ p.old = cur.old /\ p.new = cur.new /\ stakeTip = cur.new
           /\ previous \in Blocks /\ cur.new \in Blocks \ {Genesis}
           /\ cur.old = NoBlock => Parent(cur.new) = previous /\ \A q \in Working : q = p
           /\ cur.old # NoBlock => p.pc # "save"
<1>1. group = 2 /\ p.old = cur.old /\ p.new = cur.new
  BY SMTT(60) DEF Calm, Workers
<1>2. /\ previous \in Blocks /\ cur.new \in Blocks \ {Genesis} /\ stakeTip = cur.new
      /\ cur.old = NoBlock => Parent(cur.new) = previous
      /\ cur.old # NoBlock => p.pc # "save"
  <2>1. group # 0
    BY <1>1
  <2>2. Connects(cur, previous) /\ previous \in Blocks
    BY <2>1, Zenon DEF Calm, OnTheWay, Types
  <2>3. stakeTip = cur.new /\ (cur.old # NoBlock => p.pc # "save")
    BY <1>1, Zenon DEF Calm, Stages, Switched
  <2> QED BY <2>2, <2>3, Zenon DEF Connects
<1>3. ASSUME cur.old = NoBlock, NEW q \in Working PROVE q = p
  <2>1. q \in ProcType /\ q.h # "main"
    BY Zenon DEF Calm, Types, Working
  <2>2. q.h \in {"main", "stake", "data", "chain"}
    BY <2>1 DEF ProcType
  <2>3. q.h = "data"
    BY <2>1, <2>2, <1>1, <1>3, SMTT(60) DEF Calm, Workers
  <2> QED BY <2>3, Zenon DEF Calm, Workers
<1> QED BY <1>1, <1>2, <1>3, Zenon

\* The collector's handler goes on without touching the databases.
LEMMA DataGoes ==
    ASSUME Calm, NEW p \in Working, p.h = "data", p.pc # "page",
           NEW pc \in {"collect", "collectHash", "save", "page"}, NEW at \in Blocks \cup {NoBlock},
           Goes(p, pc, at), pc = "save" => cur.old = NoBlock, pc = "page" => cur.old # NoBlock,
           UNCHANGED <<node, queue, previous, cur, group, stakeTip, info, rows, main, best, page, dead>>
    PROVE  Calm'
<1>1. group = 2 /\ (cur.old = NoBlock => \A q \in Working : q = p)
  BY DataFacts, Zenon
<1>2. /\ procs' \subseteq ProcType /\ Workers'
      /\ \A x : Running(x)' <=> Running(x)
      /\ \A q \in Working' : q.h # p.h => q \in Working
      /\ \A q \in Working' : q.h = p.h => q.pc = pc
      /\ \E q \in Working' : q.h = p.h
  BY HandlerGoes DEF Calm
<1>3. Base' = Base /\ Start' = Start
  BY Zenon DEF Base, Start
<1>4. Types' BY <1>2, Zenon DEF Calm, Types
<1>5. OnTheWay' BY <1>3, Zenon DEF Calm, OnTheWay
<1>6. TableInv' BY Zenon DEF Calm, TableInv
<1>7. Stages' BY <1>2, Zenon DEF Calm, Stages
<1>8. Cached' BY <1>3, Zenon DEF Calm, Cached
<1>9. Stored'
  <2>1. cur.old = NoBlock => (\E q \in Working : q.pc # "page") /\ \E q \in Working' : q.pc # "page"
    BY <1>2, SMTT(60)
  <2> QED BY <2>1, Zenon DEF Calm, Stored
<1>10. Switched'
  BY <1>1, <1>2, <1>3, Zenon DEF Calm, Switched
<1> QED BY <1>2, <1>4, <1>5, <1>6, <1>7, <1>8, <1>9, <1>10, Zenon DEF Calm

\* Collecting data changes no database, however far the node has gone meanwhile.
LEMMA CollectStep ==
    ASSUME Calm, NEW p \in Working, CollectStart(p) \/ CollectData(p)
    PROVE  Calm'
<1>1. /\ p.h = "data" /\ p.pc # "page"
      /\ UNCHANGED <<node, queue, previous, cur, group, stakeTip, info, rows, main, best, page, dead>>
  BY Zenon DEF CollectStart, CollectData, env, notifier, stakeDB, chainDB
<1>2. p.old = cur.old /\ p.new \in Blocks /\ node \in Blocks
  BY <1>1, DataFacts, Zenon DEF Calm, Types
<1>3. PICK pc \in {"collect", "collectHash", "save", "page"}, at \in Blocks \cup {NoBlock} :
        Goes(p, pc, at) /\ (pc = "save" => cur.old = NoBlock) /\ (pc = "page" => cur.old # NoBlock)
  <2>1. CASE CollectStart(p)
    BY <2>1 DEF CollectStart
  <2>2. CASE CollectData(p)
    BY <2>2, <1>2 DEF CollectData
  <2> QED BY <2>1, <2>2, Zenon
<1> QED BY <1>1, <1>3, DataGoes, SMTT(60)

\* ChainDB.Store finds the winners of the new block and stores it on top of its
\* parent.
LEMMA SaveBlockStep ==
    ASSUME Calm, NEW p \in Working, SaveBlock(p), fails = 0, fails' = 0
    PROVE  Calm'
<1>1. /\ p.h = "data" /\ p.pc = "save" /\ Goes(p, "page", NoBlock)
      /\ UNCHANGED <<node, queue, previous, cur, group, stakeTip, info, page, dead>>
  BY Zenon DEF SaveBlock, env, notifier, stakeDB
<1>2. /\ group = 2 /\ p.new = cur.new /\ cur.old = NoBlock /\ previous \in Blocks
      /\ cur.new \in Blocks \ {Genesis} /\ Parent(cur.new) = previous /\ stakeTip = cur.new
      /\ \A q \in Working : q = p
  BY <1>1, DataFacts, Zenon
<1>3. best = previous
  BY <1>1, <1>2, Zenon DEF Calm, Stored
<1>4. Storable(cur.new)
  <2>1. \A x \in ChainOf(cur.new) : IsAncestor(previous, x) => x \in info
    BY <1>2 DEF Calm, Cached, Base
  <2>2. /\ cur.new \in ChainOf(cur.new) /\ IsAncestor(previous, cur.new)
        /\ previous \in ChainOf(cur.new) /\ IsAncestor(previous, previous)
    BY <1>2, AncestorParent DEF ChainOf
  <2> QED BY <1>2, <2>1, <2>2, Zenon DEF Storable
<1>5. rows' = rows \cup {cur.new} /\ main' = main \cup {cur.new} /\ best' = cur.new
  <2>1. ~Fail
    BY fails = 0, fails' = 0 DEF Fail
  <2> QED BY <2>1, <1>2, <1>4, Zenon DEF SaveBlock, StoreBlock
<1>6. TableInv'
  BY <1>2, <1>3, <1>5, ChainOfChild, Zenon DEF Calm, TableInv
<1>7. /\ procs' \subseteq ProcType /\ Workers'
      /\ \A x : Running(x)' <=> Running(x)
      /\ \A q \in Working' : q.h # p.h => q \in Working
      /\ \A q \in Working' : q.h = p.h => q.pc = "page"
  BY <1>1, HandlerGoes DEF Calm
<1>8. Base' = Base /\ Start' = Start
  BY <1>1, Zenon DEF Base, Start
<1>9. Types' BY <1>1, <1>2, <1>5, <1>7, Zenon DEF Calm, Types
<1>10. OnTheWay' BY <1>1, <1>8, Zenon DEF Calm, OnTheWay
<1>11. Stages' BY <1>1, <1>2, <1>7 DEF Calm, Stages
<1>12. Cached' BY <1>1, <1>8, Zenon DEF Calm, Cached
<1>13. Stored'
  <2>1. \A q \in Working' : q.pc = "page"
    BY <1>2, <1>7, Zenon
  <2> QED BY <2>1, <1>1, <1>5, Zenon DEF Stored
<1>14. Switched' BY <1>1, <1>2 DEF Switched
<1> QED BY <1>6, <1>7, <1>9, <1>10, <1>11, <1>12, <1>13, <1>14 DEF Calm

\* explorerUI.Store comes after ChainDB.Store of the same block.
LEMMA SavePageStep ==
    ASSUME Calm, NEW p \in Working, SavePage(p)
    PROVE  Calm'
<1>1. /\ p.h = "data" /\ p.pc = "page" /\ Ends(p) /\ page' = [block |-> p.new, by |-> "handler"]
      /\ UNCHANGED <<node, queue, previous, cur, group, stakeTip, info, rows, main, best, dead>>
  BY Zenon DEF SavePage, env, notifier, stakeDB, chainDB
<1>2. /\ group = 2 /\ p.new = cur.new /\ stakeTip = cur.new
      /\ cur.old = NoBlock => \A q \in Working : q = p
  BY <1>1, DataFacts, Zenon
<1>3. /\ procs' \subseteq ProcType /\ Workers'
      /\ \A x : Running(x)' <=> Running(x) /\ x # p.h
      /\ \A q \in Working' : q.h # p.h /\ q \in Working
      /\ \A q \in Working : q.h # p.h => q \in Working'
  BY <1>1, HandlerEnds DEF Calm
<1>4. Base' = Base /\ Start' = Start
  BY <1>1, Zenon DEF Base, Start
<1>5. Types' BY <1>1, <1>3, Zenon DEF Calm, Types
<1>6. OnTheWay' BY <1>1, <1>4, Zenon DEF Calm, OnTheWay
<1>7. TableInv' BY <1>1, Zenon DEF Calm, TableInv
<1>8. Stages' BY <1>1, <1>2 DEF Stages
<1>9. Cached' BY <1>1, <1>4, Zenon DEF Calm, Cached
<1>10. Stored'
  <2>1. cur.old = NoBlock => best = cur.new /\ Working' = {}
    BY <1>1, <1>2, <1>3, SMTT(60) DEF Calm, Stored
  <2> QED BY <2>1, <1>1, Zenon DEF Stored
<1>11. Switched' BY <1>1, <1>3, <1>4, Zenon DEF Calm, Switched
<1> QED BY <1>3, <1>5, <1>6, <1>7, <1>8, <1>9, <1>10, <1>11, Zenon DEF Calm

-----------------------------------------------------------------------------
(* The theorems. *)

\* main.go has brought the databases in step before it listens.
LEMMA InitInv == Init => Inv
<1> SUFFICES ASSUME Init PROVE Inv
  BY Zenon
<1>1. InitTip \in Blocks /\ node = InitTip /\ previous = InitTip /\ queue = <<>> /\ group = 0
      /\ cur = NoMsg /\ stakeTip = InitTip /\ best = InitTip /\ ~dead
  BY PipelineAssumption, Zenon DEF Init
<1> DEFINE p == Proc("main", NoMsg, FALSE)
<1>2. p \in ProcType /\ p.h = "main" /\ ~p.wait /\ NoMsg \in Msgs
  BY Zenon DEF Proc, NoMsg, ProcType, Msgs
<1>3. procs = {p}
  BY DEF Init
<1> HIDE DEF p
<1>4. Working = {} /\ procs \subseteq ProcType
  BY <1>2, <1>3 DEF Working
<1>5. Types
  BY <1>1, <1>2, <1>4 DEF Types
<1>6. OnTheWay
  BY <1>1, LeadsEmpty, HeightNat DEF OnTheWay, Start
<1>7. Workers
  BY <1>2, <1>3, <1>4, Zenon DEF Workers
<1>8. TableInv
  BY Zenon DEF Init, TableInv
<1>9. Stages
  BY <1>1 DEF Init, Stages
<1>10. Cached
  <2>1. ASSUME NEW x \in ChainOf(InitTip) PROVE x \in info \/ x \in Uncharged
    <3>1. Height(x) \in Nat /\ Height(InitTip) \in Nat /\ Charged \in Nat
      BY <1>1, HeightNat, PipelineAssumption, Zenon DEF ChainOf
    <3> QED BY <3>1 DEF Init, Uncharged
  <2> QED BY <1>1, <2>1, Zenon DEF Cached
<1>11. Stored /\ Switched
  <2>1. group # 2
    BY <1>1
  <2> QED BY <2>1, Zenon DEF Stored, Switched
<1>12. fails \in Nat /\ lates \in Nat
  BY DEF Init
<1> QED BY <1>5, <1>6, <1>7, <1>8, <1>9, <1>10, <1>11, <1>12, Zenon DEF Inv, Calm

\* Failures and missed deadlines are only ever added.
LEMMA DisturbedStays ==
    ASSUME fails \in Nat, lates \in Nat, [Next]_vars
    PROVE  /\ fails' \in Nat /\ lates' \in Nat
           /\ Undisturbed' => Undisturbed
<1>1. fails' = fails \/ fails' = fails + 1
  BY Zenon DEF Next, vars, NodeExtends, NodeReorganizes, Notify, MainStep, MainCollect, MainStore,
     Notifying, ProcessBlock, SignalReorg, GroupDone, Deadline, StakeStep, StakeConnect, StakeReorg,
     ChainStep, ChainReorg, TipToSideChain, ChainAtRoot, ChainConnect, ChainConnected,
     DataStep, CollectStart, CollectData, CollectFails, SaveBlock, SavePage, Fail
<1>2. lates' = lates \/ lates' = lates + 1
  BY Zenon DEF Next, vars, NodeExtends, NodeReorganizes, Notify, MainStep, MainCollect, MainStore,
     Notifying, ProcessBlock, SignalReorg, GroupDone, Deadline, StakeStep, StakeConnect, StakeReorg,
     ChainStep, ChainReorg, TipToSideChain, ChainAtRoot, ChainConnect, ChainConnected,
     DataStep, CollectStart, CollectData, CollectFails, SaveBlock, SavePage, Fail
<1> QED BY <1>1, <1>2, SMTT(60) DEF Undisturbed

\* The handlers' steps are those of Working's processes.
LEMMA HandlerStep ==
    ASSUME ForksAreCharged, Calm, StakeStep \/ ChainStep \/ DataStep, fails = 0, fails' = 0
    PROVE  Calm'
<1>1. ASSUME StakeStep PROVE Calm'
  <2>1. PICK p \in procs : StakeConnect(p) \/ StakeReorg(p)
    BY <1>1, Zenon DEF StakeStep
  <2>2. p \in Working
    BY <2>1 DEF Working, StakeConnect, StakeReorg
  <2> QED BY <2>1, <2>2, StakeConnectStep, StakeReorgStep
<1>2. ASSUME ChainStep PROVE Calm'
  <2>1. PICK p \in procs : \/ ChainReorg(p) \/ TipToSideChain(p) \/ ChainAtRoot(p)
                           \/ ChainConnect(p) \/ ChainConnected(p)
    BY <1>2, Zenon DEF ChainStep
  <2>2. p \in Working
    BY <2>1, Zenon DEF Working, ChainReorg, TipToSideChain, ChainAtRoot, ChainConnect, ChainConnected
  <2> QED BY <2>1, <2>2, ChainReorgStep, TipToSideChainStep, ChainAtRootStep, ChainConnectStep,
             ChainConnectedStep
<1>3. ASSUME DataStep PROVE Calm'
  <2>1. PICK p \in procs : \/ CollectStart(p) \/ CollectData(p) \/ CollectFails(p)
                           \/ SaveBlock(p) \/ SavePage(p)
    BY <1>3, Zenon DEF DataStep
  <2>2. p \in Working
    BY <2>1, Zenon DEF Working, CollectStart, CollectData, CollectFails, SaveBlock, SavePage
  <2>3. ~CollectFails(p)
    BY fails = 0, fails' = 0 DEF CollectFails, Fail
  <2> QED BY <2>1, <2>2, <2>3, CollectStep, SaveBlockStep, SavePageStep, Zenon
<1> QED BY <1>1, <1>2, <1>3

\* Every step preserves the invariant.
LEMMA NextInv ==
    ASSUME ForksAreCharged
    PROVE  Inv /\ [Next]_vars => Inv'
<1> SUFFICES ASSUME Inv, [Next]_vars PROVE Inv'
  OBVIOUS
<1>1. fails' \in Nat /\ lates' \in Nat /\ (Undisturbed' => Undisturbed)
  BY DisturbedStays DEF Inv
<1> SUFFICES ASSUME Undisturbed' PROVE Calm'
  BY <1>1 DEF Inv
<1>2. Calm /\ fails = 0 /\ fails' = 0 /\ lates = 0 /\ lates' = 0
  BY <1>1 DEF Inv, Undisturbed
<1>3. CASE UNCHANGED vars
  <2>1. UNCHANGED <<node, queue, previous, cur, group, procs, stakeTip, info, rows, main, best, page, dead>>
    BY <1>3, Zenon DEF vars
  <2>2. Types' /\ OnTheWay'
    BY <1>2, <2>1, Zenon DEF Calm, Types, OnTheWay, Start
  <2> QED BY <1>2, <2>1, <2>2, Still, Zenon DEF Calm
<1>4. CASE Next
  <2>1. ~Deadline
    BY <1>2 DEF Deadline
  <2> QED BY <1>2, <1>4, <2>1, NodeExtendsStep, NodeReorganizesStep, MainStepStep, DequeueStep,
             GroupDoneStep, HandlerStep, Zenon DEF Next, Notifying
<1> QED BY <1>3, <1>4

\* The invariant holds throughout.
LEMMA Invariance == ASSUME ForksAreCharged PROVE Spec => []Inv
BY InitInv, NextInv, PTL DEF Spec

\* The invariant has the three properties.
LEMMA InvImplies == Inv => InStep /\ PageShowsBest /\ AssertionsHold
<1> SUFFICES ASSUME Inv PROVE InStep /\ PageShowsBest /\ AssertionsHold
  OBVIOUS
<1>1. AssertionsHold
  BY Zenon DEF Inv, AssertionsHold, Calm, Types
<1>2. ASSUME Undisturbed, cur = NoMsg
      PROVE  /\ previous = stakeTip /\ previous = best /\ main = ChainOf(best)
             /\ page.by = "handler" => page.block = best
  BY <1>2, Zenon DEF Inv, Calm, OnTheWay, Stages, TableInv
<1> QED BY <1>1, <1>2 DEF InStep, PageShowsBest

\* Between two notifications the notifier, the stake database and ChainDB are at
\* the same block and ChainDB's main chain is that block's, for every tree of
\* blocks and every order of the handlers: SyncHandlerDeadline not missed and no
\* RPC failed, the handler groups of the Notifier keep the databases in step.
THEOREM HandlersKeepInStep == ASSUME ForksAreCharged PROVE Spec => []InStep
BY Invariance, InvImplies, PTL

\* Between two notifications the home page that a handler stored shows the best
\* block: the block data handler and ChainDB's handler of one group end at the
\* same block, whichever is first.
THEOREM PageFollows == ASSUME ForksAreCharged PROVE Spec => []PageShowsBest
BY Invariance, InvImplies, PTL

\* The panics of the reorganization handlers (no common ancestor below the tip,
\* wrong height after the switch) and the fatal errors of main.go are not reached,
\* unless an RPC failed or a handler was late.
THEOREM HandlersDoNotPanic == ASSUME ForksAreCharged PROVE Spec => []AssertionsHold
BY Invariance, InvImplies, PTL
=============================================================================
