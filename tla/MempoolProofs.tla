--------------------------- MODULE MempoolProofs ---------------------------
(***************************************************************************)
(* Proofs about the mempool monitor, for any transactions, votes, tickets   *)
(* and bounds.                                                              *)
(*                                                                         *)
(* The counts follow from the types: every step that changes the inventory  *)
(* sets it anew or adds one transaction.  That the inventory is the node's  *)
(* mempool needs what is on its way: with no block in the queue, the        *)
(* transactions in the queue are in the mempool (QueueInv), and so is one   *)
(* that its handler is about to insert, what a handler has collected lacks  *)
(* only transactions of the queue (JobsInv), and the inventory lacks only   *)
(* those and what is about to be inserted (MonInv).  A block in the queue   *)
(* ends all claims: it leads to a new collection.                           *)
(***************************************************************************)
EXTENDS Mempool, SequenceTheorems, FiniteSetTheorems, TLAPS

Msgs == [is : {"tx"}, tx : Txs] \cup [is : {"block", "reorg"}, tx : {NoTx}]

Jobs == [at : {"insert", "best", "txs", "install"}, block : Int, time : Int, txs : SUBSET Txs,
         whole : BOOLEAN, late : BOOLEAN]

Types ==
    /\ clock \in Nat
    /\ node \in [pool : SUBSET Txs, block : Nat, time : Int, arrival : Nat]
    /\ node.arrival <= clock
    /\ accepted \in [Txs -> Int]
    /\ queue \in Seq(Msgs)
    /\ jobs \in Seq(Jobs)
    /\ fresh \in BOOLEAN

Tallies == [tickets : SUBSET {Ticket[v] : v \in Votes}, count : Nat]

Mons == [block : Int, time : Int, txs : SUBSET Txs, all : Nat, tally : Tallies]

Counts == mon \in Mons /\ CountsAgree

\* No block and no reorganization in the queue.
OnlyTxs == \A i \in 1 .. Len(queue) : queue[i].is = "tx"

Queued(t) == \E i \in 1 .. Len(queue) : queue[i].is = "tx" /\ queue[i].tx = t

\* The message at i comes after all blocks of the queue.
Last(i) == \A j \in i .. Len(queue) : queue[j].is = "tx"

\* What the queue announces after the last block is in the mempool.
QueueInv ==
    \A i \in 1 .. Len(queue) :
        queue[i].is = "tx" =>
            /\ queue[i].tx \in Votes => VotesOn[queue[i].tx] <= node.block
            /\ Last(i) => queue[i].tx \in node.pool /\ accepted[queue[i].tx] >= node.arrival

\* What a handler that the notifier waits for has read is still so, unless the
\* queue has a block or says what has changed.
JobInv(j) ==
    ~j.late /\ OnlyTxs =>
        /\ j.at = "insert" =>
              \E t \in node.pool : j.txs = {t} /\ (t \in Votes => VotesOn[t] <= node.block)
        /\ j.at \in {"txs", "install"} => j.block = node.block /\ j.time = node.time
        /\ j.at = "install" /\ j.whole =>
              /\ j.txs \subseteq node.pool
              /\ \A t \in node.pool \ j.txs : Queued(t)

JobsInv == \A i \in 1 .. Len(jobs) : JobInv(jobs[i])

\* Nothing runs but handlers that are about to insert a transaction.
Inserting == \A i \in 1 .. Len(jobs) : jobs[i].at = "insert" /\ ~jobs[i].late

Handled(t) == \E i \in 1 .. Len(jobs) : jobs[i].at = "insert" /\ t \in jobs[i].txs

MonInv ==
    fresh /\ Inserting /\ OnlyTxs =>
        /\ mon.block = node.block
        /\ mon.txs \subseteq node.pool
        /\ \A t \in node.pool \ mon.txs :
              Queued(t) \/ Handled(t) \/ accepted[t] \in node.arrival .. mon.time - 1

IInv == Types /\ Counts /\ QueueInv /\ JobsInv /\ MonInv

Data == IsFiniteSet(Txs) /\ Votes \subseteq Txs /\ VotesOn \in [Votes -> Int] /\ Skew \in Int

-----------------------------------------------------------------------------
(* The counts. *)

\* The votes of a finite set spend finitely many tickets.
LEMMA TicketsFinite ==
    ASSUME NEW S, IsFiniteSet(S)
    PROVE  IsFiniteSet({Ticket[v] : v \in S})
<1> DEFINE T == {Ticket[v] : v \in S}
           f == [v \in S |-> Ticket[v]]
<1>1. f \in Surjection(S, T)
  BY DEF Surjection
<1> HIDE DEF f
<1> QED
  BY <1>1, FS_Surjection

\* The tickets that voted are finitely many, and Tally counts them.
LEMMA TallyType ==
    ASSUME Data, NEW b, NEW S \in SUBSET Txs
    PROVE  Tally(b, S) \in Tallies
<1> DEFINE V == {v \in S \cap Votes : VotesOn[v] = b}
           T == {Ticket[v] : v \in V}
<1>1. IsFiniteSet(V)
  <2>1. V \subseteq Txs OBVIOUS
  <2> QED BY <2>1, FS_Subset DEF Data
<1>2. IsFiniteSet(T)
  BY <1>1, TicketsFinite
<1>3. Cardinality(T) \in Nat
  BY <1>2, FS_CardinalityType
<1>4. T \in SUBSET {Ticket[v] : v \in Votes}
  OBVIOUS
<1>5. Tally(b, S) = [tickets |-> T, count |-> Cardinality(T)]
  BY DEF Tally
<1> QED
  BY <1>3, <1>4, <1>5 DEF Tallies

\* ParseTxns counts what it has.
LEMMA InventoryCounts ==
    ASSUME Data, NEW b \in Int, NEW s \in Int, NEW S \in SUBSET Txs
    PROVE  /\ Inventory(b, s, S) \in Mons
           /\ Inventory(b, s, S).block = b /\ Inventory(b, s, S).time = s
           /\ Inventory(b, s, S).txs = S
           /\ Inventory(b, s, S).all = Cardinality(S)
           /\ Inventory(b, s, S).tally = Tally(b, S)
<1>1. IsFiniteSet(S)
  BY FS_Subset DEF Data
<1>2. Cardinality(S) \in Nat
  BY <1>1, FS_CardinalityType
<1> QED
  BY <1>2, TallyType DEF Inventory, Mons

\* TxHandler adds one to the counts of a new transaction: the number of all, and
\* that of the tickets that voted if this one's has not yet.
LEMMA WithTxCounts ==
    ASSUME Data, Counts, NEW t \in Txs, t \notin mon.txs
    PROVE  /\ WithTx(t) \in Mons
           /\ WithTx(t).block = mon.block /\ WithTx(t).time = mon.time
           /\ WithTx(t).txs = mon.txs \cup {t}
           /\ WithTx(t).all = Cardinality(WithTx(t).txs)
           /\ WithTx(t).tally = Tally(WithTx(t).block, WithTx(t).txs)
<1> DEFINE V(S) == {v \in S \cap Votes : VotesOn[v] = mon.block}
           T(S) == {Ticket[v] : v \in V(S)}
           S1 == mon.txs \cup {t}
<1>1. mon \in Mons /\ mon.all = Cardinality(mon.txs) /\ mon.tally = Tally(mon.block, mon.txs)
  BY DEF Counts, CountsAgree
<1>2. mon.txs \in SUBSET Txs /\ mon.block \in Int /\ mon.time \in Int /\ mon.all \in Nat /\ mon.tally \in Tallies
  BY <1>1 DEF Mons
<1>3. IsFiniteSet(mon.txs)
  BY <1>2, FS_Subset DEF Data
<1>4. Cardinality(S1) = mon.all + 1
  BY <1>1, <1>3, FS_AddElement, Zenon
<1>5. mon.tally = [tickets |-> T(mon.txs), count |-> Cardinality(T(mon.txs))]
  BY <1>1 DEF Tally
<1>6. mon.tally.tickets = T(mon.txs) /\ mon.tally.count = Cardinality(T(mon.txs))
  BY <1>5
<1>7. Tally(mon.block, S1) = [tickets |-> T(S1), count |-> Cardinality(T(S1))]
  BY DEF Tally
<1> HIDE DEF T, V, S1
<1>8. CASE t \in Votes /\ VotesOn[t] = mon.block /\ Ticket[t] \notin mon.tally.tickets
  <2>1. WithTx(t) = [mon EXCEPT !.txs = @ \cup {t}, !.all = @ + 1,
                        !.tally = [tickets |-> mon.tally.tickets \cup {Ticket[t]},
                                   count |-> mon.tally.count + 1]]
    BY <1>8 DEF WithTx
  <2>2. T(S1) = T(mon.txs) \cup {Ticket[t]}
    BY <1>8 DEF T, V, S1
  <2>3. IsFiniteSet(T(mon.txs))
    <3>1. V(mon.txs) \subseteq mon.txs BY DEF V
    <3>2. IsFiniteSet(V(mon.txs)) BY <3>1, <1>3, FS_Subset
    <3> QED BY <3>2, TicketsFinite DEF T
  <2>4. Cardinality(T(S1)) = mon.tally.count + 1
    <3>1. Ticket[t] \notin T(mon.txs)
      BY <1>6, <1>8
    <3>2. Cardinality(T(mon.txs) \cup {Ticket[t]}) = Cardinality(T(mon.txs)) + 1
      BY <2>3, <3>1, FS_AddElement, Zenon
    <3> QED BY <1>6, <2>2, <3>2
  <2>5. Tally(mon.block, S1) = [tickets |-> mon.tally.tickets \cup {Ticket[t]}, count |-> mon.tally.count + 1]
    BY <1>6, <1>7, <2>2, <2>4, Zenon
  <2>6. Tally(mon.block, S1) \in Tallies
    BY <1>2, TallyType DEF S1
  <2> DEFINE y == Tally(mon.block, S1)
  <2>7. WithTx(t) = [mon EXCEPT !.txs = @ \cup {t}, !.all = @ + 1, !.tally = y]
    BY <2>1, <2>5
  <2>8. y \in Tallies
    BY <2>6
  <2> HIDE DEF y
  <2>9. /\ WithTx(t) \in Mons
        /\ WithTx(t).block = mon.block /\ WithTx(t).time = mon.time
        /\ WithTx(t).txs = S1 /\ WithTx(t).all = mon.all + 1 /\ WithTx(t).tally = y
    <3> DEFINE e == WithTx(t)
           n == mon.all + 1
    <3>1. e = [mon EXCEPT !.txs = S1, !.all = n, !.tally = y]
      BY <2>7 DEF S1
    <3>2. S1 \in SUBSET Txs /\ n \in Nat /\ y \in Tallies
      BY <1>2, <2>8 DEF S1
    <3> HIDE DEF e, n
    <3>3. /\ e \in Mons
          /\ e.block = mon.block /\ e.time = mon.time
          /\ e.txs = S1 /\ e.all = n /\ e.tally = y
      BY <1>1, <3>1, <3>2, Zenon DEF Mons
    <3> QED BY <3>3 DEF e, n
  <2> QED
    BY <1>4, <2>9 DEF S1, y
<1>9. CASE ~(t \in Votes /\ VotesOn[t] = mon.block /\ Ticket[t] \notin mon.tally.tickets)
  <2>1. WithTx(t) = [mon EXCEPT !.txs = @ \cup {t}, !.all = @ + 1, !.tally = mon.tally]
    BY <1>9, Zenon DEF WithTx
  <2>2. T(S1) = T(mon.txs)
    <3>1. CASE ~(t \in Votes /\ VotesOn[t] = mon.block)
      BY <3>1 DEF T, V, S1
    <3>2. CASE Ticket[t] \in T(mon.txs)
      BY <3>2 DEF T, V, S1
    <3> QED BY <1>6, <1>9, <3>1, <3>2
  <2>3. Tally(mon.block, S1) = mon.tally
    BY <1>5, <1>7, <2>2
  <2>4. /\ WithTx(t) \in Mons
        /\ WithTx(t).block = mon.block /\ WithTx(t).time = mon.time
        /\ WithTx(t).txs = S1 /\ WithTx(t).all = mon.all + 1 /\ WithTx(t).tally = mon.tally
    <3> DEFINE y == mon.tally
    <3> DEFINE e == WithTx(t)
           n == mon.all + 1
    <3>1. e = [mon EXCEPT !.txs = S1, !.all = n, !.tally = y]
      BY <2>1 DEF S1
    <3>2. S1 \in SUBSET Txs /\ n \in Nat /\ y \in Tallies
      BY <1>2, SMTT(60) DEF S1
    <3> HIDE DEF e, n, y
    <3>3. /\ e \in Mons
          /\ e.block = mon.block /\ e.time = mon.time
          /\ e.txs = S1 /\ e.all = n /\ e.tally = y
      BY <1>1, <3>1, <3>2, Zenon DEF Mons
    <3> QED BY <3>3 DEF e, n, y
  <2> QED
    BY <1>4, <2>3, <2>4 DEF S1
<1> QED
  BY <1>8, <1>9

-----------------------------------------------------------------------------
(* The node. *)

\* The fields of the node and of the jobs, with their types.
LEMMA FieldTypes ==
    ASSUME Types
    PROVE  /\ node.pool \in SUBSET Txs /\ node.block \in Nat /\ node.time \in Int /\ node.arrival \in Nat
           /\ node.block \in Int /\ node.arrival \in Int /\ clock \in Int
           /\ Len(queue) \in Nat /\ Len(jobs) \in Nat
           /\ \A i \in 1 .. Len(queue) : queue[i] \in Msgs
           /\ \A i \in 1 .. Len(queue) : queue[i].is = "tx" => queue[i].tx \in Txs
           /\ \A i \in 1 .. Len(jobs) :
                 /\ jobs[i] \in Jobs
                 /\ jobs[i].block \in Int /\ jobs[i].time \in Int /\ jobs[i].txs \in SUBSET Txs
                 /\ jobs[i].late \in BOOLEAN /\ jobs[i].whole \in BOOLEAN
<1>1. \A i \in 1 .. Len(queue) : queue[i] \in Msgs
  BY DEF Types
<1>2. \A i \in 1 .. Len(jobs) : jobs[i] \in Jobs
  BY DEF Types
<1>3. node.pool \in SUBSET Txs /\ node.block \in Nat /\ node.time \in Int /\ node.arrival \in Nat
  BY DEF Types
<1>4. \A i \in 1 .. Len(queue) : queue[i].is = "tx" => queue[i].tx \in Txs
  BY <1>1 DEF Msgs
<1>5. Len(queue) \in Nat /\ Len(jobs) \in Nat
  BY LenProperties DEF Types
<1>6. node.block \in Int /\ node.arrival \in Int /\ clock \in Int
  BY <1>3 DEF Types
<1> QED
  BY <1>1, <1>2, <1>3, <1>4, <1>5, <1>6, SMTT(60) DEF Jobs

\* The claims depend on nothing but these.
LEMMA SameInv ==
    ASSUME IInv, UNCHANGED <<node, accepted, queue, mon, jobs, fresh>>
    PROVE  Counts' /\ QueueInv' /\ JobsInv' /\ MonInv'
<1>1. Counts'
  BY Zenon DEF IInv, Counts, CountsAgree, Tally
<1>2. QueueInv'
  BY Zenon DEF IInv, QueueInv, Last
<1>3. OnlyTxs' = OnlyTxs /\ \A t : Queued(t)' = Queued(t)
  BY Zenon DEF OnlyTxs, Queued
<1>4. JobsInv'
  <2> SUFFICES ASSUME NEW i \in 1 .. Len(jobs)
               PROVE  JobInv(jobs[i])'
    BY Zenon DEF JobsInv
  <2>1. JobInv(jobs[i])
    BY Zenon DEF IInv, JobsInv
  <2> QED BY <1>3, <2>1, Zenon DEF JobInv
<1>5. Inserting' = Inserting /\ \A t : Handled(t)' = Handled(t)
  BY Zenon DEF Inserting, Handled
<1>6. MonInv'
  BY <1>3, <1>5, Zenon DEF IInv, MonInv
<1> QED
  BY <1>1, <1>2, <1>4, <1>6

\* The clock goes on.
LEMMA TickInv ==
    ASSUME IInv, Tick
    PROVE  IInv'
<1>1. /\ clock' = clock + 1
      /\ UNCHANGED <<node, accepted, queue, fresh, mon, jobs>>
  BY DEF Tick, monitor
<1>2. Types'
  BY <1>1, FieldTypes, SMTT(60) DEF IInv, Types
<1>3. Counts' /\ QueueInv' /\ JobsInv' /\ MonInv'
  BY <1>1, SameInv
<1> QED
  BY <1>2, <1>3 DEF IInv

\* The queue after a notification.
LEMMA AppendQueue ==
    ASSUME Types, NEW m \in Msgs, queue' = Append(queue, m)
    PROVE  /\ queue' \in Seq(Msgs)
           /\ Len(queue') = Len(queue) + 1
           /\ \A i \in 1 .. Len(queue) : queue'[i] = queue[i]
           /\ queue'[Len(queue) + 1] = m
<1>1. queue \in Seq(Msgs)
  BY DEF Types
<1> QED
  BY <1>1

\* The node accepts a transaction: it is in the mempool and in the queue.
LEMMA AcceptInv ==
    ASSUME Data, IInv, NEW t \in Txs, Accept(t)
    PROVE  IInv'
<1> DEFINE m == [is |-> "tx", tx |-> t]
<1>1. /\ t \in Votes => VotesOn[t] <= node.block
      /\ node' = [node EXCEPT !.pool = @ \cup {t}]
      /\ accepted' = [accepted EXCEPT ![t] = clock]
      /\ queue' = Append(queue, m)
      /\ UNCHANGED <<clock, fresh, mon, jobs>>
  BY DEF Accept, monitor
<1>2. m \in Msgs /\ m.is = "tx" /\ m.tx = t
  BY DEF Msgs
<1> HIDE DEF m
<1>3. /\ node' \in [pool : SUBSET Txs, block : Nat, time : Int, arrival : Nat]
      /\ node'.pool = node.pool \cup {t}
      /\ node'.block = node.block /\ node'.time = node.time /\ node'.arrival = node.arrival
  BY <1>1, Zenon DEF IInv, Types
<1>4. /\ queue' \in Seq(Msgs) /\ Len(queue') = Len(queue) + 1
      /\ \A i \in 1 .. Len(queue) : queue'[i] = queue[i]
      /\ queue'[Len(queue) + 1] = m
  BY <1>1, <1>2, AppendQueue DEF IInv
<1>5. accepted' \in [Txs -> Int] /\ accepted'[t] = clock /\ \A u \in Txs \ {t} : accepted'[u] = accepted[u]
  BY <1>1, FieldTypes DEF IInv, Types
<1>6. Types'
  BY <1>1, <1>3, <1>4, <1>5, Zenon DEF IInv, Types
<1>7. /\ OnlyTxs' => OnlyTxs
      /\ \A u : Queued(u) => Queued(u)'
      /\ Queued(t)'
      /\ \A i \in 1 .. Len(queue) : Last(i)' => Last(i)
  <2>1. Len(queue) \in Nat
    BY FieldTypes DEF IInv
  <2>2. \A i \in 1 .. Len(queue) : i \in 1 .. Len(queue')
    BY <1>4, <2>1
  <2>3. OnlyTxs' => OnlyTxs
    BY <1>4, <2>2 DEF OnlyTxs
  <2>4. \A u : Queued(u) => Queued(u)'
    BY <1>4, <2>2 DEF Queued
  <2>5. Queued(t)'
    BY <1>2, <1>4, <2>1 DEF Queued
  <2>6. ASSUME NEW i \in 1 .. Len(queue), Last(i)'
        PROVE  Last(i)
    BY <1>4, <2>1, <2>6 DEF Last
  <2> QED
    BY <2>3, <2>4, <2>5, <2>6
<1>8. Counts'
  BY <1>1, SMTT(60) DEF IInv, Counts, CountsAgree, Tally
<1>9. QueueInv'
  <2> SUFFICES ASSUME NEW i \in 1 .. Len(queue'), queue'[i].is = "tx"
               PROVE  /\ queue'[i].tx \in Votes => VotesOn[queue'[i].tx] <= node'.block
                      /\ Last(i)' => queue'[i].tx \in node'.pool /\ accepted'[queue'[i].tx] >= node'.arrival
    BY DEF QueueInv
  <2>1. CASE i \in 1 .. Len(queue)
    <3>1. queue'[i] = queue[i] /\ queue[i].tx \in Txs
      BY <1>4, <2>1, FieldTypes DEF IInv
    <3>2. /\ queue[i].tx \in Votes => VotesOn[queue[i].tx] <= node.block
          /\ Last(i) => queue[i].tx \in node.pool /\ accepted[queue[i].tx] >= node.arrival
      BY <2>1, <3>1 DEF IInv, QueueInv
    <3>3. Last(i)' => Last(i)
      BY <1>7, <2>1
    <3>4. clock >= node.arrival
      BY DEF IInv, Types
    <3>5. CASE queue[i].tx = t
      BY <1>3, <1>5, <3>1, <3>2, <3>3, <3>4, <3>5, Zenon
    <3>6. CASE queue[i].tx # t
      BY <1>3, <1>5, <3>1, <3>2, <3>3, <3>6, Zenon
    <3> QED BY <3>5, <3>6
  <2>2. CASE i = Len(queue) + 1
    <3>1. queue'[i].tx = t
      BY <1>2, <1>4, <2>2
    <3>2. clock >= node.arrival
      BY DEF IInv, Types
    <3> QED BY <1>1, <1>3, <1>5, <3>1, <3>2
  <2> QED
    BY <1>4, <2>1, <2>2, FieldTypes DEF IInv
<1>10. JobsInv'
  <2> SUFFICES ASSUME NEW i \in 1 .. Len(jobs)
               PROVE  JobInv(jobs[i])'
    BY <1>1 DEF JobsInv
  <2>1. JobInv(jobs[i])
    BY DEF IInv, JobsInv
  <2> QED BY <1>1, <1>3, <1>7, <2>1 DEF JobInv
<1>11. MonInv'
  <2>a. Inserting' = Inserting /\ \A u : Handled(u)' = Handled(u)
    BY <1>1 DEF Inserting, Handled
  <2> SUFFICES ASSUME fresh, Inserting, OnlyTxs
               PROVE  /\ mon.block = node'.block
                      /\ mon.txs \subseteq node'.pool
                      /\ \A u \in node'.pool \ mon.txs :
                            Queued(u)' \/ Handled(u) \/ accepted'[u] \in node'.arrival .. mon.time - 1
    BY <1>1, <1>7, <2>a DEF MonInv
  <2>1. /\ mon.block = node.block /\ mon.txs \subseteq node.pool
        /\ \A u \in node.pool \ mon.txs :
              Queued(u) \/ Handled(u) \/ accepted[u] \in node.arrival .. mon.time - 1
    BY DEF IInv, MonInv
  <2>2. ASSUME NEW u \in node'.pool \ mon.txs
        PROVE  Queued(u)' \/ Handled(u) \/ accepted'[u] \in node'.arrival .. mon.time - 1
    <3>1. CASE u = t
      BY <1>7, <3>1
    <3>2. CASE u # t
      <4>1. u \in node.pool \ mon.txs /\ u \in Txs
        BY <1>3, <2>2, <3>2, FieldTypes DEF IInv
      <4> QED BY <1>3, <1>5, <1>7, <2>1, <3>2, <4>1, Zenon
    <3> QED BY <3>1, <3>2
  <2> QED
    BY <1>3, <2>1, <2>2
<1> QED
  BY <1>6, <1>8, <1>9, <1>10, <1>11 DEF IInv

\* A new best block, with or without a reorganization: the notification is the
\* last of the queue, and ends all claims.
LEMMA NewBestInv ==
    ASSUME Data, IInv, NEW S \in SUBSET node.pool, NEW time \in node.time .. clock + Skew,
           BlockConnected(S, time) \/ Reorganization(S, time)
    PROVE  IInv'
<1>1. PICK kind \in {"block", "reorg"} :
         /\ node' = [pool |-> node.pool \ S, block |-> node.block + 1, time |-> time, arrival |-> clock]
         /\ queue' = Append(queue, [is |-> kind, tx |-> NoTx])
         /\ UNCHANGED <<clock, accepted, fresh, mon, jobs>>
  BY DEF BlockConnected, Reorganization, NewBest, monitor
<1> DEFINE m == [is |-> kind, tx |-> NoTx]
<1>2. m \in Msgs /\ m.is # "tx"
  BY DEF Msgs
<1>3. queue' = Append(queue, m)
  BY <1>1
<1> HIDE DEF m
<1>4. /\ queue' \in Seq(Msgs) /\ Len(queue') = Len(queue) + 1
      /\ \A i \in 1 .. Len(queue) : queue'[i] = queue[i]
      /\ queue'[Len(queue) + 1] = m
  BY <1>2, <1>3, AppendQueue, Zenon DEF IInv
<1>5. Types'
  <2>1. time \in Int
    BY FieldTypes DEF IInv, Data
  <2>2. node.pool \ S \in SUBSET Txs /\ node.block + 1 \in Nat /\ clock \in Nat
    BY FieldTypes DEF IInv, Types
  <2>3. node' \in [pool : SUBSET Txs, block : Nat, time : Int, arrival : Nat] /\ node'.arrival = clock
    BY <1>1, <2>1, <2>2
  <2> QED BY <1>1, <1>4, <2>3, FieldTypes, SMTT(60) DEF IInv, Types
<1>6. ~OnlyTxs' /\ \A i \in 1 .. Len(queue') : ~Last(i)'
  BY <1>2, <1>4, FieldTypes, SMTT(60) DEF IInv, OnlyTxs, Last
<1>7. Counts'
  BY <1>1 DEF IInv, Counts, CountsAgree, Tally
<1>8. QueueInv'
  <2> SUFFICES ASSUME NEW i \in 1 .. Len(queue'), queue'[i].is = "tx", queue'[i].tx \in Votes
               PROVE  VotesOn[queue'[i].tx] <= node'.block
    BY <1>6 DEF QueueInv
  <2>1. i \in 1 .. Len(queue) /\ queue'[i] = queue[i]
    BY <1>2, <1>4, FieldTypes DEF IInv
  <2>2. VotesOn[queue[i].tx] <= node.block /\ VotesOn[queue[i].tx] \in Int
    BY <2>1 DEF IInv, QueueInv, Data
  <2>3. node'.block = node.block + 1
    BY <1>1
  <2> QED BY <2>1, <2>2, <2>3, FieldTypes, SMTT(60) DEF IInv
<1>9. JobsInv' /\ MonInv'
  BY <1>6 DEF JobsInv, JobInv, MonInv
<1> QED
  BY <1>5, <1>7, <1>8, <1>9, Zenon DEF IInv

-----------------------------------------------------------------------------
(* The monitor. *)

\* The queue after the notifier has taken a notification.
LEMMA TakeQueue ==
    ASSUME IInv, NEW kind, Take(kind), UNCHANGED <<node, accepted>>
    PROVE  /\ Idle /\ Len(queue) \in Nat /\ Len(queue) >= 1 /\ queue[1] = Head(queue) /\ queue[1].is = kind
           /\ queue' \in Seq(Msgs) /\ Len(queue') = Len(queue) - 1
           /\ \A i \in 1 .. Len(queue') : i + 1 \in 1 .. Len(queue) /\ queue'[i] = queue[i + 1]
           /\ \A i \in 2 .. Len(queue) : i - 1 \in 1 .. Len(queue') /\ queue'[i - 1] = queue[i]
           /\ QueueInv'
<1>1. queue \in Seq(Msgs) /\ queue # <<>> /\ queue' = Tail(queue) /\ Head(queue).is = kind /\ Idle
  BY DEF IInv, Types, Take
<1>2. /\ Len(queue) \in Nat /\ Len(queue) >= 1 /\ queue[1] = Head(queue)
      /\ queue' \in Seq(Msgs) /\ Len(queue') = Len(queue) - 1
      /\ \A i \in 1 .. Len(queue') : queue'[i] = queue[i + 1]
  BY <1>1
<1>3. /\ \A i \in 1 .. Len(queue') : i + 1 \in 1 .. Len(queue) /\ queue'[i] = queue[i + 1]
      /\ \A i \in 2 .. Len(queue) : i - 1 \in 1 .. Len(queue') /\ queue'[i - 1] = queue[i]
  BY <1>2
<1>4. QueueInv'
  <2> SUFFICES ASSUME NEW i \in 1 .. Len(queue'), queue'[i].is = "tx"
               PROVE  /\ queue'[i].tx \in Votes => VotesOn[queue'[i].tx] <= node.block
                      /\ Last(i)' => queue'[i].tx \in node.pool /\ accepted[queue'[i].tx] >= node.arrival
    BY DEF QueueInv
  <2>1. i + 1 \in 1 .. Len(queue) /\ queue'[i] = queue[i + 1]
    BY <1>3
  <2>2. Last(i)' => Last(i + 1)
    BY <1>2, <1>3 DEF Last
  <2> QED
    BY <2>1, <2>2 DEF IInv, QueueInv
<1> QED
  BY <1>1, <1>2, <1>3, <1>4

\* A handler that begins joins those that are late.
LEMMA AppendJob ==
    ASSUME IInv, Idle, NEW j \in Jobs, jobs' = Append(jobs, j)
    PROVE  /\ jobs' \in Seq(Jobs) /\ Len(jobs) \in Nat /\ Len(jobs') = Len(jobs) + 1
           /\ jobs'[Len(jobs) + 1] = j
           /\ \A i \in 1 .. Len(jobs) : i \in 1 .. Len(jobs') /\ jobs'[i] = jobs[i]
           /\ \A i \in 1 .. Len(jobs') : jobs'[i].late \/ jobs'[i] = j
<1>1. jobs \in Seq(Jobs)
  BY DEF IInv, Types
<1>2. /\ jobs' \in Seq(Jobs) /\ Len(jobs) \in Nat /\ Len(jobs') = Len(jobs) + 1
      /\ \A i \in 1 .. Len(jobs) : jobs'[i] = jobs[i]
      /\ jobs'[Len(jobs) + 1] = j
  BY <1>1, SMTT(60)
<1>3. \A i \in 1 .. Len(jobs) : i \in 1 .. Len(jobs') /\ jobs'[i] = jobs[i]
  BY <1>2
<1>4. \A i \in 1 .. Len(jobs') : jobs'[i].late \/ jobs'[i] = j
  <2> TAKE i \in 1 .. Len(jobs')
  <2>1. i \in 1 .. Len(jobs) \/ i = Len(jobs) + 1
    BY <1>2
  <2> QED BY <1>2, <2>1 DEF Idle
<1> QED
  BY <1>2, <1>3, <1>4

\* What the inventory lacks when a transaction has been taken from the queue:
\* it, or what is excepted, about to be inserted or still in the queue.
LEMMA TakenTx ==
    ASSUME Data, IInv, Take("tx"), UNCHANGED <<node, accepted>>, fresh, Inserting, OnlyTxs'
    PROVE  /\ mon.block = node.block /\ mon.txs \subseteq node.pool
           /\ \A u \in node.pool \ mon.txs :
                 \/ u = queue[1].tx \/ Queued(u)' \/ Handled(u)
                 \/ accepted[u] \in node.arrival .. mon.time - 1
           /\ queue[1].tx \in node.pool /\ accepted[queue[1].tx] >= node.arrival
           /\ queue[1].tx \in Votes => VotesOn[queue[1].tx] <= node.block
<1> DEFINE t == queue[1].tx
<1>1. /\ Len(queue) \in Nat /\ Len(queue) >= 1 /\ queue[1].is = "tx"
      /\ \A i \in 2 .. Len(queue) : i - 1 \in 1 .. Len(queue') /\ queue'[i - 1] = queue[i]
  BY TakeQueue
<1>2. OnlyTxs /\ Last(1)
  <2>1. ASSUME NEW i \in 1 .. Len(queue)
        PROVE  queue[i].is = "tx"
    <3>1. i = 1 \/ i \in 2 .. Len(queue)
      BY <1>1
    <3>2. CASE i \in 2 .. Len(queue)
      <4>1. i - 1 \in 1 .. Len(queue') /\ queue'[i - 1] = queue[i]
        BY <1>1, <3>2
      <4> QED BY <4>1 DEF OnlyTxs
    <3> QED BY <1>1, <3>1, <3>2
  <2> QED BY <2>1 DEF OnlyTxs, Last
<1>3. /\ mon.block = node.block /\ mon.txs \subseteq node.pool
      /\ \A u \in node.pool \ mon.txs :
            Queued(u) \/ Handled(u) \/ accepted[u] \in node.arrival .. mon.time - 1
  BY <1>2 DEF IInv, MonInv
<1>4. /\ t \in Votes => VotesOn[t] <= node.block
      /\ t \in node.pool /\ accepted[t] >= node.arrival
  BY <1>1, <1>2 DEF IInv, QueueInv
<1>5. \A u : Queued(u) => u = t \/ Queued(u)'
  <2> SUFFICES ASSUME NEW u, NEW i \in 1 .. Len(queue), queue[i].is = "tx", queue[i].tx = u, u # t
               PROVE  Queued(u)'
    BY DEF Queued
  <2>1. i \in 2 .. Len(queue)
    BY <1>1
  <2>2. i - 1 \in 1 .. Len(queue') /\ queue'[i - 1] = queue[i]
    BY <1>1, <2>1, Zenon
  <2> QED BY <2>2 DEF Queued
<1> QED
  BY <1>3, <1>4, <1>5, Zenon

\* TxHandler leaves out what it takes for older, which is excepted, and is about
\* to insert the rest.
LEMMA TxHandlerInv ==
    ASSUME Data, IInv, TxHandler
    PROVE  IInv'
<1>a. PICK t : t = queue[1].tx
  OBVIOUS
<1>b. PICK j : j = Job("insert", {t})
  OBVIOUS
<1>1. Take("tx") /\ UNCHANGED <<clock, node, accepted, mon, fresh>>
  BY DEF TxHandler
<1>2. /\ Idle /\ Len(queue) \in Nat /\ Len(queue) >= 1 /\ queue[1] = Head(queue) /\ queue[1].is = "tx"
      /\ queue' \in Seq(Msgs) /\ QueueInv'
  BY <1>1, TakeQueue
<1>3. t \in Txs
  BY <1>a, <1>2, FieldTypes DEF IInv
<1>4. jobs' = IF BeforeLastBlock(t) THEN jobs ELSE Append(jobs, j)
  BY <1>a, <1>b, <1>2 DEF TxHandler
<1>5. j \in Jobs /\ j.at = "insert" /\ j.txs = {t} /\ ~j.late
  BY <1>b, <1>3 DEF Job, Jobs
<1>6. Counts'
  BY <1>1, Zenon DEF IInv, Counts, CountsAgree, Tally
<1>7. CASE BeforeLastBlock(t)
  <2>1. jobs' = jobs
    BY <1>4, <1>7
  <2>2. Types' /\ JobsInv'
    BY <1>1, <1>2, <2>1 DEF IInv, Types, Idle, JobsInv, JobInv
  <2>3. MonInv'
    <3> SUFFICES ASSUME fresh, Inserting, OnlyTxs'
                 PROVE  /\ mon.block = node.block /\ mon.txs \subseteq node.pool
                        /\ \A u \in node.pool \ mon.txs :
                              Queued(u)' \/ Handled(u) \/ accepted[u] \in node.arrival .. mon.time - 1
      BY <1>1, <2>1 DEF MonInv, Inserting, Handled
    <3>1. /\ mon.block = node.block /\ mon.txs \subseteq node.pool
          /\ \A u \in node.pool \ mon.txs :
                u = t \/ Queued(u)' \/ Handled(u) \/ accepted[u] \in node.arrival .. mon.time - 1
          /\ accepted[t] >= node.arrival
      BY <1>a, <1>1, TakenTx
    <3>2. accepted[t] \in Int /\ mon.time \in Int /\ node.arrival \in Int
      BY <1>3, FieldTypes, Zenon DEF IInv, Types, Counts, Mons
    <3>3. accepted[t] \in node.arrival .. mon.time - 1
      BY <1>7, <3>1, <3>2 DEF BeforeLastBlock
    <3> QED BY <3>1, <3>3, Zenon
  <2> QED
    BY <1>2, <1>6, <2>2, <2>3 DEF IInv
<1>8. CASE ~BeforeLastBlock(t)
  <2>1. jobs' = Append(jobs, j)
    BY <1>4, <1>8
  <2>2. /\ jobs' \in Seq(Jobs) /\ Len(jobs) \in Nat /\ Len(jobs') = Len(jobs) + 1
        /\ jobs'[Len(jobs) + 1] = j
        /\ \A i \in 1 .. Len(jobs) : i \in 1 .. Len(jobs') /\ jobs'[i] = jobs[i]
        /\ \A i \in 1 .. Len(jobs') : jobs'[i].late \/ jobs'[i] = j
    BY <1>2, <1>5, <2>1, AppendJob
  <2>3. Types'
    BY <1>1, <1>2, <2>2 DEF IInv, Types
  <2>4. OnlyTxs' => t \in node.pool /\ (t \in Votes => VotesOn[t] <= node.block)
    <3> SUFFICES ASSUME OnlyTxs' PROVE Last(1)
      BY <1>a, <1>2 DEF IInv, QueueInv
    <3>1. \A i \in 2 .. Len(queue) : i - 1 \in 1 .. Len(queue') /\ queue'[i - 1] = queue[i]
      BY <1>1, TakeQueue
    <3>2. \A i \in 1 .. Len(queue) : i = 1 \/ i \in 2 .. Len(queue)
      BY <1>2
    <3> QED BY <1>2, <3>1, <3>2 DEF OnlyTxs, Last
  <2>5. JobInv(j)'
    BY <1>1, <1>5, <2>4 DEF JobInv
  <2>6. JobsInv'
    BY <2>2, <2>5 DEF JobsInv, JobInv
  <2>7. MonInv'
    <3> SUFFICES ASSUME fresh, Inserting', OnlyTxs'
                 PROVE  /\ mon.block = node.block /\ mon.txs \subseteq node.pool
                        /\ \A u \in node.pool \ mon.txs :
                              Queued(u)' \/ Handled(u)' \/ accepted[u] \in node.arrival .. mon.time - 1
      BY <1>1 DEF MonInv
    <3>1. Inserting /\ \A u : Handled(u) => Handled(u)'
      BY <2>2 DEF Inserting, Handled
    <3>2. Handled(t)'
      <4>1. Len(jobs) + 1 \in 1 .. Len(jobs')
        BY <2>2
      <4> QED BY <1>5, <2>2, <4>1 DEF Handled
    <3>3. /\ mon.block = node.block /\ mon.txs \subseteq node.pool
          /\ \A u \in node.pool \ mon.txs :
                u = t \/ Queued(u)' \/ Handled(u) \/ accepted[u] \in node.arrival .. mon.time - 1
      BY <1>a, <1>1, <3>1, TakenTx
    <3> QED BY <3>1, <3>2, <3>3, Zenon
  <2> QED
    BY <1>2, <1>6, <2>3, <2>6, <2>7 DEF IInv
<1> QED
  BY <1>7, <1>8

\* A transaction that cannot be decoded is lost: nothing is claimed until the
\* next block is collected.
LEMMA TxDecodeFailsInv ==
    ASSUME IInv, TxDecodeFails
    PROVE  IInv'
<1>1. Take("tx") /\ ~fresh' /\ fresh' \in BOOLEAN /\ UNCHANGED <<clock, node, accepted, mon, jobs>>
  BY Zenon DEF TxDecodeFails, monitor
<1>2. Idle /\ queue' \in Seq(Msgs) /\ QueueInv'
  BY <1>1, TakeQueue
<1>3. Types'
  BY <1>1, <1>2 DEF IInv, Types
<1>4. JobsInv' /\ MonInv'
  BY <1>1, <1>2 DEF Idle, JobsInv, JobInv, MonInv
<1>5. Counts'
  BY <1>1, Zenon DEF IInv, Counts, CountsAgree, Tally
<1> QED
  BY <1>2, <1>3, <1>4, <1>5 DEF IInv

\* A reorganization passes the monitor by: nothing is claimed until the next
\* block is collected.
LEMMA ReorgPassesInv ==
    ASSUME IInv, ReorgPasses
    PROVE  IInv'
<1>1. Take("reorg") /\ ~fresh' /\ fresh' \in BOOLEAN /\ UNCHANGED <<clock, node, accepted, mon, jobs>>
  BY Zenon DEF ReorgPasses, monitor
<1>2. Idle /\ queue' \in Seq(Msgs) /\ QueueInv'
  BY <1>1, TakeQueue
<1>3. Types'
  BY <1>1, <1>2 DEF IInv, Types
<1>4. JobsInv' /\ MonInv'
  BY <1>1, <1>2 DEF Idle, JobsInv, JobInv, MonInv
<1>5. Counts'
  BY <1>1, Zenon DEF IInv, Counts, CountsAgree, Tally
<1> QED
  BY <1>2, <1>3, <1>4, <1>5 DEF IInv

\* BlockHandler begins a collection; the others that run are late.
LEMMA BlockHandlerInv ==
    ASSUME IInv, BlockHandler
    PROVE  IInv'
<1> DEFINE j == Job("best", {})
<1>1. Take("block") /\ jobs' = Append(jobs, j) /\ UNCHANGED <<clock, node, accepted, mon, fresh>>
  BY DEF BlockHandler
<1>2. Idle /\ queue' \in Seq(Msgs) /\ QueueInv'
  BY <1>1, TakeQueue
<1>3. j \in Jobs /\ j.at = "best"
  BY DEF Job, Jobs
<1> HIDE DEF j
<1>4. /\ jobs' \in Seq(Jobs) /\ Len(jobs) \in Nat /\ Len(jobs') = Len(jobs) + 1
      /\ jobs'[Len(jobs) + 1] = j
      /\ \A i \in 1 .. Len(jobs') : jobs'[i].late \/ jobs'[i] = j
  BY <1>1, <1>2, <1>3, AppendJob
<1>5. Types'
  BY <1>1, <1>2, <1>4 DEF IInv, Types
<1>6. JobsInv'
  BY <1>3, <1>4 DEF JobsInv, JobInv
<1>7. ~Inserting'
  <2>1. Len(jobs) + 1 \in 1 .. Len(jobs')
    BY <1>4
  <2> QED BY <1>3, <1>4, <2>1 DEF Inserting
<1>8. MonInv'
  BY <1>7 DEF MonInv
<1>9. Counts'
  BY <1>1 DEF IInv, Counts, CountsAgree, Tally
<1> QED
  BY <1>2, <1>5, <1>6, <1>8, <1>9 DEF IInv

\* The deadline: no handler is left that anything is claimed of.
LEMMA DeadlineInv ==
    ASSUME IInv, Deadline
    PROVE  IInv'
<1>1. /\ jobs' = [i \in 1 .. Len(jobs) |-> [jobs[i] EXCEPT !.late = TRUE]]
      /\ ~fresh' /\ fresh' \in BOOLEAN
      /\ UNCHANGED <<clock, node, accepted, queue, mon>>
  BY Zenon DEF Deadline
<1>2. \A i \in 1 .. Len(jobs) : [jobs[i] EXCEPT !.late = TRUE] \in Jobs /\ [jobs[i] EXCEPT !.late = TRUE].late
  <2> SUFFICES ASSUME NEW j \in Jobs PROVE [j EXCEPT !.late = TRUE] \in Jobs /\ [j EXCEPT !.late = TRUE].late
    BY FieldTypes, SMTT(60) DEF IInv
  <2> QED BY Zenon DEF Jobs
<1>3. Len(jobs) \in Nat
  BY FieldTypes DEF IInv
<1>4. jobs' \in Seq(Jobs) /\ Len(jobs') = Len(jobs) /\ \A i \in 1 .. Len(jobs') : jobs'[i].late
  <2> DEFINE f(i) == [jobs[i] EXCEPT !.late = TRUE]
  <2>1. jobs' = [i \in 1 .. Len(jobs) |-> f(i)] /\ \A i \in 1 .. Len(jobs) : f(i) \in Jobs /\ f(i).late
    BY <1>1, <1>2, SMTT(60)
  <2> HIDE DEF f
  <2>2. jobs' \in [1 .. Len(jobs) -> Jobs] /\ \A i \in 1 .. Len(jobs) : jobs'[i].late
    BY <2>1
  <2>3. jobs' \in Seq(Jobs)
    BY <1>3, <2>2, IsASeq
  <2>4. Len(jobs') = Len(jobs)
    BY <1>3, <2>2, <2>3, LenProperties
  <2> QED BY <2>2, <2>3, <2>4
<1>5. Types'
  BY <1>1, <1>4, Zenon DEF IInv, Types
<1>6. JobsInv' /\ MonInv'
  BY <1>1, <1>4 DEF JobsInv, JobInv, MonInv
<1>7. Counts' /\ QueueInv'
  BY <1>1, Zenon DEF IInv, Counts, CountsAgree, Tally, QueueInv, Last
<1> QED
  BY <1>5, <1>6, <1>7 DEF IInv

\* One job is replaced by another, as CollectBest and CollectTxns do.
LEMMA ReplaceInv ==
    ASSUME IInv, NEW i \in 1 .. Len(jobs), NEW j \in Jobs, jobs' = [jobs EXCEPT ![i] = j],
           j.at # "insert", JobInv(j), UNCHANGED <<clock, node, accepted, queue, mon, fresh>>
    PROVE  IInv'
<1>1. jobs \in Seq(Jobs) /\ Len(jobs) \in Nat
  BY FieldTypes DEF IInv, Types
<1>2. /\ jobs' \in Seq(Jobs) /\ Len(jobs') = Len(jobs)
      /\ jobs'[i] = j /\ \A h \in 1 .. Len(jobs) : h # i => jobs'[h] = jobs[h]
  BY <1>1
<1>3. ~Inserting'
  BY <1>2, Zenon DEF Inserting
<1>4. Types' /\ MonInv'
  BY <1>2, <1>3, Zenon DEF IInv, Types, MonInv
<1>5. Counts' /\ QueueInv'
  BY DEF IInv, Counts, CountsAgree, Tally, QueueInv, Last
<1>6. JobsInv'
  <2> SUFFICES ASSUME NEW h \in 1 .. Len(jobs)
               PROVE  JobInv(jobs[h])'
    BY <1>2 DEF JobsInv
  <2>1. JobInv(jobs'[h])
    BY <1>2, Zenon DEF IInv, JobsInv
  <2> QED BY <2>1, Zenon DEF JobInv, OnlyTxs, Queued
<1> QED
  BY <1>4, <1>5, <1>6, Zenon DEF IInv

\* Collect reads the best block.
LEMMA CollectBestInv ==
    ASSUME IInv, NEW i \in 1 .. Len(jobs), CollectBest(i)
    PROVE  IInv'
<1> DEFINE j == [jobs[i] EXCEPT !.at = "txs", !.block = node.block, !.time = node.time]
<1>1. /\ jobs' = [jobs EXCEPT ![i].at = "txs", ![i].block = node.block, ![i].time = node.time]
      /\ UNCHANGED <<clock, node, accepted, queue, mon, fresh>>
  BY DEF CollectBest
<1>2. jobs \in Seq(Jobs) /\ jobs[i] \in Jobs /\ Len(jobs) \in Nat
  BY FieldTypes DEF IInv, Types
<1>3. jobs' = [jobs EXCEPT ![i] = j]
  BY <1>1, <1>2, Zenon
<1>4. node.block \in Int /\ node.time \in Int
  BY FieldTypes DEF IInv
<1>5. j \in Jobs /\ j.at = "txs" /\ j.block = node.block /\ j.time = node.time
  BY <1>2, <1>4, Zenon DEF Jobs
<1> HIDE DEF j
<1>6. j.at # "insert" /\ JobInv(j)
  BY <1>5 DEF JobInv
<1> QED
  BY <1>1, <1>3, <1>5, <1>6, ReplaceInv, Zenon

\* Collect reads the transactions: a whole collection has all of the mempool.
LEMMA CollectTxnsInv ==
    ASSUME IInv, NEW i \in 1 .. Len(jobs), NEW missed \in SUBSET node.pool, CollectTxns(i, missed)
    PROVE  IInv'
<1> DEFINE S == node.pool \ missed
           w == (missed = {})
           j == [jobs[i] EXCEPT !.at = "install", !.txs = S, !.whole = w]
<1>1. /\ jobs[i].at = "txs"
      /\ jobs' = [jobs EXCEPT ![i].at = "install", ![i].txs = S, ![i].whole = w]
      /\ UNCHANGED <<clock, node, accepted, queue, mon, fresh>>
  BY DEF CollectTxns
<1>2. jobs \in Seq(Jobs) /\ jobs[i] \in Jobs /\ Len(jobs) \in Nat
  BY FieldTypes DEF IInv, Types
<1>3. S \in SUBSET Txs /\ w \in BOOLEAN /\ (w => S = node.pool)
  BY FieldTypes DEF IInv
<1> HIDE DEF S, w
<1>4. jobs' = [jobs EXCEPT ![i] = j]
  BY <1>1, <1>2, Zenon
<1>5. /\ j \in Jobs /\ j.at = "install" /\ j.txs = S /\ j.whole = w
      /\ j.block = jobs[i].block /\ j.time = jobs[i].time /\ j.late = jobs[i].late
  BY <1>2, <1>3, Zenon DEF Jobs
<1> HIDE DEF j
<1>6. ~j.late /\ OnlyTxs => j.block = node.block /\ j.time = node.time
  BY <1>1, <1>5 DEF IInv, JobsInv, JobInv
<1>7. j.at # "insert" /\ JobInv(j)
  BY <1>3, <1>5, <1>6 DEF JobInv
<1> QED
  BY <1>1, <1>4, <1>5, <1>7, ReplaceInv, Zenon

\* The jobs that are left when one has ended.
LEMMA RemainingJobs ==
    ASSUME Types, NEW i \in 1 .. Len(jobs)
    PROVE  /\ Remaining(i) \in Seq(Jobs)
           /\ \A a \in 1 .. Len(Remaining(i)) : \E b \in 1 .. Len(jobs) : Remaining(i)[a] = jobs[b]
           /\ \A b \in 1 .. Len(jobs) : b # i => \E a \in 1 .. Len(Remaining(i)) : Remaining(i)[a] = jobs[b]
           /\ Len(Remaining(i)) = Len(jobs) - 1
<1> DEFINE p == SubSeq(jobs, 1, i - 1)
           q == SubSeq(jobs, i + 1, Len(jobs))
<1>1. jobs \in Seq(Jobs) /\ Len(jobs) \in Nat
  BY FieldTypes DEF Types
<1>2. /\ p \in Seq(Jobs) /\ Len(p) = i - 1
      /\ \A a \in 1 .. Len(p) : p[a] = jobs[a]
  BY <1>1
<1>3. /\ q \in Seq(Jobs) /\ Len(q) = Len(jobs) - i
      /\ \A a \in 1 .. Len(q) : q[a] = jobs[i + a]
  <2>1. q \in Seq(Jobs)
    BY <1>1
  <2>2. Len(q) = Len(jobs) - i
    BY <1>1
  <2>3. \A a \in 1 .. Len(q) : q[a] = jobs[i + 1 + a - 1]
    BY <1>1
  <2> QED BY <1>1, <2>1, <2>2, <2>3
<1>4. Remaining(i) = p \o q
  BY DEF Remaining
<1> HIDE DEF p, q
<1>5. /\ p \o q \in Seq(Jobs) /\ Len(p \o q) = Len(p) + Len(q)
      /\ \A a \in 1 .. Len(p) + Len(q) : (p \o q)[a] = IF a <= Len(p) THEN p[a] ELSE q[a - Len(p)]
  BY <1>2, <1>3, ConcatProperties, Zenon
<1>6. ASSUME NEW a \in 1 .. Len(p) + Len(q)
      PROVE  \E b \in 1 .. Len(jobs) : (p \o q)[a] = jobs[b]
  <2>1. CASE a <= Len(p)
    <3>1. (p \o q)[a] = jobs[a] /\ a \in 1 .. Len(jobs)
      BY <1>1, <1>2, <1>3, <1>5, <2>1
    <3> QED BY <3>1
  <2>2. CASE ~(a <= Len(p))
    <3>1. a - Len(p) \in 1 .. Len(q)
      BY <1>1, <1>2, <1>3, <2>2, SMTT(60)
    <3>2. (p \o q)[a] = jobs[i + (a - Len(p))] /\ i + (a - Len(p)) \in 1 .. Len(jobs)
      BY <1>1, <1>2, <1>3, <1>5, <2>2, <3>1, SMTT(60)
    <3> QED BY <3>2
  <2> QED BY <2>1, <2>2
<1>7. ASSUME NEW b \in 1 .. Len(jobs), b # i
      PROVE  \E a \in 1 .. Len(p) + Len(q) : (p \o q)[a] = jobs[b]
  <2>1. CASE b < i
    <3>1. b \in 1 .. Len(p) + Len(q) /\ (p \o q)[b] = jobs[b]
      BY <1>1, <1>2, <1>3, <1>5, <2>1, SMTT(60)
    <3> QED BY <3>1
  <2>2. CASE b > i
    <3>1. b - i \in 1 .. Len(q) /\ b - 1 \in 1 .. Len(p) + Len(q) /\ (b - 1) - Len(p) = b - i /\ ~(b - 1 <= Len(p))
      BY <1>1, <1>2, <1>3, <2>2, SMTT(60)
    <3>2. (p \o q)[b - 1] = q[b - i] /\ q[b - i] = jobs[i + (b - i)] /\ i + (b - i) = b
      BY <1>1, <1>3, <1>5, <3>1, SMTT(60)
    <3> QED BY <3>1, <3>2, Zenon
  <2> QED BY <1>1, <1>7, <2>1, <2>2
<1>8. Len(p) + Len(q) = Len(jobs) - 1
  BY <1>1, <1>2, <1>3
<1> QED
  BY <1>4, <1>5, <1>6, <1>7, <1>8, Zenon

\* What is claimed of the jobs is claimed of those that are left.
LEMMA RemainingInv ==
    ASSUME IInv, NEW i \in 1 .. Len(jobs), jobs' = Remaining(i), UNCHANGED <<node, queue>>
    PROVE  JobsInv' /\ jobs' \in Seq(Jobs)
<1>1. /\ jobs' \in Seq(Jobs)
      /\ \A a \in 1 .. Len(jobs') : \E b \in 1 .. Len(jobs) : jobs'[a] = jobs[b]
  BY RemainingJobs, Zenon DEF IInv
<1>2. OnlyTxs' = OnlyTxs /\ \A t : Queued(t)' = Queued(t)
  BY DEF OnlyTxs, Queued
<1>3. ASSUME NEW a \in 1 .. Len(jobs')
      PROVE  JobInv(jobs[a])'
  <2>1. JobInv(jobs'[a])
    BY <1>1, <1>3 DEF IInv, JobsInv
  <2> QED BY <1>2, <2>1, Zenon DEF JobInv
<1> QED
  BY <1>1, <1>3, Zenon DEF JobsInv

\* TxHandler inserts what is new.  What it was about to insert is in the
\* inventory then, whether it was there before or not.
LEMMA InsertTxInv ==
    ASSUME Data, IInv, NEW i \in 1 .. Len(jobs), InsertTx(i)
    PROVE  IInv'
<1>1. /\ jobs[i].at = "insert" /\ jobs' = Remaining(i)
      /\ fresh' = (fresh /\ ~jobs[i].late)
      /\ UNCHANGED <<clock, node, accepted, queue>>
  BY DEF InsertTx
<1>2. PICK t \in jobs[i].txs :
         mon' = IF t \in mon.txs \/ (t \in Votes /\ VotesOn[t] > mon.block) THEN mon ELSE WithTx(t)
  BY DEF InsertTx
<1> DEFINE Known == t \in mon.txs \/ (t \in Votes /\ VotesOn[t] > mon.block)
<1>3. t \in Txs
  BY FieldTypes DEF IInv
<1>4. JobsInv' /\ jobs' \in Seq(Jobs)
  BY <1>1, RemainingInv
<1>5. Known => mon' = mon
  BY <1>2
<1>6. ~Known => /\ mon' \in Mons
                /\ mon'.block = mon.block /\ mon'.time = mon.time
                /\ mon'.txs = mon.txs \cup {t}
                /\ mon'.all = Cardinality(mon'.txs)
                /\ mon'.tally = Tally(mon'.block, mon'.txs)
  BY <1>2, <1>3, WithTxCounts DEF IInv
<1>7. Counts'
  <2>1. CASE Known
    BY <1>5, <2>1, Zenon DEF IInv, Counts, CountsAgree, Tally
  <2>2. CASE ~Known
    BY <1>6, <2>2, Zenon DEF Counts, CountsAgree, Tally
  <2> QED BY <2>1, <2>2, Zenon
<1>8. Types'
  <2>1. fresh' \in BOOLEAN
    BY <1>1, Zenon
  <2> QED BY <1>1, <1>4, <2>1, Zenon DEF IInv, Types
<1>9. QueueInv'
  BY <1>1, Zenon DEF IInv, QueueInv, Last
<1>10. MonInv'
  <2>1. OnlyTxs' = OnlyTxs /\ \A u : Queued(u)' = Queued(u)
    BY <1>1, Zenon DEF OnlyTxs, Queued
  <2> SUFFICES ASSUME fresh', Inserting', OnlyTxs
               PROVE  /\ mon'.block = node.block /\ mon'.txs \subseteq node.pool
                      /\ \A u \in node.pool \ mon'.txs :
                            Queued(u) \/ Handled(u)' \/ accepted[u] \in node.arrival .. mon'.time - 1
    BY <1>1, <2>1, Zenon DEF MonInv
  <2>2. fresh /\ ~jobs[i].late
    BY <1>1, Zenon
  <2>3. \A b \in 1 .. Len(jobs) : b # i => \E a \in 1 .. Len(jobs') : jobs'[a] = jobs[b]
    BY <1>1, RemainingJobs, Zenon DEF IInv
  <2>4. Inserting
    <3> SUFFICES ASSUME NEW b \in 1 .. Len(jobs), b # i
                 PROVE  jobs[b].at = "insert" /\ ~jobs[b].late
      BY <1>1, <2>2, Zenon DEF Inserting
    <3>1. PICK a \in 1 .. Len(jobs') : jobs'[a] = jobs[b]
      BY <2>3, Zenon
    <3> QED BY <3>1, Zenon DEF Inserting
  <2>5. /\ mon.block = node.block /\ mon.txs \subseteq node.pool
        /\ \A u \in node.pool \ mon.txs :
              Queued(u) \/ Handled(u) \/ accepted[u] \in node.arrival .. mon.time - 1
    BY <2>2, <2>4, Zenon DEF IInv, MonInv
  <2>6. jobs[i].txs = {t} /\ t \in node.pool /\ (t \in Votes => VotesOn[t] <= node.block)
    <3>1. PICK v \in node.pool : jobs[i].txs = {v} /\ (v \in Votes => VotesOn[v] <= node.block)
      BY <1>1, <2>2 DEF IInv, JobsInv, JobInv
    <3> QED BY <3>1
  <2>7. \A u : Handled(u) => u = t \/ Handled(u)'
    <3> SUFFICES ASSUME NEW u, NEW b \in 1 .. Len(jobs), jobs[b].at = "insert", u \in jobs[b].txs, u # t
                 PROVE  Handled(u)'
      BY Zenon DEF Handled
    <3>1. PICK a \in 1 .. Len(jobs') : jobs'[a] = jobs[b]
      BY <2>3, <2>6, Zenon
    <3> QED BY <3>1, Zenon DEF Handled
  <2>8. CASE Known
    <3>1. ~(t \in Votes /\ VotesOn[t] > mon.block)
      BY <2>5, <2>6, FieldTypes, SMTT(60) DEF IInv, Data
    <3>2. t \in mon.txs /\ mon' = mon
      BY <1>5, <2>8, <3>1
    <3> QED BY <2>5, <2>7, <3>2, Zenon
  <2>9. CASE ~Known
    BY <1>6, <2>5, <2>6, <2>7, <2>9, Zenon
  <2> QED BY <2>8, <2>9, Zenon
<1> QED
  BY <1>4, <1>7, <1>8, <1>9, <1>10, Zenon DEF IInv

\* A collection that fails: nothing is claimed until the next block.
LEMMA CollectFailsInv ==
    ASSUME IInv, NEW i \in 1 .. Len(jobs), CollectFails(i)
    PROVE  IInv'
<1>1. /\ jobs' = Remaining(i) /\ ~fresh' /\ fresh' \in BOOLEAN
      /\ UNCHANGED <<clock, node, accepted, queue, mon>>
  BY Zenon DEF CollectFails
<1>2. JobsInv' /\ jobs' \in Seq(Jobs)
  BY <1>1, RemainingInv, Zenon
<1>3. Types' /\ MonInv'
  BY <1>1, <1>2, Zenon DEF IInv, Types, MonInv
<1>4. Counts' /\ QueueInv'
  BY <1>1 DEF IInv, Counts, CountsAgree, Tally, QueueInv, Last
<1> QED
  BY <1>2, <1>3, <1>4 DEF IInv

\* Refresh installs what was collected; only a whole collection by the one
\* handler that the notifier waits for is claimed to be the mempool.
LEMMA RefreshInv ==
    ASSUME Data, IInv, NEW i \in 1 .. Len(jobs), Refresh(i)
    PROVE  IInv'
<1> DEFINE j == jobs[i]
<1>1. /\ j.at = "install"
      /\ mon' = Inventory(j.block, j.time, j.txs)
      /\ fresh' = (Len(jobs) = 1 /\ j.whole /\ ~j.late)
      /\ jobs' = Remaining(i)
      /\ UNCHANGED <<clock, node, accepted, queue>>
  BY DEF Refresh
<1>2. JobsInv' /\ jobs' \in Seq(Jobs)
  BY <1>1, RemainingInv
<1>3. j.block \in Int /\ j.time \in Int /\ j.txs \in SUBSET Txs
  BY FieldTypes, Zenon DEF IInv
<1>4. /\ mon' \in Mons
      /\ mon'.block = j.block /\ mon'.time = j.time /\ mon'.txs = j.txs
      /\ mon'.all = Cardinality(j.txs) /\ mon'.tally = Tally(j.block, j.txs)
  BY <1>1, <1>3, InventoryCounts, SMTT(60)
<1>5. Counts'
  BY <1>4, Zenon DEF Counts, CountsAgree, Tally
<1>6. Types'
  BY <1>1, <1>2, Zenon DEF IInv, Types
<1>7. QueueInv'
  BY <1>1, Zenon DEF IInv, QueueInv, Last
<1>8. MonInv'
  <2> SUFFICES ASSUME fresh', OnlyTxs
               PROVE  /\ mon'.block = node.block
                      /\ mon'.txs \subseteq node.pool
                      /\ \A u \in node.pool \ mon'.txs : Queued(u)
    BY <1>1, Zenon DEF MonInv, OnlyTxs, Queued
  <2>1. j.at = "install" /\ j.whole /\ ~j.late
    BY <1>1, Zenon
  <2>2. j.block = node.block /\ j.txs \subseteq node.pool /\ \A u \in node.pool \ j.txs : Queued(u)
    BY <2>1 DEF IInv, JobsInv, JobInv
  <2> QED BY <1>4, <2>2, Zenon
<1> QED
  BY <1>2, <1>5, <1>6, <1>7, <1>8, Zenon DEF IInv

-----------------------------------------------------------------------------
\* The invariant holds at first: nothing is claimed of the inventory that was
\* collected before the notifier listened.
LEMMA InitInv ==
    ASSUME Data, Init
    PROVE  IInv
<1>1. PICK old \in SUBSET (Txs \ Votes) : mon = Inventory(0, 0, old)
  BY DEF Init
<1>2. /\ mon \in Mons /\ mon.block = 0 /\ mon.txs = old
      /\ mon.all = Cardinality(old) /\ mon.tally = Tally(0, old)
  BY <1>1, InventoryCounts
<1>3. Counts
  BY <1>2 DEF Counts, CountsAgree
<1>4. /\ clock = 0 /\ node = [pool |-> {}, block |-> 0, time |-> 0, arrival |-> 0]
      /\ accepted = [t \in Txs |-> Never] /\ queue = <<>> /\ jobs = <<>> /\ fresh = FALSE
  BY DEF Init
<1>5. Types
  <2>1. queue \in Seq(Msgs) /\ jobs \in Seq(Jobs)
    BY <1>4
  <2>2. accepted \in [Txs -> Int]
    BY <1>4 DEF Never
  <2>3. node \in [pool : SUBSET Txs, block : Nat, time : Int, arrival : Nat]
    BY <1>4
  <2>4. fresh \in BOOLEAN
    BY <1>4, Zenon
  <2>5. clock \in Nat /\ node.arrival <= clock
    <3>1. node.arrival = 0 /\ clock = 0
      BY <1>4, Zenon
    <3> QED BY <3>1
  <2> QED BY <2>1, <2>2, <2>3, <2>4, <2>5, Zenon DEF Types
<1>6. QueueInv /\ JobsInv /\ MonInv
  BY <1>4, SMTT(60) DEF QueueInv, JobsInv, JobInv, MonInv
<1> QED
  BY <1>3, <1>5, <1>6 DEF IInv

\* Every step keeps the invariant.
LEMMA NextInv ==
    ASSUME Data, IInv, [Next]_vars
    PROVE  IInv'
<1>1. CASE Tick
  BY <1>1, TickInv
<1>2. ASSUME NEW t \in Txs, Accept(t)
      PROVE  IInv'
  BY <1>2, AcceptInv, Zenon
<1>3. ASSUME NEW S \in SUBSET node.pool, NEW time \in node.time .. clock + Skew,
             BlockConnected(S, time) \/ Reorganization(S, time)
      PROVE  IInv'
  BY <1>3, NewBestInv
<1>4. CASE TxHandler
  BY <1>4, TxHandlerInv, Zenon
<1>4a. CASE TxDecodeFails
  BY <1>4a, TxDecodeFailsInv, Zenon
<1>5. CASE ReorgPasses
  BY <1>5, ReorgPassesInv
<1>6. CASE BlockHandler
  BY <1>6, BlockHandlerInv
<1>7. CASE Deadline
  BY <1>7, DeadlineInv
<1>8. ASSUME NEW i \in 1 .. Len(jobs),
             \/ InsertTx(i) \/ CollectBest(i) \/ CollectFails(i) \/ Refresh(i)
             \/ \E missed \in SUBSET node.pool : CollectTxns(i, missed)
      PROVE  IInv'
  BY <1>8, InsertTxInv, CollectBestInv, CollectFailsInv, RefreshInv, CollectTxnsInv, Zenon
<1>9. CASE UNCHANGED vars
  <2>1. UNCHANGED <<clock, node, accepted, queue, mon, jobs, fresh>>
    BY <1>9 DEF vars
  <2>2. Counts' /\ QueueInv' /\ JobsInv' /\ MonInv'
    BY <2>1, SameInv
  <2>3. Types'
    BY <2>1 DEF IInv, Types
  <2> QED BY <2>2, <2>3 DEF IInv
<1> QED
  BY <1>1, <1>2, <1>3, <1>4, <1>4a, <1>5, <1>6, <1>7, <1>8, <1>9, Zenon DEF Next

\* The invariant holds in every behaviour of the monitor.
LEMMA MempoolInvariant ==
    ASSUME Data
    PROVE  Spec => []IInv
<1>1. Init => IInv
  BY InitInv
<1>2. IInv /\ [Next]_vars => IInv'
  BY NextInv
<1> QED
  BY <1>1, <1>2, PTL DEF Spec

\* The counts of the inventory (NumAll, and the votes that VotingInfo tallies)
\* agree with its transactions, whichever handlers are late, fail or overlap,
\* however many votes of a ticket the mempool has.
THEOREM CountsAlwaysAgree ==
    ASSUME Data
    PROVE  Spec => []CountsAgree
<1>1. IInv => CountsAgree
  BY Zenon DEF IInv, Counts
<1> QED
  BY <1>1, MempoolInvariant, PTL

\* With every notification handled, and nothing late or lost since the last
\* collection, TxHandler and BlockHandler have kept the inventory equal to the
\* node's mempool, but for the transactions accepted after the last block's
\* arrival and before the time in its header.
THEOREM InventoryFollowsMempool ==
    ASSUME Data
    PROVE  Spec => []InventoryIsMempool
<1>1. IInv => InventoryIsMempool
  <2> SUFFICES ASSUME IInv, queue = <<>>, jobs = <<>>, fresh
               PROVE  /\ mon.txs \subseteq node.pool
                      /\ \A t \in node.pool \ mon.txs : accepted[t] \in node.arrival .. mon.time - 1
    BY DEF InventoryIsMempool, Quiet
  <2>1. OnlyTxs /\ Inserting /\ \A t : ~Queued(t) /\ ~Handled(t)
    BY DEF OnlyTxs, Inserting, Queued, Handled
  <2> QED
    BY <2>1, Zenon DEF IInv, MonInv
<1> QED
  BY <1>1, MempoolInvariant, PTL
=============================================================================
