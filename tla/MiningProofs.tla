---------------------------- MODULE MiningProofs ----------------------------
(***************************************************************************)
(* Proofs about block building and automining, for every set of senders,   *)
(* transactions, fees and gas limits: the blocks that the transaction      *)
(* queue makes, automining as all or nothing, and the pool of module       *)
(* TxPool as what the whole implements.                                    *)
(***************************************************************************)
EXTENDS Mining, TxPoolProofs, FiniteSetTheorems

-----------------------------------------------------------------------------
(* The TransactionQueue.  In the definitions and lemmas, q is the builder, *)
(* lists the pending lists it was made with, ran the number of             *)
(* transactions of each sender in the block, and out the senders whose     *)
(* next transaction cannot be in it.                                       *)

(* q has the transactions of s from number k + 1 on in its queue. *)
Rest(q, lists, s, k) ==
  /\ Len(q.queued[s]) = Len(lists[s]) - k
  /\ \A i \in 1..Len(q.queued[s]) : q.queued[s][i] = lists[s][k + i]

(* o is the next transaction of its sender, and the later ones wait. *)
Available(q, lists, ran, o) ==
  /\ o.data.sender \in Senders
  /\ ran[o.data.sender] < Len(lists[o.data.sender])
  /\ o = lists[o.data.sender][ran[o.data.sender] + 1]
  /\ Rest(q, lists, o.data.sender, ran[o.data.sender] + 1)

(* Nothing more of s is going to be in the block. *)
Over(q, out, s) == q.queued[s] = <<>> /\ s \in out

(* Before getNextTransaction: the transactions of lastSender wait to be    *)
(* moved to the heap.                                                      *)
BeforeNext(q, lists, ran, out) ==
  /\ \A o \in q.heap : Available(q, lists, ran, o)
  /\ \A s \in Senders :
       s # q.lastSender /\ (\A o \in q.heap : o.data.sender # s) => Over(q, out, s)
  /\ q.lastSender \in Senders =>
       /\ \A o \in q.heap : o.data.sender # q.lastSender
       /\ Rest(q, lists, q.lastSender, ran[q.lastSender])

(* The transactions that the block can go on with. *)
InFront(q) == q.heap \cup ({q.current} \ {NoTx})

(* After it: every sender has one transaction in front, or is over. *)
AfterNext(q, lists, ran, out) ==
  /\ \A o \in InFront(q) : Available(q, lists, ran, o)
  /\ \A s \in Senders : (\A o \in InFront(q) : o.data.sender # s) => Over(q, out, s)
  /\ q.current \notin q.heap
  /\ q.current = NoTx => q.heap = {}
  /\ q.current # NoTx => q.lastSender = q.current.data.sender

-----------------------------------------------------------------------------
(* The order of the block *)

(* ComesBefore, with the order as an argument *)
Before(order, l, r, baseFee) ==
  \/ /\ order = "priority"
     /\ GetEffectiveMinerFee(l, baseFee) > GetEffectiveMinerFee(r, baseFee)
  \/ /\ order = "fifo" \/ GetEffectiveMinerFee(l, baseFee) = GetEffectiveMinerFee(r, baseFee)
     /\ l.orderId < r.orderId

(* None of the transactions from i to j is sent by s. *)
NoneOf(q, s, i, j) == \A l \in i..j : q.txs[l].data.sender # s

(* A transaction of the block comes before those of O that were already    *)
(* available when it was taken.                                            *)
Overtakes(order, q, O) ==
  \A i \in DOMAIN q.txs, o \in O :
    NoneOf(q, o.data.sender, i, Len(q.txs)) => Before(order, q.txs[i], o, q.baseFee)

InOrder(order, q) ==
  \A i, j \in DOMAIN q.txs :
    i < j /\ NoneOf(q, q.txs[j].data.sender, i, j - 1) =>
      Before(order, q.txs[i], q.txs[j], q.baseFee)

Follows(order, q) ==
  /\ InOrder(order, q)
  /\ Overtakes(order, q, InFront(q))
  /\ q.current # NoTx => \A o \in q.heap : Before(order, q.current, o, q.baseFee)

-----------------------------------------------------------------------------
(* The inductive invariant *)

Ran(b) == [s \in Senders |-> CountOf(b, s, Len(b.txs))]

(* The senders whose next transaction cannot be in the block. *)
Out(b) ==
  {s \in Senders :
     Ran(b)[s] < Len(pool.pendingTransactions[s]) =>
       LET tx == pool.pendingTransactions[s][Ran(b)[s] + 1].data
       IN  ~IsTxMinable(tx, b.baseFee) \/ ~Fits(tx, b)}

RunsPrefixes(b) ==
  \A i \in DOMAIN b.txs :
    /\ CountOf(b, b.txs[i].data.sender, i) <= Len(pool.pendingTransactions[b.txs[i].data.sender])
    /\ b.txs[i] = pool.pendingTransactions[b.txs[i].data.sender]
                    [CountOf(b, b.txs[i].data.sender, i)]

(* The accounts of the builder are those of its checkpoint after the       *)
(* transactions of the block.                                              *)
Accounts(b) ==
  /\ \A s \in Senders :
       /\ b.world.nonce[s] = world.nonce[s] + Ran(b)[s]
       /\ b.world.nonce[s] <= MaxNonce
       /\ Ran(b)[s] <= Len(pool.pendingTransactions[s])
       /\ Ran(b)[s] = 0 => b.world.balance[s] = world.balance[s]
  /\ \A i \in DOMAIN b.txs : b.txs[i].data.nonce < b.world.nonce[b.txs[i].data.sender]

(* A builder after getNextTransaction *)
BlockOK(b) ==
  /\ b \in Build
  /\ b.gasUsed <= pool.blockGasLimit
  /\ RunsPrefixes(b)
  /\ Accounts(b)
  /\ AfterNext(b, pool.pendingTransactions, Ran(b), Out(b))
  /\ Follows(mempoolOrder, b)

(* A builder before it.  Either the last transaction of the block is the   *)
(* last sender's, or there is no last sender.                              *)
Ready(q) ==
  /\ q \in Build
  /\ q.gasUsed <= pool.blockGasLimit
  /\ RunsPrefixes(q)
  /\ Accounts(q)
  /\ BeforeNext(q, pool.pendingTransactions, Ran(q), Out(q))
  /\ InOrder(mempoolOrder, q)
  /\ Overtakes(mempoolOrder, q, q.heap)
  /\ q.lastSender \in Senders =>
       q.txs # <<>> /\ q.txs[Len(q.txs)].data.sender = q.lastSender

BuildOK ==
  build # NoBlock => BlockOK(build) /\ request # Idle /\ request.kind # "add"

(* What a request that fails goes back to. *)
NoncesSmall(w) == \A s \in Senders : w.nonce[s] <= MaxNonce
MinedBefore(txs, w) == \A tx \in txs : tx.nonce < w.nonce[tx.sender]
StateOK(w, txs) == NoncesSmall(w) /\ MinedBefore(txs, w)

SnapshotIds ==
  /\ \A x \in nodeSnapshots : x.id < nextSnapshotId
  /\ \A y \in snapshots : y.id < nextSnapshotId

Automining == {"add", "until", "drain"}

RequestOK ==
  request # Idle =>
    /\ request \in Request
    /\ StateOK(request.before.world, request.before.mined)
    /\ request.kind \in Automining =>
         /\ request.tx \in Txs
         /\ request.id < nextSnapshotId
         /\ request.tx \notin request.before.mined
         /\ \A x \in nodeSnapshots : x.id = request.id =>
              /\ x.mined = request.before.mined
              /\ x.nextBaseFee = request.before.nextBaseFee
              /\ x.userBaseFee = request.before.userBaseFee
         /\ \A y \in snapshots : y.id = request.id =>
              y.pool = request.before.pool /\ y.world = request.before.world
    /\ request.kind = "add" => nextOrderId < MaxOrderId
    /\ request.kind = "drain" => request.tx \in mined

NodeTypeOK ==
  /\ mempoolOrder \in MempoolOrders
  /\ automine \in BOOLEAN
  /\ nextBaseFee \in Nat
  /\ userBaseFee \in Nat \cup {NoFee}
  /\ mined \subseteq Txs
  /\ nodeSnapshots \in SUBSET NodeSnapshot

MiningInv ==
  /\ IInv
  /\ NodeTypeOK
  /\ StateOK(world, mined)
  /\ SnapshotIds
  /\ RequestOK
  /\ BuildOK

-----------------------------------------------------------------------------
(* The heap *)

(* The smaller of two integers *)
LEMMA MinOfTwo ==
  ASSUME NEW a \in Int, NEW b \in Int
  PROVE  /\ Min({a, b}) \in {a, b}
         /\ Min({a, b}) <= a /\ Min({a, b}) <= b
<1>1. \E x \in {a, b} : \A y \in {a, b} : x <= y
  OBVIOUS
<1> QED
  BY <1>1 DEF Min

(* What the miner gets is an integer, and at most the largest fee. *)
LEMMA FeeBounded ==
  ASSUME NEW o \in OrderedTransaction, NEW baseFee \in Int
  PROVE  /\ GetEffectiveMinerFee(o, baseFee) \in Int
         /\ MaxFee - GetEffectiveMinerFee(o, baseFee) \in Nat
<1>1. /\ o.data \in Txs /\ o.data.prio \in Nat /\ o.data.maxFee \in Nat
  BY OrderedFields
<1>2. o.data.prio <= MaxFee /\ MaxFee \in Nat
  BY <1>1, FeesAssumption, TransactionLimits
<1>3. /\ GetEffectiveMinerFee(o, baseFee) \in {o.data.prio, o.data.maxFee - baseFee}
      /\ GetEffectiveMinerFee(o, baseFee) <= o.data.prio
  <2> DEFINE rest == o.data.maxFee - baseFee
  <2>1. rest \in Int /\ o.data.prio \in Int
    BY <1>1
  <2> HIDE DEF rest
  <2>2. Min({o.data.prio, rest}) \in {o.data.prio, rest} /\ Min({o.data.prio, rest}) <= o.data.prio
    BY <2>1, MinOfTwo
  <2> QED
    BY <2>2 DEF GetEffectiveMinerFee, rest
<1> QED
  BY <1>1, <1>2, <1>3

(* Of transactions with different arrival numbers one came first. *)
LEMMA EarliestExists ==
  ASSUME NEW T \in SUBSET OrderedTransaction, T # {},
         \A o, r \in T : o.orderId = r.orderId => o = r
  PROVE  \E o \in T : \A r \in T \ {o} : o.orderId < r.orderId
<1> DEFINE ids == {o.orderId : o \in T}
<1>1. \A o \in T : o.orderId \in Nat
  BY OrderedFields
<1>2. ids \in SUBSET Nat /\ ids # {}
  BY <1>1
<1>3. PICK n \in ids : \A k \in ids : n <= k
  BY <1>2, LeastNat
<1>4. PICK o \in T : o.orderId = n
  BY <1>3
<1>5. ASSUME NEW r \in T \ {o} PROVE o.orderId < r.orderId
  <2>1. r.orderId \in ids /\ r.orderId # o.orderId
    BY <1>5
  <2> QED
    BY <2>1, <1>1, <1>3, <1>4
<1> QED
  BY <1>5

(* The heap has a first transaction, and pop returns it. *)
LEMMA HeapTopIsFirst ==
  ASSUME NEW heap \in SUBSET OrderedTransaction, heap # {}, NEW baseFee \in Int,
         mempoolOrder \in MempoolOrders,
         \A o, r \in heap : o.orderId = r.orderId => o = r
  PROVE  /\ HeapTop(heap, baseFee) \in heap
         /\ \A r \in heap \ {HeapTop(heap, baseFee)} :
              Before(mempoolOrder, HeapTop(heap, baseFee), r, baseFee)
<1> DEFINE fee(o) == GetEffectiveMinerFee(o, baseFee)
<1>1. \A o \in heap : fee(o) \in Int /\ MaxFee - fee(o) \in Nat
  BY FeeBounded
<1>2. MaxFee \in Nat /\ \A o \in heap : o.orderId \in Nat
  BY TransactionLimits, OrderedFields
<1> HIDE DEF fee
<1>3. \E o \in heap : \A r \in heap \ {o} :
        \/ mempoolOrder = "priority" /\ fee(o) > fee(r)
        \/ (mempoolOrder = "fifo" \/ fee(o) = fee(r)) /\ o.orderId < r.orderId
  <2>1. CASE mempoolOrder = "fifo"
    BY <2>1, EarliestExists
  <2>2. CASE mempoolOrder = "priority"
    <3> DEFINE S == {MaxFee - fee(o) : o \in heap}
    <3>1. S \in SUBSET Nat /\ S # {}
      BY <1>1
    <3>2. PICK n \in S : \A k \in S : n <= k
      BY <3>1, LeastNat
    <3> DEFINE T == {o \in heap : MaxFee - fee(o) = n}
    <3>3. T \in SUBSET OrderedTransaction /\ T # {} /\ T \subseteq heap
      BY <3>2
    <3>4. PICK o \in T : \A r \in T \ {o} : o.orderId < r.orderId
      BY <3>3, EarliestExists
    <3>5. ASSUME NEW r \in heap \ {o}
          PROVE  fee(o) > fee(r) \/ (fee(o) = fee(r) /\ o.orderId < r.orderId)
      <4>1. MaxFee - fee(r) \in S /\ MaxFee - fee(o) = n /\ o \in heap
        BY <3>4
      <4>2. n <= MaxFee - fee(r)
        BY <3>2, <4>1
      <4>3. CASE MaxFee - fee(r) = n
        BY <4>1, <4>3, <3>4, <1>1, <1>2
      <4>4. CASE MaxFee - fee(r) # n
        BY <4>1, <4>2, <4>4, <1>1, <1>2
      <4> QED
        BY <4>3, <4>4
    <3> QED
      BY <2>2, <3>4, <3>5
  <2> QED
    BY <2>1, <2>2, MempoolOrdersAssumption
<1>4. \E o \in heap : \A r \in heap \ {o} : ComesBefore(o, r, baseFee)
  BY <1>3 DEF ComesBefore, fee
<1>5. /\ HeapTop(heap, baseFee) \in heap
      /\ \A r \in heap \ {HeapTop(heap, baseFee)} :
           ComesBefore(HeapTop(heap, baseFee), r, baseFee)
  BY <1>4 DEF HeapTop
<1> QED
  BY <1>5 DEF ComesBefore, Before

-----------------------------------------------------------------------------
(* getNextTransaction *)

(* The pending lists that a queue is made with: each has the transactions  *)
(* of its sender, and all have different arrival numbers.                  *)
ListsOK(lists) ==
  /\ lists \in [Senders -> Seq(OrderedTransaction)]
  /\ \A s \in Senders : \A i \in 1..Len(lists[s]) : lists[s][i].data.sender = s
  /\ \A s, t \in Senders : \A i \in 1..Len(lists[s]), j \in 1..Len(lists[t]) :
       lists[s][i].orderId = lists[t][j].orderId => lists[s][i] = lists[t][j]

CountsOK(lists, ran, out) ==
  /\ ran \in [Senders -> Nat]
  /\ \A s \in Senders : ran[s] <= Len(lists[s])
  /\ \A s \in Senders : ran[s] = Len(lists[s]) => s \in out

(* m differs from q in the queue only. *)
SameBlock(m, q) ==
  /\ m.baseFee = q.baseFee /\ m.gasUsed = q.gasUsed /\ m.world = q.world /\ m.txs = q.txs

(* Every sender has a transaction in the heap or is over. *)
Moved(m, lists, ran, out) ==
  /\ \A o \in m.heap : Available(m, lists, ran, o)
  /\ \A s \in Senders : (\A o \in m.heap : o.data.sender # s) => Over(m, out, s)

(* The types of the fields of a builder *)
LEMMA BuildFields ==
  ASSUME NEW q \in Build
  PROVE  /\ q.heap \in SUBSET OrderedTransaction
         /\ q.queued \in [Senders -> Seq(OrderedTransaction)]
         /\ q.lastSender \in Senders \cup {NoSender}
         /\ q.current \in OrderedTransaction \cup {NoTx}
         /\ q.baseFee \in Nat /\ q.gasUsed \in Nat /\ q.world \in World
         /\ q.txs \in Seq(OrderedTransaction)
BY DEF Build

(* What _moveFirstEnqueuedTransactionToHeap does *)
LEMMA MoveIs ==
  ASSUME NEW q \in Build, NEW m, m = MoveFirstEnqueuedTransactionToHeap(q)
  PROVE  /\ m \in Build /\ SameBlock(m, q) /\ m.lastSender = q.lastSender
         /\ \/ /\ q.lastSender \notin Senders \/ q.queued[q.lastSender] = <<>>
               /\ m = q
            \/ /\ q.lastSender \in Senders /\ q.queued[q.lastSender] # <<>>
               /\ m.heap = q.heap \cup {Head(q.queued[q.lastSender])}
               /\ m.queued[q.lastSender] = Tail(q.queued[q.lastSender])
               /\ \A s \in Senders : s # q.lastSender => m.queued[s] = q.queued[s]
<1>1. q.lastSender \in Senders <=> q.lastSender # NoSender
  BY BuildFields, AbsentAssumption
<1>2. CASE q.lastSender = NoSender \/ q.queued[q.lastSender] = <<>>
  <2>1. m = q
    BY <1>2 DEF MoveFirstEnqueuedTransactionToHeap
  <2> QED
    BY <1>1, <1>2, <2>1 DEF SameBlock
<1>3. CASE ~(q.lastSender = NoSender \/ q.queued[q.lastSender] = <<>>)
  <2> DEFINE ls == q.lastSender
             h == Head(q.queued[ls])
             tl == Tail(q.queued[ls])
  <2>1. ls \in Senders /\ q.queued[ls] \in Seq(OrderedTransaction) /\ q.queued[ls] # <<>>
    BY <1>1, <1>3, BuildFields
  <2>2. h \in OrderedTransaction /\ tl \in Seq(OrderedTransaction)
    BY <2>1
  <2>3. m = [q EXCEPT !.heap = q.heap \cup {h}, !.queued[ls] = tl]
    BY <1>3 DEF MoveFirstEnqueuedTransactionToHeap
  <2> HIDE DEF h, tl, ls
  <2> DEFINE newQueued == [q.queued EXCEPT ![ls] = tl]
  <2>4. newQueued \in [Senders -> Seq(OrderedTransaction)]
    BY <2>1, <2>2, BuildFields
  <2>5. /\ newQueued[ls] = tl
        /\ \A s \in Senders : s # ls => newQueued[s] = q.queued[s]
    BY <2>1, BuildFields
  <2>6. m = [q EXCEPT !.heap = q.heap \cup {h}, !.queued = newQueued]
    BY <2>3 DEF Build
  <2> HIDE DEF newQueued
  <2>7. /\ m \in Build /\ m.heap = q.heap \cup {h} /\ m.queued = newQueued
        /\ m.lastSender = q.lastSender
    BY <2>2, <2>4, <2>6, ZenonT(30) DEF Build
  <2>8. SameBlock(m, q)
    BY <2>6 DEF Build, SameBlock
  <2> QED
    BY <2>1, <2>5, <2>7, <2>8 DEF h, tl, ls
<1> QED
  BY <1>2, <1>3

(* After the move every sender has a transaction in the heap or is over. *)
LEMMA MoveKeeps ==
  ASSUME NEW q \in Build, NEW lists, NEW ran, NEW out, NEW m,
         m = MoveFirstEnqueuedTransactionToHeap(q),
         ListsOK(lists), CountsOK(lists, ran, out), BeforeNext(q, lists, ran, out)
  PROVE  /\ Moved(m, lists, ran, out)
         /\ \A o \in m.heap \ q.heap : q.lastSender \in Senders /\ o.data.sender = q.lastSender
<1>1. m \in Build /\ SameBlock(m, q) /\ m.lastSender = q.lastSender
  BY MoveIs
<1>2. CASE m = q /\ (q.lastSender \notin Senders \/ q.queued[q.lastSender] = <<>>)
  <2>1. ASSUME NEW s \in Senders, \A o \in m.heap : o.data.sender # s
        PROVE  Over(m, out, s)
    <3>1. CASE s = q.lastSender
      <4>1. Rest(q, lists, s, ran[s]) /\ q.queued[s] = <<>>
        BY <3>1, <1>2 DEF BeforeNext
      <4>2. ran[s] \in Nat /\ lists[s] \in Seq(OrderedTransaction)
        BY DEF CountsOK, ListsOK
      <4>3. ran[s] = Len(lists[s])
        BY <4>1, <4>2 DEF Rest
      <4> QED
        BY <4>1, <4>3, <1>2 DEF Over, CountsOK
    <3>2. CASE s # q.lastSender
      BY <3>2, <2>1, <1>2 DEF BeforeNext
    <3> QED
      BY <3>1, <3>2
  <2> QED
    BY <1>2, <2>1 DEF Moved, BeforeNext
<1>3. CASE /\ q.lastSender \in Senders /\ q.queued[q.lastSender] # <<>>
           /\ m.heap = q.heap \cup {Head(q.queued[q.lastSender])}
           /\ m.queued[q.lastSender] = Tail(q.queued[q.lastSender])
           /\ \A s \in Senders : s # q.lastSender => m.queued[s] = q.queued[s]
  <2> DEFINE ls == q.lastSender
             h == Head(q.queued[ls])
             waiting == q.queued[ls]
             list == lists[ls]
  <2>1. /\ ls \in Senders /\ waiting \in Seq(OrderedTransaction) /\ waiting # <<>>
        /\ list \in Seq(OrderedTransaction) /\ ran[ls] \in Nat
        /\ \A i \in 1..Len(list) : list[i].data.sender = ls
    BY <1>3, BuildFields DEF ListsOK, CountsOK
  <2>2. /\ Len(waiting) = Len(list) - ran[ls]
        /\ \A i \in 1..Len(waiting) : waiting[i] = list[ran[ls] + i]
    BY <1>3 DEF BeforeNext, Rest
  <2>3. /\ Len(waiting) \in Nat /\ Len(waiting) > 0 /\ Len(list) \in Nat
        /\ Len(Tail(waiting)) = Len(waiting) - 1
        /\ \A i \in 1..Len(Tail(waiting)) : Tail(waiting)[i] = waiting[i + 1]
        /\ h = waiting[1]
    BY <2>1
  <2>4. ran[ls] < Len(list) /\ h = list[ran[ls] + 1] /\ h.data.sender = ls
    <3>1. ran[ls] + 1 \in 1..Len(list) /\ 1 \in 1..Len(waiting)
      BY <2>1, <2>2, <2>3
    <3>2. waiting[1] = list[ran[ls] + 1]
      BY <3>1, <2>2
    <3>3. ran[ls] < Len(list)
      BY <2>1, <2>2, <2>3
    <3>4. list[ran[ls] + 1].data.sender = ls
      BY <3>1, <2>1
    <3> HIDE DEF h, waiting, list, ls
    <3> QED
      BY <3>2, <3>3, <3>4, <2>3
  <2>5. Rest(m, lists, ls, ran[ls] + 1)
    <3>1. m.queued[ls] = Tail(waiting)
      BY <1>3
    <3>2. Len(m.queued[ls]) = Len(list) - (ran[ls] + 1)
      BY <3>1, <2>1, <2>2, <2>3
    <3>3. ASSUME NEW i \in 1..Len(m.queued[ls]) PROVE m.queued[ls][i] = list[(ran[ls] + 1) + i]
      <4>1. i \in 1..Len(Tail(waiting)) /\ i + 1 \in 1..Len(waiting) /\ i \in Nat
        BY <3>1, <2>3
      <4>2. ran[ls] + (i + 1) = (ran[ls] + 1) + i
        BY <4>1, <2>1
      <4>3. waiting[i + 1] = list[ran[ls] + (i + 1)]
        BY <4>1, <2>2
      <4> QED
        BY <4>1, <4>2, <4>3, <3>1, <2>3
    <3> QED
      BY <3>2, <3>3 DEF Rest
  <2> HIDE DEF ls, h, waiting, list
  <2>6. m.heap = q.heap \cup {h} /\ \A s \in Senders : s # ls => m.queued[s] = q.queued[s]
    BY <1>3 DEF ls, h
  <2>7. Available(m, lists, ran, h)
    BY <2>1, <2>4, <2>5 DEF Available, list
  <2>8. ASSUME NEW o \in q.heap PROVE Available(m, lists, ran, o)
    <3>1. Available(q, lists, ran, o) /\ o.data.sender # ls
      BY <2>1 DEF BeforeNext, ls
    <3> QED
      BY <3>1, <2>6 DEF Available, Rest
  <2>9. ASSUME NEW s \in Senders, \A o \in m.heap : o.data.sender # s
        PROVE  Over(m, out, s)
    <3>1. s # ls /\ \A o \in q.heap : o.data.sender # s
      BY <2>4, <2>6, <2>9
    <3>2. Over(q, out, s)
      BY <3>1 DEF BeforeNext, ls
    <3> QED
      BY <3>1, <3>2, <2>6 DEF Over
  <2> QED
    BY <2>1, <2>4, <2>6, <2>7, <2>8, <2>9 DEF Moved, ls
<1> QED
  BY <1>2, <1>3, MoveIs

(* n is what getNextTransaction makes of m when it takes top. *)
Pops(n, m, top) ==
  n = [m EXCEPT !.heap = m.heap \ {top}, !.current = top, !.lastSender = top.data.sender]

(* What getNextTransaction returns and leaves *)
LEMMA NextIs ==
  ASSUME NEW m \in Build, NEW n, NEW top,
         \/ m.heap = {} /\ n = [m EXCEPT !.current = NoTx]
         \/ m.heap # {} /\ top \in m.heap /\ top.data.sender \in Senders /\ Pops(n, m, top)
  PROVE  /\ n \in Build /\ SameBlock(n, m) /\ n.queued = m.queued
         /\ InFront(n) = m.heap
         /\ n.current \notin n.heap
         /\ \/ m.heap = {} /\ n.current = NoTx /\ n.heap = {}
            \/ /\ m.heap # {} /\ n.current = top /\ n.heap = m.heap \ {top}
               /\ n.lastSender = top.data.sender /\ n.current # NoTx
<1>1. CASE m.heap = {} /\ n = [m EXCEPT !.current = NoTx]
  <2>1. /\ n \in Build /\ n.queued = m.queued /\ n.heap = {} /\ n.current = NoTx
    BY <1>1 DEF Build
  <2>2. SameBlock(n, m)
    BY <1>1 DEF Build, SameBlock
  <2> QED
    BY <1>1, <2>1, <2>2 DEF InFront
<1>2. CASE m.heap # {} /\ top \in m.heap /\ top.data.sender \in Senders /\ Pops(n, m, top)
  <2>1. top \in OrderedTransaction /\ m.heap \in SUBSET OrderedTransaction
    BY <1>2, BuildFields
  <2>2. /\ n \in Build /\ n.queued = m.queued /\ n.heap = m.heap \ {top} /\ n.current = top
        /\ n.lastSender = top.data.sender
    BY <1>2, <2>1 DEF Build, Pops
  <2>3. SameBlock(n, m)
    BY <1>2 DEF Build, SameBlock, Pops
  <2>4. top # NoTx /\ NoTx \notin m.heap
    BY <2>1, AbsentAssumption
  <2> QED
    BY <1>2, <2>2, <2>3, <2>4 DEF InFront
<1> QED
  BY <1>1, <1>2

(* getNextTransaction keeps the queue and the pending lists in step, and   *)
(* returns the first of the transactions that are available.               *)
LEMMA GetNextKeeps ==
  ASSUME NEW q \in Build, NEW lists, NEW ran, NEW out, NEW n,
         n = GetNextTransaction(q), mempoolOrder \in MempoolOrders,
         ListsOK(lists), CountsOK(lists, ran, out), BeforeNext(q, lists, ran, out)
  PROVE  /\ n \in Build /\ SameBlock(n, q)
         /\ AfterNext(n, lists, ran, out)
         /\ n.current # NoTx =>
              \A o \in n.heap : Before(mempoolOrder, n.current, o, n.baseFee)
         /\ \A o \in InFront(n) \ q.heap : q.lastSender \in Senders /\ o.data.sender = q.lastSender
<1> DEFINE m == MoveFirstEnqueuedTransactionToHeap(q)
           top == HeapTop(m.heap, q.baseFee)
<1>1. m \in Build /\ SameBlock(m, q)
  BY MoveIs
<1>2. /\ Moved(m, lists, ran, out)
      /\ \A o \in m.heap \ q.heap : q.lastSender \in Senders /\ o.data.sender = q.lastSender
  BY MoveKeeps
<1>3. n = IF m.heap = {} THEN [m EXCEPT !.current = NoTx]
          ELSE [m EXCEPT !.heap = m.heap \ {top}, !.current = top,
                         !.lastSender = top.data.sender]
  BY DEF GetNextTransaction
<1> HIDE DEF m
<1>4. ASSUME NEW o \in m.heap, NEW r \in m.heap, o.orderId = r.orderId PROVE o = r
  <2>1. Available(m, lists, ran, o) /\ Available(m, lists, ran, r)
    BY <1>2 DEF Moved
  <2> DEFINE s == o.data.sender
             t == r.data.sender
             i == ran[s] + 1
             j == ran[t] + 1
  <2>2. s \in Senders /\ t \in Senders /\ o = lists[s][i] /\ r = lists[t][j]
    BY <2>1 DEF Available
  <2>3. i \in 1..Len(lists[s])
    BY <2>1 DEF Available, CountsOK, ListsOK
  <2>4. j \in 1..Len(lists[t])
    BY <2>1 DEF Available, CountsOK, ListsOK
  <2> HIDE DEF s, t, i, j
  <2> QED
    BY <1>4, <2>2, <2>3, <2>4 DEF ListsOK
<1>5. m.heap # {} =>
        top \in m.heap /\ \A r \in m.heap \ {top} : Before(mempoolOrder, top, r, q.baseFee)
  <2>1. m.heap \in SUBSET OrderedTransaction /\ q.baseFee \in Int
    BY <1>1, BuildFields
  <2> QED
    BY <2>1, <1>4, HeapTopIsFirst
<1> HIDE DEF top
<1>6. m.heap # {} => top.data.sender \in Senders
  BY <1>1, <1>5, BuildFields, OrderedFields
<1>7. /\ n \in Build /\ SameBlock(n, m) /\ n.queued = m.queued
      /\ InFront(n) = m.heap
      /\ n.current \notin n.heap
      /\ \/ m.heap = {} /\ n.current = NoTx /\ n.heap = {}
         \/ /\ m.heap # {} /\ n.current = top /\ n.heap = m.heap \ {top}
            /\ n.lastSender = top.data.sender /\ n.current # NoTx
  <2>1. CASE m.heap = {}
    BY <2>1, <1>1, <1>3, NextIs
  <2>2. CASE m.heap # {}
    <3>1. top \in m.heap /\ top.data.sender \in Senders
      BY <2>2, <1>5, <1>6
    <3>2. Pops(n, m, top)
      BY <2>2, <1>3 DEF Pops
    <3> QED
      BY <2>2, <3>1, <3>2, <1>1, NextIs
  <2> QED
    BY <2>1, <2>2
<1>8. AfterNext(n, lists, ran, out)
  <2>1. \A o \in InFront(n) : Available(n, lists, ran, o)
    BY <1>2, <1>7 DEF Moved, Available, Rest
  <2>2. \A s \in Senders : (\A o \in InFront(n) : o.data.sender # s) => Over(n, out, s)
    BY <1>2, <1>7 DEF Moved, Over
  <2>3. /\ n.current \notin n.heap
        /\ n.current = NoTx => n.heap = {}
        /\ n.current # NoTx => n.lastSender = n.current.data.sender
    BY <1>7
  <2> QED
    BY <2>1, <2>2, <2>3 DEF AfterNext
<1>9. SameBlock(n, q)
  BY <1>1, <1>7 DEF SameBlock
<1>10. n.current # NoTx => \A o \in n.heap : Before(mempoolOrder, n.current, o, n.baseFee)
  BY <1>5, <1>7, <1>9 DEF SameBlock
<1> QED
  BY <1>2, <1>7, <1>8, <1>9, <1>10

(* The order of the block, when the transaction at the end of the block is *)
(* the last sender's.                                                      *)
LEMMA GetNextFollows ==
  ASSUME NEW order, NEW q \in Build, NEW n \in Build, SameBlock(n, q),
         n.current # NoTx => \A o \in n.heap : Before(order, n.current, o, n.baseFee),
         \A o \in InFront(n) \ q.heap : q.lastSender \in Senders /\ o.data.sender = q.lastSender,
         InOrder(order, q), Overtakes(order, q, q.heap),
         q.lastSender \in Senders =>
           q.txs # <<>> /\ q.txs[Len(q.txs)].data.sender = q.lastSender
  PROVE  Follows(order, n)
<1>1. n.txs = q.txs /\ n.baseFee = q.baseFee
  BY DEF SameBlock
<1>2. InOrder(order, n)
  BY <1>1 DEF InOrder, NoneOf
<1>3. Overtakes(order, n, InFront(n))
  <2> SUFFICES ASSUME NEW i \in DOMAIN q.txs, NEW o \in InFront(n),
                      NoneOf(q, o.data.sender, i, Len(q.txs))
               PROVE  Before(order, q.txs[i], o, q.baseFee)
    BY <1>1 DEF Overtakes, NoneOf
  <2>1. CASE o \in q.heap
    BY <2>1 DEF Overtakes
  <2>2. CASE o \notin q.heap
    <3>1. q.lastSender \in Senders /\ o.data.sender = q.lastSender
      BY <2>2
    <3>2. q.txs \in Seq(OrderedTransaction)
      BY BuildFields
    <3>3. Len(q.txs) \in i..Len(q.txs)
      BY <3>2
    <3> QED
      BY <3>1, <3>3 DEF NoneOf
  <2> QED
    BY <2>1, <2>2
<1> QED
  BY <1>2, <1>3 DEF Follows

-----------------------------------------------------------------------------
(* The steps of the loop over the queue *)

(* Counting the transactions of a sender *)
LEMMA CountIsNat ==
  ASSUME NEW q, NEW s, NEW n \in Nat
  PROVE  /\ IsFiniteSet({i \in 1..n : q.txs[i].data.sender = s})
         /\ CountOf(q, s, n) \in Nat
<1>1. IsFiniteSet(1..n)
  BY FS_Interval
<1>2. {i \in 1..n : q.txs[i].data.sender = s} \subseteq 1..n
  OBVIOUS
<1>3. IsFiniteSet({i \in 1..n : q.txs[i].data.sender = s})
  BY <1>1, <1>2, FS_Subset
<1> QED
  BY <1>3, FS_CardinalityType DEF CountOf

(* Ran has a count for every sender. *)
LEMMA RanType ==
  ASSUME NEW q \in Build
  PROVE  Ran(q) \in [Senders -> Nat] /\ \A s \in Senders : Ran(q)[s] = CountOf(q, s, Len(q.txs))
<1>1. Len(q.txs) \in Nat
  BY BuildFields
<1> QED
  BY <1>1, CountIsNat DEF Ran

(* The pending lists of the pool are as a queue needs them. *)
LEMMA PoolLists ==
  ASSUME IInv
  PROVE  ListsOK(pool.pendingTransactions)
<1> DEFINE lists == pool.pendingTransactions
<1>1. lists \in [Senders -> Seq(OrderedTransaction)]
  BY PoolFields DEF IInv, TypeOK, PoolState
<1>2. \A s \in Senders : \A i \in 1..Len(lists[s]) : lists[s][i].data.sender = s
  BY DEF IInv, PoolOK, SenderOK
<1>3. \A s \in Senders : \A i \in 1..Len(lists[s]) : lists[s][i] \in PooledAll(pool)
  BY <1>1, ElementsOfSeq DEF PooledAll, Pooled
<1> QED
  BY <1>1, <1>2, <1>3 DEF ListsOK, IInv, OrderOK

(* What differs only in the queue counts the same. *)
LEMMA SameCounts ==
  ASSUME NEW n, NEW q, SameBlock(n, q)
  PROVE  /\ Ran(n) = Ran(q) /\ Out(n) = Out(q)
         /\ RunsPrefixes(q) => RunsPrefixes(n)
         /\ Accounts(q) => Accounts(n)
         /\ \A order : InOrder(order, q) => InOrder(order, n)
         /\ \A order, O : Overtakes(order, q, O) => Overtakes(order, n, O)
<1>1. \A s, k : CountOf(n, s, k) = CountOf(q, s, k)
  BY DEF SameBlock, CountOf
<1>2. Ran(n) = Ran(q)
  BY <1>1 DEF SameBlock, Ran
<1>3. Out(n) = Out(q)
  BY <1>2 DEF SameBlock, Out, Fits, GasLeft
<1>4. RunsPrefixes(q) => RunsPrefixes(n)
  BY <1>1 DEF SameBlock, RunsPrefixes
<1>5. Accounts(q) => Accounts(n)
  BY <1>2 DEF SameBlock, Accounts
<1>6. \A order : InOrder(order, q) => InOrder(order, n)
  BY DEF SameBlock, InOrder, NoneOf
<1>7. \A order, O : Overtakes(order, q, O) => Overtakes(order, n, O)
  BY DEF SameBlock, Overtakes, NoneOf
<1> QED
  BY <1>2, <1>3, <1>4, <1>5, <1>6, <1>7

(* getNextTransaction completes each step of the loop. *)
LEMMA ReadyNext ==
  ASSUME IInv, mempoolOrder \in MempoolOrders, NEW q, Ready(q), NEW n,
         n = GetNextTransaction(q)
  PROVE  BlockOK(n)
<1> DEFINE lists == pool.pendingTransactions
<1>1. q \in Build /\ ListsOK(lists)
  BY PoolLists DEF Ready
<1>2. CountsOK(lists, Ran(q), Out(q))
  <2>1. Ran(q) \in [Senders -> Nat]
    BY <1>1, RanType
  <2>2. \A s \in Senders : Ran(q)[s] <= Len(lists[s])
    BY DEF Ready, Accounts
  <2>3. ASSUME NEW s \in Senders, Ran(q)[s] = Len(lists[s]) PROVE s \in Out(q)
    <3>1. Ran(q)[s] \in Nat
      BY <2>1
    <3>2. ~(Ran(q)[s] < Len(lists[s]))
      BY <3>1, <2>3
    <3> QED
      BY <3>2 DEF Out
  <2> QED
    BY <2>1, <2>2, <2>3 DEF CountsOK
<1>3. BeforeNext(q, lists, Ran(q), Out(q))
  BY DEF Ready
<1> HIDE DEF lists
<1>4. /\ n \in Build /\ SameBlock(n, q)
      /\ AfterNext(n, lists, Ran(q), Out(q))
      /\ n.current # NoTx => \A o \in n.heap : Before(mempoolOrder, n.current, o, n.baseFee)
      /\ \A o \in InFront(n) \ q.heap : q.lastSender \in Senders /\ o.data.sender = q.lastSender
  BY <1>1, <1>2, <1>3, GetNextKeeps
<1>5. Follows(mempoolOrder, n)
  BY <1>1, <1>4, GetNextFollows DEF Ready
<1>6. /\ Ran(n) = Ran(q) /\ Out(n) = Out(q)
      /\ RunsPrefixes(n) /\ Accounts(n)
  BY <1>4, SameCounts DEF Ready
<1>7. n.gasUsed <= pool.blockGasLimit
  BY <1>4 DEF Ready, SameBlock
<1> QED
  BY <1>4, <1>5, <1>6, <1>7 DEF BlockOK, lists

(* A new queue has the first transaction of every pending list in front. *)
LEMMA NewQueueReady ==
  ASSUME IInv, NoncesSmall(world), NEW fee \in Nat, NEW q, q = NewTransactionQueue(pool, fee)
  PROVE  Ready(q)
<1> DEFINE lists == pool.pendingTransactions
<1>1. /\ lists \in [Senders -> Seq(OrderedTransaction)] /\ ListsOK(lists)
      /\ world \in World /\ pool.blockGasLimit \in Nat
  <2>1. pool.blockGasLimit \in GasLimits /\ world \in World
    BY DEF IInv, TypeOK, PoolState
  <2> QED
    BY <2>1, PoolLists, GasLimitsAssumption DEF ListsOK
<1>2. /\ q.heap = {lists[s][1] : s \in {s \in Senders : lists[s] # <<>>}}
      /\ q.queued = [s \in Senders |-> IF lists[s] = <<>> THEN <<>> ELSE Tail(lists[s])]
      /\ q.lastSender = NoSender /\ q.current = NoTx /\ q.baseFee = fee
      /\ q.gasUsed = 0 /\ q.world = world /\ q.txs = <<>>
  BY DEF NewTransactionQueue
<1> HIDE DEF lists
<1>3. q \in Build
  <2>1. q = [heap |-> q.heap, queued |-> q.queued, lastSender |-> q.lastSender,
             current |-> q.current, baseFee |-> q.baseFee, gasUsed |-> q.gasUsed,
             world |-> q.world, txs |-> q.txs]
    BY DEF NewTransactionQueue
  <2>2. q.heap \in SUBSET OrderedTransaction
    BY <1>1, <1>2
  <2>3. q.queued \in [Senders -> Seq(OrderedTransaction)]
    BY <1>1, <1>2
  <2>4. /\ q.lastSender \in Senders \cup {NoSender} /\ q.current \in OrderedTransaction \cup {NoTx}
        /\ q.baseFee \in Nat /\ q.gasUsed \in Nat /\ q.world \in World
        /\ q.txs \in Seq(OrderedTransaction)
    BY <1>1, <1>2
  <2> QED
    BY <2>1, <2>2, <2>3, <2>4 DEF Build
<1>4. \A s \in Senders : Ran(q)[s] = 0
  <2>1. Len(q.txs) = 0
    BY <1>2
  <2>2. \A s \in Senders : {i \in 1..0 : q.txs[i].data.sender = s} = {}
    OBVIOUS
  <2> QED
    BY <2>1, <2>2, FS_EmptySet DEF Ran, CountOf
<1>5. DOMAIN q.txs = {}
  BY <1>2
<1>6. Accounts(q)
  <2>1. \A s \in Senders : world.nonce[s] \in Nat /\ Len(lists[s]) \in Nat
    BY <1>1 DEF World
  <2> QED
    BY <2>1, <1>2, <1>4, <1>5 DEF Accounts, NoncesSmall, lists
<1>7. ASSUME NEW s \in Senders, lists[s] # <<>>
      PROVE  Available(q, lists, Ran(q), lists[s][1]) /\ lists[s][1] \in q.heap
  <2>1. lists[s] \in Seq(OrderedTransaction) /\ Len(lists[s]) \in Nat /\ Len(lists[s]) > 0
    BY <1>1, <1>7
  <2>2. lists[s][1].data.sender = s
    BY <1>1, <2>1 DEF ListsOK
  <2>3. q.queued[s] = Tail(lists[s])
    BY <1>2, <1>7
  <2>4. Rest(q, lists, s, 1)
    BY <2>1, <2>3 DEF Rest
  <2>5. lists[s][1] \in q.heap
    BY <1>2, <1>7
  <2>6. Ran(q)[s] = 0 /\ 0 + 1 = 1
    BY <1>4
  <2> QED
    BY <2>1, <2>2, <2>4, <2>5, <2>6 DEF Available
<1>8. ASSUME NEW s \in Senders, \A o \in q.heap : o.data.sender # s
      PROVE  Over(q, Out(q), s)
  <2>1. lists[s] = <<>>
    <3>1. CASE lists[s] # <<>>
      <4>1. 1 \in 1..Len(lists[s])
        BY <1>1, <3>1
      <4> QED
        BY <1>8, <1>7, <3>1, <1>1, <4>1 DEF ListsOK
    <3> QED
      BY <3>1
  <2>2. ~(Ran(q)[s] < Len(lists[s]))
    BY <2>1, <1>4
  <2> QED
    BY <2>1, <2>2, <1>2 DEF Over, Out, lists
<1>9. BeforeNext(q, lists, Ran(q), Out(q))
  <2>1. NoSender \notin Senders
    BY AbsentAssumption
  <2> QED
    BY <1>2, <1>7, <1>8, <2>1 DEF BeforeNext
<1>10. RunsPrefixes(q) /\ InOrder(mempoolOrder, q) /\ Overtakes(mempoolOrder, q, q.heap)
  BY <1>5 DEF RunsPrefixes, InOrder, Overtakes
<1> QED
  BY <1>1, <1>2, <1>3, <1>6, <1>9, <1>10, AbsentAssumption DEF Ready, lists

(* The transaction at hand is its sender's only one in front. *)
LEMMA CurrentFacts ==
  ASSUME IInv, NEW b, BlockOK(b), b.current # NoTx, NEW s, s = b.current.data.sender
  PROVE  /\ s \in Senders /\ b.lastSender = s /\ b.current \in OrderedTransaction
         /\ Available(b, pool.pendingTransactions, Ran(b), b.current)
         /\ \A o \in b.heap : /\ o.data.sender # s
                              /\ Available(b, pool.pendingTransactions, Ran(b), o)
         /\ \A t \in Senders : t # s /\ (\A o \in b.heap : o.data.sender # t) =>
              Over(b, Out(b), t)
<1> DEFINE lists == pool.pendingTransactions
<1>1. AfterNext(b, lists, Ran(b), Out(b)) /\ b \in Build
  BY DEF BlockOK
<1>2. b.current \in OrderedTransaction
  BY <1>1, BuildFields
<1>3. InFront(b) = b.heap \cup {b.current}
  BY DEF InFront
<1>4. \A o \in b.heap \cup {b.current} : Available(b, lists, Ran(b), o)
  BY <1>1, <1>3 DEF AfterNext
<1>5. b.lastSender = s /\ b.current \notin b.heap
  BY <1>1 DEF AfterNext
<1>6. ASSUME NEW o \in b.heap PROVE o.data.sender # s
  BY <1>4, <1>5 DEF Available
<1>7. \A t \in Senders : t # s /\ (\A o \in b.heap : o.data.sender # t) => Over(b, Out(b), t)
  BY <1>1, <1>3 DEF AfterNext
<1> QED
  BY <1>2, <1>4, <1>5, <1>6, <1>7, OrderedFields

(* A transaction that cannot be in the block takes the later ones of its   *)
(* sender with it.                                                         *)
LEMMA SkipReady ==
  ASSUME IInv, NEW b, BlockOK(b), b.current # NoTx,
         ~IsTxMinable(b.current.data, b.baseFee) \/ ~Fits(b.current.data, b),
         NEW q, q = RemoveLastSenderTransactions(b)
  PROVE  Ready(q)
<1> DEFINE lists == pool.pendingTransactions
           s == b.current.data.sender
<1>1. /\ s \in Senders /\ b.lastSender = s
      /\ Available(b, lists, Ran(b), b.current)
      /\ \A o \in b.heap : o.data.sender # s /\ Available(b, lists, Ran(b), o)
      /\ \A t \in Senders : t # s /\ (\A o \in b.heap : o.data.sender # t) => Over(b, Out(b), t)
  BY CurrentFacts
<1>2. /\ b \in Build /\ b.gasUsed <= pool.blockGasLimit
      /\ RunsPrefixes(b) /\ Accounts(b) /\ Follows(mempoolOrder, b)
  BY DEF BlockOK
<1>3. s \in Out(b)
  BY <1>1 DEF Out, Available
<1>4. q = [b EXCEPT !.queued[s] = <<>>, !.lastSender = NoSender]
  BY <1>1 DEF RemoveLastSenderTransactions
<1> HIDE DEF lists, s
<1> DEFINE newQueued == [b.queued EXCEPT ![s] = <<>>]
<1>5. /\ newQueued \in [Senders -> Seq(OrderedTransaction)] /\ newQueued[s] = <<>>
      /\ \A t \in Senders : t # s => newQueued[t] = b.queued[t]
  <2>1. b.queued \in [Senders -> Seq(OrderedTransaction)] /\ <<>> \in Seq(OrderedTransaction)
    BY <1>2, BuildFields
  <2> QED
    BY <2>1, <1>1
<1>6. q = [b EXCEPT !.queued = newQueued, !.lastSender = NoSender]
  BY <1>2, <1>4 DEF Build
<1> HIDE DEF newQueued
<1>7. q \in Build /\ q.queued = newQueued /\ q.lastSender = NoSender /\ q.heap = b.heap
  BY <1>2, <1>5, <1>6 DEF Build
<1>8. SameBlock(q, b)
  BY <1>2, <1>6 DEF Build, SameBlock
<1>9. /\ Ran(q) = Ran(b) /\ Out(q) = Out(b) /\ RunsPrefixes(q) /\ Accounts(q)
      /\ InOrder(mempoolOrder, q) /\ Overtakes(mempoolOrder, q, InFront(b))
  BY <1>2, <1>8, SameCounts DEF Follows
<1>10. Overtakes(mempoolOrder, q, q.heap)
  BY <1>7, <1>9 DEF Overtakes, InFront
<1>11. BeforeNext(q, lists, Ran(q), Out(q))
  <2>1. ASSUME NEW o \in q.heap PROVE Available(q, lists, Ran(q), o)
    <3>1. Available(b, lists, Ran(b), o) /\ o.data.sender # s
      BY <1>1, <1>7
    <3>2. q.queued[o.data.sender] = b.queued[o.data.sender]
      BY <3>1, <1>5, <1>7 DEF Available
    <3> QED
      BY <3>1, <3>2, <1>9 DEF Available, Rest
  <2>2. ASSUME NEW t \in Senders, \A o \in q.heap : o.data.sender # t
        PROVE  Over(q, Out(q), t)
    BY <2>2, <1>1, <1>3, <1>5, <1>7, <1>9 DEF Over
  <2> QED
    BY <2>1, <2>2, <1>7, AbsentAssumption DEF BeforeNext
<1> QED
  BY <1>2, <1>7, <1>8, <1>9, <1>10, <1>11, AbsentAssumption DEF Ready, SameBlock, lists

(* Multiplication of natural numbers is monotone. *)
LEMMA ProductMonotone ==
  ASSUME NEW a \in Nat, NEW b \in Nat, NEW c \in Nat, NEW d \in Nat, a <= b, c <= d
  PROVE  a * c \in Nat /\ a * c <= b * d
<1>1. PICK x \in Nat : b = a + x
  <2>1. b - a \in Nat /\ b = a + (b - a)
    OBVIOUS
  <2> QED
    BY <2>1
<1>2. PICK y \in Nat : d = c + y
  <2>1. d - c \in Nat /\ d = c + (d - c)
    OBVIOUS
  <2> QED
    BY <2>1
<1>3. b * d = a * c + (a * y + x * c + x * y)
  BY <1>1, <1>2
<1>4. a * c \in Nat /\ a * y \in Nat /\ x * c \in Nat /\ x * y \in Nat
  BY <1>1, <1>2
<1> QED
  BY <1>3, <1>4

(* What a transaction pays is at most its upfront cost. *)
LEMMA ChargeBounded ==
  ASSUME NEW tx \in Txs, NEW baseFee \in Nat, IsTxMinable(tx, baseFee),
         NEW used \in MinTxGas..tx.gas, NEW charge \in Charges(tx, baseFee, used)
  PROVE  charge \in Nat /\ charge <= MaxUpfrontCost(tx)
<1>1. /\ tx.prio \in Nat /\ tx.maxFee \in Nat /\ tx.gas \in Nat /\ tx.value \in Nat
      /\ tx.prio <= tx.maxFee /\ tx.maxFee >= baseFee
      /\ used \in Nat /\ used <= tx.gas
  <2>1. tx \in TxShape /\ MinTxGas \in Nat
    BY TxsAssumption, MiningNumbers
  <2> QED
    BY <2>1, FeesAssumption DEF TxShape, IsTxMinable
<1> DEFINE rest == tx.maxFee - baseFee
           price == baseFee + Min({tx.prio, rest})
<1>2. rest \in Nat
  BY <1>1
<1>3. price \in Nat /\ price <= tx.maxFee
  <2> HIDE DEF rest
  <2>1. tx.prio \in Int /\ rest \in Int
    BY <1>1, <1>2
  <2>2. Min({tx.prio, rest}) \in {tx.prio, rest} /\ Min({tx.prio, rest}) <= rest
    BY <2>1, MinOfTwo
  <2> QED
    BY <2>2, <1>1, <1>2 DEF rest
<1>4. charge \in {used * price, used * price + tx.value}
  BY DEF Charges
<1> HIDE DEF price
<1>5. used * price \in Nat /\ used * price <= tx.gas * tx.maxFee
  BY <1>1, <1>3, ProductMonotone
<1>6. tx.gas * tx.maxFee \in Nat
  BY <1>1
<1> QED
  BY <1>1, <1>4, <1>5, <1>6 DEF MaxUpfrontCost

(* Counting after a transaction is appended to the block *)
LEMMA CountAppend ==
  ASSUME NEW q, NEW b \in Build, NEW o \in OrderedTransaction, q.txs = Append(b.txs, o), NEW s
  PROVE  /\ \A n \in 0..Len(b.txs) : CountOf(q, s, n) = CountOf(b, s, n)
         /\ Len(q.txs) = Len(b.txs) + 1
         /\ CountOf(q, s, Len(b.txs) + 1) =
              IF o.data.sender = s THEN CountOf(b, s, Len(b.txs)) + 1
                                   ELSE CountOf(b, s, Len(b.txs))
<1> DEFINE len == Len(b.txs)
<1>1. b.txs \in Seq(OrderedTransaction) /\ len \in Nat
  BY BuildFields
<1>2. Len(q.txs) = len + 1 /\ (\A i \in 1..len : q.txs[i] = b.txs[i]) /\ q.txs[len + 1] = o
  BY <1>1
<1> HIDE DEF len
<1>3. ASSUME NEW n \in 0..len PROVE CountOf(q, s, n) = CountOf(b, s, n)
  <2>1. {i \in 1..n : q.txs[i].data.sender = s} = {i \in 1..n : b.txs[i].data.sender = s}
    BY <1>1, <1>2
  <2> QED
    BY <2>1 DEF CountOf
<1> DEFINE S == {i \in 1..len : q.txs[i].data.sender = s}
           T == {i \in 1..(len + 1) : q.txs[i].data.sender = s}
<1>4. IsFiniteSet(S) /\ Cardinality(S) = CountOf(q, s, len) /\ Cardinality(T) = CountOf(q, s, len + 1)
  BY <1>1, CountIsNat DEF CountOf
<1>5. CASE o.data.sender = s
  <2>1. T = S \cup {len + 1} /\ len + 1 \notin S
    BY <1>1, <1>2, <1>5
  <2> HIDE DEF S, T
  <2>2. Cardinality(T) = Cardinality(S) + 1
    BY <2>1, <1>4, FS_AddElement
  <2>3. CountOf(q, s, len) = CountOf(b, s, len)
    BY <1>1, <1>3
  <2> QED
    BY <2>2, <2>3, <1>2, <1>3, <1>4, <1>5 DEF len
<1>6. CASE o.data.sender # s
  <2>1. T = S
    BY <1>1, <1>2, <1>6
  <2> HIDE DEF S, T
  <2>2. CountOf(q, s, len) = CountOf(b, s, len)
    BY <1>1, <1>3
  <2> QED
    BY <2>1, <2>2, <1>2, <1>3, <1>4, <1>6 DEF len
<1> QED
  BY <1>5, <1>6

(* The accounts after a transaction tx that pays charge *)
Paid(w, tx, charge) ==
  [nonce |-> [w.nonce EXCEPT ![tx.sender] = @ + 1],
   balance |-> [w.balance EXCEPT ![tx.sender] = @ - charge]]

(* They are accounts, and those of the other senders are what they were. *)
LEMMA PaidWorld ==
  ASSUME NEW w \in World, NEW tx \in Txs, NEW charge \in Nat, charge <= w.balance[tx.sender],
         NEW v, v = Paid(w, tx, charge)
  PROVE  /\ v \in World
         /\ v.nonce[tx.sender] = w.nonce[tx.sender] + 1
         /\ \A t \in Senders : t # tx.sender =>
              v.nonce[t] = w.nonce[t] /\ v.balance[t] = w.balance[t]
<1> DEFINE s == tx.sender
<1>1. /\ w.nonce \in [Senders -> Nat] /\ w.balance \in [Senders -> Balances] /\ s \in Senders
  BY TxsAssumption DEF World, TxShape
<1>2. w.balance[s] - charge \in Balances
  <2>1. w.balance[s] \in Balances /\ w.balance[s] \in Nat
    BY <1>1, BalancesAssumption
  <2>2. w.balance[s] - charge \in 0..w.balance[s]
    BY <2>1
  <2> QED
    BY <2>1, <2>2, BalancesClosed
<1> HIDE DEF s
<1>3. v = [nonce |-> [w.nonce EXCEPT ![s] = w.nonce[s] + 1],
           balance |-> [w.balance EXCEPT ![s] = w.balance[s] - charge]]
  BY DEF Paid, s
<1>4. v.nonce = [w.nonce EXCEPT ![s] = w.nonce[s] + 1]
      /\ v.balance = [w.balance EXCEPT ![s] = w.balance[s] - charge]
  BY <1>3
<1>5. v.nonce \in [Senders -> Nat] /\ v.balance \in [Senders -> Balances]
  BY <1>1, <1>2, <1>4
<1>6. v \in World
  BY <1>3, <1>4, <1>5 DEF World
<1> QED
  BY <1>1, <1>4, <1>6 DEF s

(* A builder after its transaction at hand has run *)
Runs(q, b, used, charge) ==
  q = [b EXCEPT !.gasUsed = b.gasUsed + used, !.txs = Append(b.txs, b.current),
                !.world = Paid(b.world, b.current.data, charge)]

(* A transaction that runs is the next one of its sender, and those that   *)
(* could not be in the block before it cannot be in the block after it.    *)
LEMMA RunReady ==
  ASSUME IInv, NEW b, BlockOK(b), b.current # NoTx, NEW tx, tx = b.current.data,
         IsTxMinable(tx, b.baseFee), Fits(tx, b), CanRun(tx, b.world),
         NEW used \in MinTxGas..tx.gas, NEW charge \in Charges(tx, b.baseFee, used),
         NEW q, Runs(q, b, used, charge)
  PROVE  Ready(q)
<1> DEFINE lists == pool.pendingTransactions
           s == tx.sender
           len == Len(b.txs)
<1>1. /\ s \in Senders /\ b.lastSender = s /\ b.current \in OrderedTransaction
      /\ Available(b, lists, Ran(b), b.current)
      /\ \A o \in b.heap : o.data.sender # s /\ Available(b, lists, Ran(b), o)
      /\ \A t \in Senders : t # s /\ (\A o \in b.heap : o.data.sender # t) => Over(b, Out(b), t)
  BY CurrentFacts
<1>2. /\ b \in Build /\ b.gasUsed <= pool.blockGasLimit
      /\ RunsPrefixes(b) /\ Accounts(b) /\ Follows(mempoolOrder, b)
  BY DEF BlockOK
<1>3. /\ tx \in Txs /\ tx.gas \in Nat /\ tx.nonce \in Nat /\ tx.nonce < MaxNonce
      /\ used \in Nat /\ used <= tx.gas /\ MaxNonce \in Nat
  BY <1>1, OrderedFields, TransactionLimits, BoundsAssumption, MiningNumbers
<1>4. /\ b.baseFee \in Nat /\ b.gasUsed \in Nat /\ b.world \in World
      /\ b.txs \in Seq(OrderedTransaction) /\ len \in Nat /\ b.heap \in SUBSET OrderedTransaction
  BY <1>2, BuildFields
<1>5. charge \in Nat /\ charge <= b.world.balance[s]
  <2>1. charge \in Nat /\ charge <= MaxUpfrontCost(tx)
    BY <1>3, <1>4, ChargeBounded
  <2>2. b.world.balance[s] >= MaxUpfrontCost(tx) /\ b.world.balance[s] \in Nat
    BY <1>1, <1>4, BalancesAssumption DEF CanRun, World
  <2>3. MaxUpfrontCost(tx) \in Nat
    BY <1>1, OrderedFields DEF MaxUpfrontCost
  <2> QED
    BY <2>1, <2>2, <2>3
<1> DEFINE v == Paid(b.world, tx, charge)
<1>6. /\ v \in World /\ v.nonce[s] = b.world.nonce[s] + 1
      /\ \A t \in Senders : t # s => v.nonce[t] = b.world.nonce[t] /\ v.balance[t] = b.world.balance[t]
  BY <1>3, <1>4, <1>5, PaidWorld
<1>7. q = [b EXCEPT !.gasUsed = b.gasUsed + used, !.txs = Append(b.txs, b.current), !.world = v]
  BY DEF Runs
<1> HIDE DEF v, lists, s
<1>8. /\ q \in Build /\ q.gasUsed = b.gasUsed + used /\ q.txs = Append(b.txs, b.current)
      /\ q.world = v /\ q.heap = b.heap /\ q.queued = b.queued /\ q.lastSender = s
      /\ q.baseFee = b.baseFee
  <2>1. Append(b.txs, b.current) \in Seq(OrderedTransaction) /\ b.gasUsed + used \in Nat
    BY <1>1, <1>3, <1>4
  <2> QED
    BY <2>1, <1>1, <1>2, <1>6, <1>7 DEF Build
<1>9. q.gasUsed <= pool.blockGasLimit
  <2>1. pool.blockGasLimit \in Nat
    BY GasLimitsAssumption DEF IInv, TypeOK, PoolState
  <2> QED
    BY <2>1, <1>3, <1>4, <1>8 DEF Fits, GasLeft
<1>10. /\ Len(q.txs) = len + 1 /\ DOMAIN q.txs = 1..(len + 1) /\ DOMAIN b.txs = 1..len
       /\ \A i \in 1..len : q.txs[i] = b.txs[i]
       /\ q.txs[len + 1] = b.current
  <2> DEFINE t == b.txs
             o == b.current
  <2>1. t \in Seq(OrderedTransaction) /\ o \in OrderedTransaction /\ q.txs = Append(t, o)
    BY <1>1, <1>4, <1>8
  <2> HIDE DEF t, o
  <2>2. /\ Len(q.txs) = Len(t) + 1 /\ DOMAIN q.txs = 1..(Len(t) + 1) /\ DOMAIN t = 1..Len(t)
        /\ \A i \in 1..Len(t) : q.txs[i] = t[i]
        /\ q.txs[Len(t) + 1] = o
    BY <2>1
  <2> QED
    BY <2>2 DEF t, o
<1>10a. \A i \in 1..(len + 1) : i = len + 1 \/ i \in 1..len
  <2>1. len \in Nat
    BY <1>4
  <2> HIDE DEF len
  <2> QED
    BY <2>1
<1>11. \A t \in Senders : \A n \in 0..len : CountOf(q, t, n) = CountOf(b, t, n)
  <2>1. q.txs = Append(b.txs, b.current) /\ b.current \in OrderedTransaction /\ b \in Build
    BY <1>1, <1>2, <1>8
  <2> QED
    BY <2>1, CountAppend
<1>12. /\ Ran(q)[s] = Ran(b)[s] + 1 /\ Ran(b)[s] \in Nat
       /\ \A t \in Senders : t # s => Ran(q)[t] = Ran(b)[t]
       /\ CountOf(q, s, len + 1) = Ran(b)[s] + 1
       /\ \A t \in Senders : Ran(b)[t] \in Nat
  <2>1. \A t \in Senders : /\ Ran(q)[t] = CountOf(q, t, Len(q.txs))
                           /\ Ran(b)[t] = CountOf(b, t, len) /\ Ran(b)[t] \in Nat
    BY <1>2, <1>8, RanType
  <2>2. \A t \in Senders : CountOf(q, t, len + 1) =
          IF b.current.data.sender = t THEN CountOf(b, t, len) + 1 ELSE CountOf(b, t, len)
    BY <1>1, <1>2, <1>8, CountAppend
  <2> QED
    BY <2>1, <2>2, <1>1, <1>10 DEF s
<1>13. ASSUME NEW i \in 1..len
       PROVE  b.txs[i] \in OrderedTransaction /\ b.txs[i].data.sender \in Senders
  <2>1. b.txs[i] \in OrderedTransaction
    BY <1>4
  <2> QED
    BY <2>1, OrderedFields
<1>14. RunsPrefixes(q)
  <2>1. ASSUME NEW i \in 1..len
        PROVE  /\ CountOf(q, q.txs[i].data.sender, i) <= Len(lists[q.txs[i].data.sender])
               /\ q.txs[i] = lists[q.txs[i].data.sender][CountOf(q, q.txs[i].data.sender, i)]
    <3>1. q.txs[i] = b.txs[i] /\ b.txs[i].data.sender \in Senders /\ i \in 0..len
      BY <1>10, <1>13, <1>4
    <3>2. CountOf(q, b.txs[i].data.sender, i) = CountOf(b, b.txs[i].data.sender, i)
      BY <3>1, <1>11
    <3> QED
      BY <3>1, <3>2, <1>2, <1>10 DEF RunsPrefixes, lists
  <2>2. CountOf(q, s, len + 1) <= Len(lists[s]) /\ b.current = lists[s][CountOf(q, s, len + 1)]
    <3>1. Ran(b)[s] < Len(lists[s]) /\ b.current = lists[s][Ran(b)[s] + 1]
      BY <1>1 DEF Available, s
    <3>2. Len(lists[s]) \in Nat
      BY <1>1 DEF IInv, TypeOK, PoolState, lists
    <3> QED
      BY <3>1, <3>2, <1>12
  <2>3. q.txs[len + 1] = b.current /\ b.current.data.sender = s
    BY <1>10 DEF s
  <2> HIDE DEF len
  <2>4. \A i \in 1..(len + 1) :
          /\ CountOf(q, q.txs[i].data.sender, i) <= Len(lists[q.txs[i].data.sender])
          /\ q.txs[i] = lists[q.txs[i].data.sender][CountOf(q, q.txs[i].data.sender, i)]
    BY <2>1, <2>2, <2>3, <1>10a
  <2> QED
    BY <2>4, <1>10 DEF RunsPrefixes, lists
<1>15. Accounts(q)
  <2>1. /\ \A t \in Senders :
             /\ b.world.nonce[t] = world.nonce[t] + Ran(b)[t]
             /\ b.world.nonce[t] <= MaxNonce
             /\ Ran(b)[t] <= Len(lists[t])
             /\ Ran(b)[t] = 0 => b.world.balance[t] = world.balance[t]
        /\ \A i \in 1..len : b.txs[i].data.nonce < b.world.nonce[b.txs[i].data.sender]
    BY <1>2, <1>10 DEF Accounts, lists
  <2>2. /\ b.world.nonce[s] = tx.nonce
        /\ Ran(b)[s] < Len(lists[s]) /\ Len(lists[s]) \in Nat
        /\ world.nonce[s] \in Nat /\ \A t \in Senders : b.world.nonce[t] \in Nat
    <3>1. Len(lists[s]) \in Nat
      BY <1>1 DEF IInv, TypeOK, PoolState, lists
    <3>2. world.nonce[s] \in Nat /\ \A t \in Senders : b.world.nonce[t] \in Nat
      BY <1>1, <1>4 DEF IInv, TypeOK, World
    <3> QED
      BY <3>1, <3>2, <1>1 DEF CanRun, Available, s
  <2>3. /\ v.nonce[s] = world.nonce[s] + Ran(q)[s]
        /\ v.nonce[s] <= MaxNonce
        /\ Ran(q)[s] <= Len(lists[s]) /\ Ran(q)[s] # 0
    <3> DEFINE k == Ran(b)[s]
               nonce == b.world.nonce[s]
    <3>1. nonce = world.nonce[s] + k /\ nonce = tx.nonce /\ k < Len(lists[s])
      BY <2>1, <2>2, <1>1
    <3>2. v.nonce[s] = nonce + 1 /\ Ran(q)[s] = k + 1 /\ k \in Nat
      BY <1>6, <1>12
    <3> HIDE DEF k, nonce
    <3> QED
      <4>1. world.nonce[s] \in Nat /\ Len(lists[s]) \in Nat
        BY <2>2
      <4>2. v.nonce[s] = world.nonce[s] + Ran(q)[s]
        BY <3>1, <3>2, <4>1
      <4>3. tx.nonce + 1 <= MaxNonce
        BY <1>3
      <4>4. v.nonce[s] <= MaxNonce
        BY <3>1, <3>2, <4>3
      <4>5. Ran(q)[s] <= Len(lists[s]) /\ Ran(q)[s] # 0
        BY <3>1, <3>2, <4>1
      <4> QED
        BY <4>2, <4>4, <4>5
  <2>4. \A t \in Senders :
          /\ v.nonce[t] = world.nonce[t] + Ran(q)[t]
          /\ v.nonce[t] <= MaxNonce
          /\ Ran(q)[t] <= Len(lists[t])
          /\ Ran(q)[t] = 0 => v.balance[t] = world.balance[t]
    BY <2>1, <2>3, <1>6, <1>12
  <2>5. ASSUME NEW i \in 1..len PROVE q.txs[i].data.nonce < v.nonce[q.txs[i].data.sender]
    <3> DEFINE t == b.txs[i].data.sender
    <3>0. b.txs[i] \in OrderedTransaction /\ t \in Senders
      BY <1>13
    <3>1. /\ t \in Senders /\ b.txs[i].data.nonce \in Nat
          /\ b.txs[i].data.nonce < b.world.nonce[t] /\ q.txs[i] = b.txs[i]
      BY <3>0, <1>10, <2>1, OrderedFields
    <3>2. v.nonce[t] = b.world.nonce[t] \/ v.nonce[t] = b.world.nonce[t] + 1
      BY <3>1, <1>6
    <3>3. b.world.nonce[t] \in Nat
      BY <3>1, <2>2
    <3> HIDE DEF t
    <3>4. b.txs[i].data.nonce < v.nonce[t]
      BY <3>1, <3>2, <3>3
    <3> QED
      BY <3>1, <3>4 DEF t
  <2>6. q.txs[len + 1].data.nonce < v.nonce[q.txs[len + 1].data.sender]
    BY <1>1, <1>3, <1>6, <1>10, <2>2 DEF s
  <2>8. \A i \in DOMAIN q.txs : q.txs[i].data.nonce < v.nonce[q.txs[i].data.sender]
    BY <2>5, <2>6, <1>10, <1>10a
  <2> QED
    BY <2>4, <2>8, <1>8 DEF Accounts, lists
<1>16. \A t \in Senders : t # s /\ t \in Out(b) => t \in Out(q)
  <2> SUFFICES ASSUME NEW t \in Senders, t # s, t \in Out(b), Ran(q)[t] < Len(lists[t]),
                      IsTxMinable(lists[t][Ran(q)[t] + 1].data, q.baseFee),
                      Fits(lists[t][Ran(q)[t] + 1].data, q)
               PROVE  FALSE
    BY DEF Out, lists
  <2> DEFINE next == lists[t][Ran(b)[t] + 1]
  <2>1. ~IsTxMinable(next.data, b.baseFee) \/ ~Fits(next.data, b)
    BY <1>12 DEF Out, lists
  <2>2. IsTxMinable(next.data, b.baseFee) /\ next.data.gas <= pool.blockGasLimit - q.gasUsed
    BY <1>8, <1>12 DEF Fits, GasLeft
  <2>3. next.data.gas \in Nat /\ pool.blockGasLimit \in Nat
    <3>1. lists[t] \in Seq(OrderedTransaction) /\ pool.blockGasLimit \in Nat
      BY GasLimitsAssumption DEF IInv, TypeOK, PoolState, lists
    <3>2. next \in OrderedTransaction
      BY <3>1, <1>12
    <3> QED
      BY <3>1, <3>2, OrderedFields
  <2> HIDE DEF next
  <2> QED
    BY <2>1, <2>2, <2>3, <1>3, <1>4, <1>8 DEF Fits, GasLeft
<1>17. BeforeNext(q, lists, Ran(q), Out(q))
  <2>1. ASSUME NEW o \in q.heap PROVE Available(q, lists, Ran(q), o)
    <3>1. o.data.sender # s /\ Available(b, lists, Ran(b), o)
      BY <1>1, <1>8
    <3>2. o.data.sender \in Senders /\ Ran(q)[o.data.sender] = Ran(b)[o.data.sender]
      BY <3>1, <1>12 DEF Available
    <3> QED
      BY <3>1, <3>2, <1>8 DEF Available, Rest
  <2>2. ASSUME NEW t \in Senders, t # q.lastSender, \A o \in q.heap : o.data.sender # t
        PROVE  Over(q, Out(q), t)
    BY <2>2, <1>1, <1>8, <1>16 DEF Over
  <2>3. (\A o \in q.heap : o.data.sender # s) /\ Rest(q, lists, s, Ran(q)[s])
    <3>1. Rest(b, lists, s, Ran(b)[s] + 1)
      BY <1>1 DEF Available, s
    <3>2. Ran(q)[s] = Ran(b)[s] + 1
      BY <1>12
    <3>3. Rest(q, lists, s, Ran(b)[s] + 1)
      BY <3>1, <1>8 DEF Rest
    <3> QED
      BY <3>2, <3>3, <1>1, <1>8
  <2> QED
    BY <2>1, <2>2, <2>3, <1>8 DEF BeforeNext
<1>18. InFront(b) = b.heap \cup {b.current}
  BY DEF InFront
<1>19. InOrder(mempoolOrder, q)
  <2> SUFFICES ASSUME NEW i \in 1..(len + 1), NEW j \in 1..(len + 1), i < j,
                      NoneOf(q, q.txs[j].data.sender, i, j - 1)
               PROVE  Before(mempoolOrder, q.txs[i], q.txs[j], b.baseFee)
    BY <1>8, <1>10 DEF InOrder
  <2>1. i \in 1..len /\ q.txs[i] = b.txs[i] /\ \A l \in i..(j - 1) : q.txs[l] = b.txs[l]
    BY <1>4, <1>10
  <2>2. CASE j = len + 1
    <3>1. NoneOf(b, b.current.data.sender, i, len)
      BY <2>1, <2>2, <1>4, <1>10, SMTT(30) DEF NoneOf
    <3> QED
      BY <3>1, <2>1, <2>2, <1>2, <1>10, <1>18 DEF Follows, Overtakes
  <2>3. CASE j # len + 1
    <3>1. j \in 1..len /\ q.txs[j] = b.txs[j]
      BY <2>3, <1>4, <1>10
    <3>2. NoneOf(b, b.txs[j].data.sender, i, j - 1)
      BY <2>1, <3>1 DEF NoneOf
    <3> QED
      BY <3>1, <3>2, <2>1, <1>2, <1>10 DEF Follows, InOrder
  <2> QED
    BY <2>2, <2>3
<1>20. Overtakes(mempoolOrder, q, q.heap)
  <2> SUFFICES ASSUME NEW i \in 1..(len + 1), NEW o \in b.heap,
                      NoneOf(q, o.data.sender, i, len + 1)
               PROVE  Before(mempoolOrder, q.txs[i], o, b.baseFee)
    BY <1>8, <1>10 DEF Overtakes
  <2>1. CASE i = len + 1
    BY <2>1, <1>2, <1>10 DEF Follows
  <2>2. CASE i # len + 1
    <3>1. i \in 1..len /\ q.txs[i] = b.txs[i]
      BY <2>2, <1>4, <1>10
    <3>2. NoneOf(b, o.data.sender, i, len)
      BY <3>1, <1>4, <1>10, SMTT(30) DEF NoneOf
    <3> QED
      BY <3>1, <3>2, <1>2, <1>10, <1>18 DEF Follows, Overtakes
  <2> QED
    BY <2>1, <2>2
<1>21. q.txs # <<>> /\ q.txs[Len(q.txs)].data.sender = q.lastSender
  BY <1>4, <1>8, <1>10 DEF s
<1> QED
  BY <1>8, <1>9, <1>14, <1>15, <1>17, <1>19, <1>20, <1>21 DEF Ready, lists

-----------------------------------------------------------------------------
(* What the invariant says of the block *)

(* The fee that the comparator of the queue compares is what the miner     *)
(* gets: the price that the sender pays less the base fee.                 *)
LEMMA MinerGets ==
  ASSUME NEW o \in OrderedTransaction, NEW baseFee \in Nat
  PROVE  Min({o.data.maxFee, baseFee + o.data.prio}) - baseFee = GetEffectiveMinerFee(o, baseFee)
<1> DEFINE a == o.data.maxFee
           p == o.data.prio
           rest == a - baseFee
           sum == baseFee + p
<1>1. a \in Int /\ p \in Int /\ rest \in Int /\ sum \in Int /\ baseFee \in Int
  BY OrderedFields
<1>2. rest = a - baseFee /\ sum = baseFee + p
  OBVIOUS
<1>3. GetEffectiveMinerFee(o, baseFee) = Min({p, rest})
  BY DEF GetEffectiveMinerFee
<1> HIDE DEF a, p, rest, sum
<1>4. Min({p, rest}) \in {p, rest} /\ Min({p, rest}) <= p /\ Min({p, rest}) <= rest
  BY <1>1, MinOfTwo
<1>5. Min({a, sum}) \in {a, sum} /\ Min({a, sum}) <= a /\ Min({a, sum}) <= sum
  BY <1>1, MinOfTwo
<1>6. Min({a, sum}) - baseFee = Min({p, rest})
  BY <1>1, <1>2, <1>4, <1>5
<1> QED
  BY <1>3, <1>6 DEF a, p, sum

(* The pending nonces of a sender count up from the account's nonce. *)
LEMMA PendingNonces ==
  ASSUME IInv, NEW s \in Senders
  PROVE  /\ world.nonce[s] \in Nat /\ pool.pendingTransactions[s] \in Seq(OrderedTransaction)
         /\ Len(pool.pendingTransactions[s]) \in Nat
         /\ \A i \in 1..Len(pool.pendingTransactions[s]) :
              /\ pool.pendingTransactions[s][i] \in OrderedTransaction
              /\ pool.pendingTransactions[s][i].data.nonce = world.nonce[s] + i - 1
              /\ pool.pendingTransactions[s][i] \in PooledAll(pool)
<1>1. SenderOK(pool.pendingTransactions[s], pool.queuedTransactions[s], world.nonce[s], s)
  BY DEF IInv, PoolOK
<1>2. world.nonce[s] \in Nat
  BY DEF IInv, TypeOK, World
<1>3. pool.pendingTransactions[s] \in Seq(OrderedTransaction)
  BY <1>1 DEF SenderOK
<1>4. \A i \in 1..Len(pool.pendingTransactions[s]) :
        pool.pendingTransactions[s][i] \in PooledAll(pool)
  BY <1>3, ElementsOfSeq DEF PooledAll, Pooled
<1> QED
  BY <1>1, <1>2, <1>3, <1>4 DEF SenderOK

(* The block runs prefixes, and the transaction at hand is executable. *)
LEMMA PrefixesFollow ==
  ASSUME MiningInv
  PROVE  BlockRunsPrefixes
<1> SUFFICES ASSUME build # NoBlock
             PROVE  /\ RunsPrefixes(build)
                    /\ build.gasUsed <= pool.blockGasLimit
                    /\ LoopGoesOn => build.current.data.nonce =
                                       build.world.nonce[build.current.data.sender]
  BY DEF BlockRunsPrefixes, RunsPrefixes
<1>1. IInv /\ BlockOK(build)
  BY DEF MiningInv, BuildOK
<1>2. ASSUME build.current # NoTx
      PROVE  build.current.data.nonce = build.world.nonce[build.current.data.sender]
  <2> DEFINE s == build.current.data.sender
             list == pool.pendingTransactions[s]
             k == Ran(build)[s]
  <2>1. s \in Senders /\ Available(build, pool.pendingTransactions, Ran(build), build.current)
    BY <1>1, <1>2, CurrentFacts
  <2>2. k \in Nat /\ k < Len(list) /\ build.current = list[k + 1]
    BY <1>1, <2>1, RanType DEF Available, BlockOK
  <2>3. build.world.nonce[s] = world.nonce[s] + k
    BY <1>1, <2>1 DEF BlockOK, Accounts
  <2>4. /\ world.nonce[s] \in Nat /\ Len(list) \in Nat
        /\ \A i \in 1..Len(list) : list[i].data.nonce = world.nonce[s] + i - 1
    BY <1>1, <2>1, PendingNonces
  <2> HIDE DEF s, k, list
  <2>5. build.current.data.nonce = world.nonce[s] + k
    BY <2>2, <2>4
  <2> QED
    BY <2>3, <2>5 DEF s
<1> QED
  BY <1>1, <1>2 DEF BlockOK, LoopGoesOn

(* When the loop ends nothing more of any sender fits in the block. *)
LEMMA FullFollows ==
  ASSUME MiningInv
  PROVE  BlockIsFull
<1> SUFFICES ASSUME build # NoBlock, ~LoopGoesOn, NEW s \in Senders,
                    CountOf(build, s, Len(build.txs)) < Len(pool.pendingTransactions[s]),
                    NEW tx, tx = pool.pendingTransactions[s]
                                   [CountOf(build, s, Len(build.txs)) + 1].data
             PROVE  ~IsTxMinable(tx, build.baseFee) \/ ~Fits(tx, build)
  BY DEF BlockIsFull
<1>1. IInv /\ BlockOK(build)
  BY DEF MiningInv, BuildOK
<1> DEFINE k == Ran(build)[s]
           list == pool.pendingTransactions[s]
<1>2. k \in Nat /\ k < Len(list) /\ tx = list[k + 1].data
  BY <1>1, RanType DEF BlockOK
<1>3. /\ Len(list) \in Nat
      /\ \A i \in 1..Len(list) : list[i] \in OrderedTransaction /\ list[i] \in PooledAll(pool)
  BY <1>1, PendingNonces
<1>4. CASE build.current = NoTx
  <2>1. AfterNext(build, pool.pendingTransactions, Ran(build), Out(build))
    BY <1>1 DEF BlockOK
  <2>2. InFront(build) = {}
    BY <1>4, <2>1 DEF InFront, AfterNext
  <2>3. s \in Out(build)
    BY <2>1, <2>2 DEF AfterNext, Over
  <2> QED
    BY <1>2, <2>3 DEF Out
<1>5. CASE build.current # NoTx
  <2>1. ~(GasLeft(build) >= MinTxGas)
    BY <1>5 DEF LoopGoesOn
  <2>2. k + 1 \in 1..Len(list)
    <3> HIDE DEF k, list
    <3> QED
      BY <1>2, <1>3
  <2>3. list[k + 1] \in OrderedTransaction /\ list[k + 1].data.wellFormed
    BY <1>1, <1>3, <2>2 DEF IInv, OrderOK, WellFormedTxs
  <2> HIDE DEF k, list
  <2>4. tx \in Txs /\ tx.gas \in Nat /\ tx.wellFormed
    BY <1>2, <2>3, OrderedFields
  <2>5. tx.gas >= MinTxGas /\ MinTxGas \in Nat
    BY <2>4, EnoughGas, MiningNumbers
  <2>6. GasLeft(build) \in Int
    <3>1. build.gasUsed \in Nat
      BY <1>1, BuildFields DEF BlockOK
    <3>2. pool.blockGasLimit \in Nat
      BY <1>1, GasLimitsAssumption DEF IInv, TypeOK, PoolState
    <3> QED
      BY <3>1, <3>2 DEF GasLeft
  <2> QED
    BY <2>1, <2>4, <2>5, <2>6 DEF Fits
<1> QED
  BY <1>4, <1>5

(* The block is in the order of the miner's fees or of arrival. *)
LEMMA OrderFollows ==
  ASSUME MiningInv
  PROVE  BlockFollowsOrder
<1> DEFINE minerGets(o) == Min({o.data.maxFee, build.baseFee + o.data.prio}) - build.baseFee
<1> SUFFICES ASSUME build # NoBlock, NEW i \in DOMAIN build.txs, NEW j \in DOMAIN build.txs,
                    i < j,
                    {l \in 1..(j - 1) : build.txs[l].data.sender = build.txs[j].data.sender}
                      \subseteq 1..(i - 1)
             PROVE  \/ mempoolOrder = "priority" /\ minerGets(build.txs[i]) > minerGets(build.txs[j])
                    \/ /\ mempoolOrder = "fifo" \/ minerGets(build.txs[i]) = minerGets(build.txs[j])
                       /\ build.txs[i].orderId < build.txs[j].orderId
  BY DEF BlockFollowsOrder
<1>1. BlockOK(build)
  BY DEF MiningInv, BuildOK
<1>2. build.txs \in Seq(OrderedTransaction) /\ build.baseFee \in Nat
  BY <1>1, BuildFields DEF BlockOK
<1>3. /\ i \in 1..Len(build.txs) /\ j \in 1..Len(build.txs)
      /\ build.txs[i] \in OrderedTransaction /\ build.txs[j] \in OrderedTransaction
  BY <1>2
<1>4. NoneOf(build, build.txs[j].data.sender, i, j - 1)
  <2> SUFFICES ASSUME NEW l \in i..(j - 1), build.txs[l].data.sender = build.txs[j].data.sender
               PROVE  FALSE
    BY DEF NoneOf
  <2>1. i \in Int /\ i >= 1 /\ j \in Int /\ Len(build.txs) \in Nat
    BY <1>2, <1>3
  <2>2. l \in 1..(j - 1) /\ l \notin 1..(i - 1)
    BY <2>1
  <2> QED
    BY <2>2
<1>5. Before(mempoolOrder, build.txs[i], build.txs[j], build.baseFee)
  BY <1>1, <1>4 DEF BlockOK, Follows, InOrder
<1>6. /\ minerGets(build.txs[i]) = GetEffectiveMinerFee(build.txs[i], build.baseFee)
      /\ minerGets(build.txs[j]) = GetEffectiveMinerFee(build.txs[j], build.baseFee)
  BY <1>2, <1>3, MinerGets
<1> HIDE DEF minerGets
<1> QED
  BY <1>5, <1>6 DEF Before

-----------------------------------------------------------------------------
(* The base fee of the next block *)

(* Integer division of a natural number rounds down. *)
LEMMA DivBounds ==
  ASSUME NEW a \in Nat, NEW b \in Nat \ {0}
  PROVE  a \div b \in Nat /\ b * (a \div b) <= a /\ a \div b <= a
<1>1. a \div b \in Int /\ b * (a \div b) <= a /\ a < b * (a \div b) + b
  OBVIOUS
<1> DEFINE d == a \div b
<1>2. d \in Int /\ b * d <= a /\ a < b * d + b
  BY <1>1
<1> HIDE DEF d
<1>3. d >= 0
  <2> SUFFICES ASSUME d <= -1 PROVE FALSE
    BY <1>2
  <2>1. b * (-1 - d) >= 0
    BY <1>2
  <2>2. b * (-1 - d) = -b - b * d
    BY <1>2
  <2> QED
    BY <1>2, <2>1, <2>2
<1>4. d <= b * d
  <2>1. 1 * d <= b * d
    BY <1>2, <1>3, ProductMonotone
  <2> QED
    BY <1>2, <2>1
<1> QED
  BY <1>2, <1>3, <1>4 DEF d

(* calcNextBaseFee never goes below zero. *)
LEMMA NextBaseFeeIsNat ==
  ASSUME NEW baseFee \in Nat, NEW gasUsed \in Nat, NEW gasLimit \in GasLimits
  PROVE  CalcNextBaseFee(baseFee, gasUsed, gasLimit) \in Nat
<1> DEFINE target == gasLimit \div 2
           delta(gas) == ((baseFee * gas) \div target) \div ChangeDenominator
<1>1. target \in Nat \ {0}
  <2>1. gasLimit \in Nat /\ gasLimit >= 2
    BY GasLimitsAssumption, EnoughGas
  <2> QED
    BY <2>1
<1>2. ChangeDenominator \in Nat \ {0}
  BY MiningNumbers
<1> HIDE DEF target
<1>3. ASSUME NEW gas \in Nat PROVE delta(gas) \in Nat
  <2> DEFINE product == baseFee * gas
             quotient == product \div target
  <2>1. product \in Nat
    OBVIOUS
  <2> HIDE DEF product
  <2>2. quotient \in Nat
    BY <2>1, <1>1, DivBounds
  <2> HIDE DEF quotient
  <2>3. quotient \div ChangeDenominator \in Nat
    BY <2>2, <1>2, DivBounds
  <2> QED
    BY <2>3 DEF product, quotient
<1>4. ASSUME NEW gas \in Nat, gas <= target PROVE delta(gas) <= baseFee
  <2> DEFINE product == baseFee * gas
             quotient == product \div target
  <2>1. product \in Nat /\ product <= baseFee * target
    BY <1>1, <1>4, ProductMonotone
  <2> HIDE DEF product
  <2>2. quotient \in Nat /\ target * quotient <= product
    BY <2>1, <1>1, DivBounds
  <2> HIDE DEF quotient
  <2>3. quotient \div ChangeDenominator \in Nat /\ quotient \div ChangeDenominator <= quotient
    BY <2>2, <1>2, DivBounds
  <2>4. quotient <= baseFee
    <3> SUFFICES ASSUME baseFee + 1 <= quotient PROVE FALSE
      BY <2>2
    <3>1. (baseFee + 1) * target <= quotient * target
      BY <2>2, <1>1, ProductMonotone
    <3>2. (baseFee + 1) * target = baseFee * target + target /\ quotient * target = target * quotient
      BY <1>1, <2>2
    <3>3. baseFee * target \in Nat /\ target * quotient \in Nat
      BY <1>1, <2>2
    <3> QED
      BY <3>1, <3>2, <3>3, <2>1, <2>2, <1>1
  <2>5. quotient \div ChangeDenominator <= baseFee
    BY <2>2, <2>3, <2>4
  <2> QED
    BY <2>5 DEF product, quotient
<1>5. ASSUME NEW d \in Nat PROVE Max({d, 1}) \in Nat
  <2>1. \E x \in {d, 1} : \A y \in {d, 1} : x >= y
    OBVIOUS
  <2> QED
    BY <2>1 DEF Max
<1>6. CalcNextBaseFee(baseFee, gasUsed, gasLimit) =
        CASE gasUsed = target -> baseFee
          [] gasUsed > target -> baseFee + Max({delta(gasUsed - target), 1})
          [] gasUsed < target -> baseFee - delta(target - gasUsed)
  BY DEF CalcNextBaseFee, target
<1> HIDE DEF delta
<1>7. CASE gasUsed = target
  BY <1>1, <1>6, <1>7
<1>8. CASE gasUsed > target
  <2>1. gasUsed - target \in Nat
    BY <1>1, <1>8
  <2>2. Max({delta(gasUsed - target), 1}) \in Nat
    BY <2>1, <1>3, <1>5
  <2>3. CalcNextBaseFee(baseFee, gasUsed, gasLimit) = baseFee + Max({delta(gasUsed - target), 1})
    BY <1>1, <1>6, <1>8
  <2> QED
    BY <2>2, <2>3
<1>9. CASE gasUsed < target
  <2>1. target - gasUsed \in Nat /\ target - gasUsed <= target
    BY <1>1, <1>9
  <2>2. delta(target - gasUsed) \in Nat /\ delta(target - gasUsed) <= baseFee
    BY <2>1, <1>3, <1>4
  <2>3. CalcNextBaseFee(baseFee, gasUsed, gasLimit) = baseFee - delta(target - gasUsed)
    BY <1>1, <1>6, <1>9
  <2> QED
    BY <2>2, <2>3
<1> QED
  BY <1>1, <1>7, <1>8, <1>9

-----------------------------------------------------------------------------
(* The steps of the node *)

(* The types of the fields of a request *)
LEMMA RequestFields ==
  ASSUME NEW r \in Request
  PROVE  /\ r # Idle /\ r.id \in Nat /\ r.tx \in Txs \cup {NoTx}
         /\ r.kind \in {"mine", "single", "add", "until", "drain"}
         /\ r.before.pool \in PoolState /\ r.before.world \in World
         /\ r.before.mined \in SUBSET Txs /\ r.before.nextBaseFee \in Nat
         /\ r.before.userBaseFee \in Nat \cup {NoFee}
         /\ r.before = [pool |-> r.before.pool, world |-> r.before.world,
                        mined |-> r.before.mined, nextBaseFee |-> r.before.nextBaseFee,
                        userBaseFee |-> r.before.userBaseFee]
<1>1. r # Idle
  BY AbsentAssumption
<1>2. /\ r.id \in Nat /\ r.tx \in Txs \cup {NoTx}
      /\ r.kind \in {"mine", "single", "add", "until", "drain"}
      /\ r.before \in [pool : PoolState, world : World, mined : SUBSET Txs,
                       nextBaseFee : Nat, userBaseFee : Nat \cup {NoFee}]
  BY DEF Request
<1> QED
  BY <1>1, <1>2

(* What MiningInv says of the variables of the pool *)
LEMMA InvFields ==
  ASSUME MiningInv
  PROVE  /\ IInv /\ pool \in PoolState /\ world \in World /\ nextOrderId \in Nat
         /\ snapshots \in SUBSET Snapshot /\ nextSnapshotId \in Nat
         /\ NodeTypeOK /\ NoncesSmall(world) /\ MinedBefore(mined, world)
         /\ SnapshotIds /\ RequestOK /\ BuildOK
BY DEF MiningInv, IInv, TypeOK, StateOK

(* A step of the loop over the queue changes the builder only. *)
LEMMA LoopStep ==
  ASSUME MiningInv, UNCHANGED <<vars, nodeVars, request>>,
         request # Idle, request.kind # "add", BlockOK(build')
  PROVE  MiningInv' /\ [Next]_vars
<1>1. [Next]_vars
  OBVIOUS
<1>2. IInv'
  BY <1>1, InvFields, NextPreserves
<1>3. pool' = pool /\ world' = world /\ mempoolOrder' = mempoolOrder
  BY DEF vars, nodeVars
<1>4. BuildOK'
  <2>1. BlockOK(build)'
    BY <1>3 DEF BlockOK, RunsPrefixes, Accounts, Out, Fits, GasLeft
  <2> QED
    BY <2>1 DEF BuildOK
<1>5. NodeTypeOK' /\ StateOK(world, mined)' /\ SnapshotIds' /\ RequestOK'
  BY DEF MiningInv, NodeTypeOK, StateOK, NoncesSmall, MinedBefore, SnapshotIds, RequestOK,
         vars, nodeVars
<1> QED
  BY <1>1, <1>2, <1>4, <1>5 DEF MiningInv

(* The three steps of the loop *)
LEMMA LoopPreserves ==
  ASSUME MiningInv,
         \/ BeginBlock
         \/ SkipTransaction
         \/ \E used, charge : RunTransaction(used, charge)
  PROVE  MiningInv' /\ [Next]_vars /\ request' = request
<1>1. CASE BeginBlock
  <2> DEFINE q == NewTransactionQueue(pool, GetNextBlockBaseFeePerGas)
  <2>1. GetNextBlockBaseFeePerGas \in Nat
    BY InvFields DEF GetNextBlockBaseFeePerGas, NodeTypeOK
  <2>2. Ready(q)
    BY <2>1, InvFields, NewQueueReady
  <2>3. build' = GetNextTransaction(q)
    BY <1>1 DEF BeginBlock
  <2> HIDE DEF q
  <2>4. BlockOK(build')
    BY <2>2, <2>3, InvFields, ReadyNext DEF NodeTypeOK
  <2>5. request # Idle /\ request.kind # "add" /\ UNCHANGED <<vars, nodeVars, request>>
    BY <1>1 DEF BeginBlock
  <2> QED
    BY <2>4, <2>5, LoopStep
<1>2. ASSUME build # NoBlock, build.current # NoTx,
             NEW q, Ready(q), build' = GetNextTransaction(q),
             UNCHANGED <<vars, nodeVars, request>>
      PROVE  MiningInv' /\ [Next]_vars /\ request' = request
  <2>1. request # Idle /\ request.kind # "add"
    BY <1>2, InvFields DEF BuildOK
  <2>2. BlockOK(build')
    BY <1>2, InvFields, ReadyNext DEF NodeTypeOK
  <2> QED
    BY <1>2, <2>1, <2>2, LoopStep
<1>3. CASE SkipTransaction
  <2>1. build # NoBlock /\ build.current # NoTx
    BY <1>3 DEF SkipTransaction, LoopGoesOn
  <2>2. Ready(RemoveLastSenderTransactions(build))
    BY <1>3, <2>1, InvFields, SkipReady DEF SkipTransaction, BuildOK
  <2> QED
    BY <1>2, <1>3, <2>1, <2>2 DEF SkipTransaction
<1>4. ASSUME NEW used, NEW charge, RunTransaction(used, charge)
      PROVE  MiningInv' /\ [Next]_vars /\ request' = request
  <2> DEFINE tx == build.current.data
             w == build.world
             q == [build EXCEPT !.gasUsed = build.gasUsed + used,
                                !.txs = Append(build.txs, build.current),
                                !.world = Paid(build.world, tx, charge)]
  <2>1. build # NoBlock /\ build.current # NoTx /\ BlockOK(build)
    BY <1>4, InvFields DEF RunTransaction, LoopGoesOn, BuildOK
  <2>2. /\ IsTxMinable(tx, build.baseFee) /\ Fits(tx, build) /\ CanRun(tx, build.world)
        /\ used \in MinTxGas..tx.gas /\ charge \in Charges(tx, build.baseFee, used)
        /\ UNCHANGED <<vars, nodeVars, request>>
    BY <1>4 DEF RunTransaction
  <2>3. build' = GetNextTransaction(q)
    BY <1>4 DEF RunTransaction, Paid
  <2>4. Runs(q, build, used, charge)
    BY DEF Runs
  <2> HIDE DEF q
  <2>5. Ready(q)
    BY <2>1, <2>2, <2>4, InvFields, RunReady
  <2> QED
    BY <2>1, <2>2, <2>3, <2>5, <1>2
<1> QED
  BY <1>1, <1>3, <1>4

(* The accounts that a block leaves are those that module TxPool allows.   *)
LEMMA BlockWorld ==
  ASSUME IInv, NEW b, BlockOK(b)
  PROVE  /\ b.world \in [nonce : [Senders -> 0..MaxNonce], balance : [Senders -> Balances]]
         /\ b.world \in World /\ WorldAfterBlock(b.world)
<1>1. b \in Build /\ Accounts(b) /\ b.world \in World
  BY BuildFields DEF BlockOK
<1>2. b.world.nonce \in [Senders -> Nat] /\ b.world.balance \in [Senders -> Balances]
  BY <1>1 DEF World
<1>3. b.world.nonce \in [Senders -> 0..MaxNonce]
  <2>1. \A s \in Senders : b.world.nonce[s] \in 0..MaxNonce
    <3>1. \A s \in Senders : b.world.nonce[s] \in Nat /\ b.world.nonce[s] <= MaxNonce
      BY <1>1, <1>2 DEF Accounts
    <3> QED
      BY <3>1, BoundsAssumption
  <2> QED
    BY <2>1, <1>2
<1>4. b.world \in [nonce : [Senders -> 0..MaxNonce], balance : [Senders -> Balances]]
  BY <1>1, <1>2, <1>3 DEF World
<1>5. ASSUME NEW s \in Senders
      PROVE  \E executed \in 0..Len(pool.pendingTransactions[s]) :
               /\ b.world.nonce[s] = world.nonce[s] + executed
               /\ executed = 0 => b.world.balance[s] >= world.balance[s]
  <2>1. /\ b.world.nonce[s] = world.nonce[s] + Ran(b)[s]
        /\ Ran(b)[s] <= Len(pool.pendingTransactions[s])
        /\ Ran(b)[s] = 0 => b.world.balance[s] = world.balance[s]
    BY <1>1 DEF Accounts
  <2>2. Ran(b)[s] \in Nat /\ Len(pool.pendingTransactions[s]) \in Nat
    BY <1>1, RanType, PendingNonces
  <2>3. world.balance[s] \in Nat
    BY BalancesAssumption DEF IInv, TypeOK, World
  <2>4. Ran(b)[s] \in 0..Len(pool.pendingTransactions[s])
    BY <2>1, <2>2
  <2>5. Ran(b)[s] = 0 => b.world.balance[s] >= world.balance[s]
    BY <2>1, <2>3
  <2> QED
    BY <2>1, <2>4, <2>5
<1> QED
  BY <1>1, <1>4, <1>5 DEF WorldAfterBlock

(* The end of a block is TxPool's MineBlock; a request that automines ends *)
(* with it only if its transaction is mined and nothing is pending.        *)
LEMMA FinishPreserves ==
  ASSUME MiningInv, FinishBlock
  PROVE  /\ MiningInv' /\ [Next]_vars
         /\ request' = Idle /\ request.kind \in Automining =>
              /\ request.tx \in mined' \ request.before.mined
              /\ ~HasPendingTransactions(pool')
<1>1. build # NoBlock /\ BlockOK(build) /\ request # Idle /\ request.kind # "add"
  BY InvFields DEF FinishBlock, BuildOK
<1>2. /\ pool' = UpdatePendingAndQueued(pool, build.world) /\ world' = build.world
      /\ mined' = mined \cup {o.data : o \in Elements(build.txs)}
      /\ nextBaseFee' = CalcNextBaseFee(build.baseFee, build.gasUsed, pool.blockGasLimit)
      /\ userBaseFee' = NoFee /\ build' = NoBlock
      /\ request' = AfterBlock(request, mined', pool')
      /\ nodeSnapshots' = RemoveSnapshot(request, request')
      /\ UNCHANGED <<nextOrderId, snapshots, nextSnapshotId, mempoolOrder, automine>>
  BY DEF FinishBlock, PoolAfterBlock, ResetUserProvidedNextBlockBaseFeePerGas
<1>3. /\ build.world \in [nonce : [Senders -> 0..MaxNonce], balance : [Senders -> Balances]]
      /\ build.world \in World /\ WorldAfterBlock(build.world)
  BY <1>1, InvFields, BlockWorld
<1>4. MineBlock
  BY <1>2, <1>3 DEF MineBlock
<1>5. [Next]_vars
  BY <1>4 DEF Next
<1>6. IInv'
  BY <1>5, InvFields, NextPreserves
<1>7. ASSUME NEW i \in DOMAIN build.txs
      PROVE  /\ build.txs[i].data \in Txs
             /\ build.txs[i].data.nonce < build.world.nonce[build.txs[i].data.sender]
  <2>1. build.txs \in Seq(OrderedTransaction)
    BY <1>1, BuildFields DEF BlockOK
  <2>2. build.txs[i] \in OrderedTransaction
    BY <2>1
  <2> QED
    BY <2>2, <1>1, OrderedFields DEF BlockOK, Accounts
<1>8. NodeTypeOK'
  <2>1. nextBaseFee' \in Nat
    <3>1. build.baseFee \in Nat /\ build.gasUsed \in Nat
      BY <1>1, BuildFields DEF BlockOK
    <3>2. pool.blockGasLimit \in GasLimits
      BY InvFields, PoolFields
    <3> QED
      BY <1>2, <3>1, <3>2, NextBaseFeeIsNat
  <2>2. mined' \subseteq Txs
    BY <1>2, <1>7, InvFields DEF Elements, NodeTypeOK
  <2>3. nodeSnapshots' \subseteq nodeSnapshots
    BY <1>2 DEF RemoveSnapshot
  <2> QED
    BY <1>2, <2>1, <2>2, <2>3, InvFields DEF NodeTypeOK
<1>9. StateOK(world, mined)'
  <2>1. NoncesSmall(build.world)
    BY <1>1 DEF BlockOK, Accounts, NoncesSmall
  <2>2. MinedBefore(mined', build.world)
    <3> SUFFICES ASSUME NEW tx \in mined' PROVE tx.nonce < build.world.nonce[tx.sender]
      BY DEF MinedBefore
    <3>1. CASE tx \in mined
      <4>1. tx \in Txs /\ tx.nonce < world.nonce[tx.sender]
        BY <3>1, InvFields DEF MinedBefore, NodeTypeOK
      <4>2. tx.sender \in Senders /\ tx.nonce \in Nat
        BY <4>1, TxsAssumption DEF TxShape
      <4>3. /\ build.world.nonce[tx.sender] = world.nonce[tx.sender] + Ran(build)[tx.sender]
            /\ Ran(build)[tx.sender] \in Nat /\ world.nonce[tx.sender] \in Nat
        BY <1>1, <4>2, RanType, InvFields, PendingNonces DEF BlockOK, Accounts
      <4> QED
        BY <4>1, <4>2, <4>3
    <3>2. CASE tx \notin mined
      BY <3>2, <1>2, <1>7 DEF Elements
    <3> QED
      BY <3>1, <3>2
  <2> QED
    BY <1>2, <2>1, <2>2 DEF StateOK, NoncesSmall, MinedBefore
<1>10. SnapshotIds'
  BY <1>2, InvFields DEF SnapshotIds, RemoveSnapshot
<1>11. BuildOK'
  BY <1>2 DEF BuildOK
<1>12. RequestOK /\ request \in Request
  BY <1>1, InvFields DEF RequestOK
<1>13. /\ \/ request' = Idle
          \/ request' = request
          \/ request' = [request EXCEPT !.kind = "drain"]
       /\ request' # Idle =>
            request.kind \in {"until", "drain"} /\ (request' # request => request.tx \in mined')
       /\ request' = Idle /\ request.kind \in Automining =>
            ~HasPendingTransactions(pool') /\ (request.kind = "until" => request.tx \in mined')
  <2> DEFINE m == mined'
             p == pool'
             r == request'
  <2>1. r = AfterBlock(request, m, p)
    BY <1>2
  <2>2. request.kind \in {"mine", "single", "until", "drain"}
    BY <1>1, <1>12, RequestFields
  <2> HIDE DEF m, p, r
  <2>3. CASE request.kind \in {"mine", "single"}
    BY <2>1, <2>3 DEF AfterBlock, Automining, r
  <2>4. CASE request.kind = "until" /\ request.tx \notin m
    BY <2>1, <2>4, <1>1 DEF AfterBlock, r
  <2>5. CASE request.kind = "drain" \/ (request.kind = "until" /\ request.tx \in m)
    <3>1. r = IF HasPendingTransactions(p) THEN [request EXCEPT !.kind = "drain"] ELSE Idle
      BY <2>1, <2>5 DEF AfterBlock
    <3>2. [request EXCEPT !.kind = "drain"] \in Request
      BY <1>12 DEF Request
    <3>3. [request EXCEPT !.kind = "drain"] # Idle
      BY <3>2, RequestFields
    <3>4. request.kind = "drain" => [request EXCEPT !.kind = "drain"] = request
      BY <1>12 DEF Request
    <3> QED
      BY <2>5, <3>1, <3>3, <3>4 DEF m, p, r
  <2> QED
    BY <2>2, <2>3, <2>4, <2>5
<1>14. RequestOK'
  <2> SUFFICES ASSUME request' # Idle PROVE RequestOK'
    BY DEF RequestOK
  <2>1. /\ request.kind \in Automining
        /\ request' = request \/ (request' = [request EXCEPT !.kind = "drain"] /\ request.tx \in mined')
    BY <1>13 DEF Automining
  <2>2. mined \subseteq mined' /\ nodeSnapshots' \subseteq nodeSnapshots /\ snapshots' = snapshots
        /\ nextSnapshotId' = nextSnapshotId /\ nextOrderId' = nextOrderId
    BY <1>2 DEF RemoveSnapshot
  <2>3. CASE request' = request
    BY <1>1, <1>12, <2>1, <2>2, <2>3 DEF RequestOK, StateOK, NoncesSmall, MinedBefore
  <2>4. CASE request' = [request EXCEPT !.kind = "drain"] /\ request.tx \in mined'
    <3>1. /\ request' \in Request /\ request'.kind = "drain" /\ request'.tx = request.tx
          /\ request'.id = request.id /\ request'.before = request.before
      BY <1>12, <2>4 DEF Request
    <3> QED
      BY <1>1, <1>12, <2>1, <2>2, <2>4, <3>1
      DEF RequestOK, StateOK, NoncesSmall, MinedBefore, Automining
  <2> QED
    BY <2>1, <2>3, <2>4
<1>15. request' = Idle /\ request.kind \in Automining =>
         /\ request.tx \in mined' \ request.before.mined
         /\ ~HasPendingTransactions(pool')
  <2>1. request.kind = "drain" => request.tx \in mined'
    BY <1>1, <1>2, <1>12 DEF RequestOK
  <2>2. request.kind \in Automining => request.tx \notin request.before.mined
    BY <1>1, <1>12 DEF RequestOK
  <2>3. request.kind \in Automining => request.kind \in {"until", "drain"}
    BY <1>1 DEF Automining
  <2> QED
    BY <1>13, <2>1, <2>2, <2>3
<1> QED
  BY <1>5, <1>6, <1>8, <1>9, <1>10, <1>11, <1>14, <1>15 DEF MiningInv

(* What the request found is what the pool, the accounts, the blocks and   *)
(* the base fees are now.                                                  *)
BackToBefore ==
  request.before = [pool |-> pool', world |-> world', mined |-> mined',
                    nextBaseFee |-> nextBaseFee', userBaseFee |-> userBaseFee']

(* A failure of automining goes back to the snapshot of the request, which *)
(* is what the request found.                                              *)
LEMMA FailPreserves ==
  ASSUME MiningInv, request # Idle, request.kind \in Automining, FailToSnapshot
  PROVE  MiningInv' /\ [Next]_vars /\ BackToBefore
<1>1. PICK x \in nodeSnapshots, y \in snapshots :
        x.id = request.id /\ y.id = request.id /\ RevertToSnapshot(x, y)
  BY DEF FailToSnapshot
<1>2. /\ pool' = y.pool /\ world' = y.world /\ snapshots' = {z \in snapshots : z.id < y.id}
      /\ mined' = x.mined /\ nextBaseFee' = x.nextBaseFee /\ userBaseFee' = x.userBaseFee
      /\ nodeSnapshots' = {z \in nodeSnapshots : z.id < x.id}
      /\ UNCHANGED <<nextOrderId, nextSnapshotId, mempoolOrder, automine>>
      /\ request' = Idle /\ build' = NoBlock
  BY <1>1 DEF FailToSnapshot, RevertToSnapshot, Revert
<1>3. /\ request \in Request /\ StateOK(request.before.world, request.before.mined)
      /\ x.mined = request.before.mined /\ x.nextBaseFee = request.before.nextBaseFee
      /\ x.userBaseFee = request.before.userBaseFee
      /\ y.pool = request.before.pool /\ y.world = request.before.world
  BY <1>1, InvFields DEF RequestOK
<1>4. Revert(y)
  BY <1>1 DEF RevertToSnapshot
<1>5. [Next]_vars
  BY <1>4 DEF Next
<1>6. IInv'
  BY <1>5, InvFields, NextPreserves
<1>7. NodeTypeOK'
  BY <1>2, <1>3, InvFields, RequestFields DEF NodeTypeOK
<1>8. StateOK(world, mined)'
  <2>1. StateOK(world', mined')
    BY <1>2, <1>3
  <2> QED
    BY <2>1 DEF StateOK, NoncesSmall, MinedBefore
<1>9. SnapshotIds' /\ RequestOK' /\ BuildOK'
  BY <1>2, InvFields DEF SnapshotIds, RequestOK, BuildOK
<1>10. BackToBefore
  BY <1>2, <1>3, RequestFields DEF BackToBefore
<1> QED
  BY <1>5, <1>6, <1>7, <1>8, <1>9, <1>10 DEF MiningInv

(* A step of the pool that leaves the nonces alone and takes no snapshot *)
LEMMA PoolStep ==
  ASSUME MiningInv, [Next]_vars, world'.nonce = world.nonce,
         UNCHANGED <<nodeVars, snapshots, nextSnapshotId, build>>, build = NoBlock
  PROVE  IInv' /\ NodeTypeOK' /\ StateOK(world, mined)' /\ SnapshotIds' /\ BuildOK'
<1>1. IInv'
  BY InvFields, NextPreserves
<1>2. NodeTypeOK' /\ SnapshotIds' /\ BuildOK'
  BY InvFields DEF nodeVars, NodeTypeOK, SnapshotIds, BuildOK
<1>3. mined' = mined
  BY DEF nodeVars
<1>4. StateOK(world, mined)'
  BY <1>3, InvFields DEF StateOK, NoncesSmall, MinedBefore
<1> QED
  BY <1>1, <1>2, <1>4

(* The transaction of a request is added, or cannot be. *)
LEMMA AddSentPreserves ==
  ASSUME MiningInv, AddSentTransaction
  PROVE  MiningInv' /\ [Next]_vars /\ request' # Idle
<1>1. /\ request # Idle /\ request.kind = "add" /\ PushPending(request.tx)
      /\ request' = [request EXCEPT !.kind = "until"] /\ UNCHANGED <<nodeVars, build>>
  BY DEF AddSentTransaction
<1>2. build = NoBlock
  BY <1>1, InvFields DEF BuildOK
<1>3. request \in Request /\ request.tx \in Txs /\ nextOrderId < MaxOrderId
  BY <1>1, InvFields DEF RequestOK, Automining
<1>4. UNCHANGED <<world, snapshots, nextSnapshotId>>
  BY <1>1 DEF PushPending
<1>5. [Next]_vars
  BY <1>1, <1>3 DEF Next, AddTransaction
<1>6. IInv' /\ NodeTypeOK' /\ StateOK(world, mined)' /\ SnapshotIds' /\ BuildOK'
  BY <1>1, <1>2, <1>4, <1>5, PoolStep
<1>7. /\ request' \in Request /\ request'.kind = "until" /\ request'.tx = request.tx
      /\ request'.id = request.id /\ request'.before = request.before
  BY <1>1, <1>3 DEF Request
<1>8. RequestOK'
  BY <1>1, <1>4, <1>7, InvFields
  DEF RequestOK, StateOK, NoncesSmall, MinedBefore, Automining, nodeVars
<1> QED
  BY <1>5, <1>6, <1>7, <1>8, RequestFields DEF MiningInv

(* A new request *)
LEMMA BeginRequest ==
  ASSUME MiningInv,
         NEW kind \in {"mine", "single", "add"}, NEW tx \in Txs \cup {NoTx}, Begin(kind, tx)
  PROVE  /\ request' \in Request /\ request'.kind = kind /\ request'.tx = tx
         /\ request'.id = nextSnapshotId
         /\ request'.before = [pool |-> pool, world |-> world, mined |-> mined,
                               nextBaseFee |-> nextBaseFee, userBaseFee |-> userBaseFee]
         /\ StateOK(request'.before.world, request'.before.mined)
<1>1. request' = [kind |-> kind, tx |-> tx, id |-> nextSnapshotId,
                  before |-> [pool |-> pool, world |-> world, mined |-> mined,
                              nextBaseFee |-> nextBaseFee, userBaseFee |-> userBaseFee]]
  BY DEF Begin
<1>2. [pool |-> pool, world |-> world, mined |-> mined,
       nextBaseFee |-> nextBaseFee, userBaseFee |-> userBaseFee]
        \in [pool : PoolState, world : World, mined : SUBSET Txs,
             nextBaseFee : Nat, userBaseFee : Nat \cup {NoFee}]
  BY InvFields DEF NodeTypeOK
<1>3. request' \in Request
  BY <1>1, <1>2, InvFields DEF Request
<1> QED
  BY <1>1, <1>3 DEF MiningInv

(* A transaction that is sent has not been mined. *)
LEMMA SentNotMined ==
  ASSUME MiningInv, NEW tx \in Txs, ValidateAutominedTx(tx)
  PROVE  tx \notin mined
<1>1. tx.sender \in Senders /\ tx.nonce \in Nat
  BY TxsAssumption DEF TxShape
<1> DEFINE s == tx.sender
           list == pool.pendingTransactions[s]
<1>2. /\ world.nonce[s] \in Nat /\ Len(list) \in Nat /\ list \in Seq(OrderedTransaction)
      /\ \A i \in 1..Len(list) : list[i].data.nonce = world.nonce[s] + i - 1
  BY <1>1, InvFields, PendingNonces
<1>3. tx.nonce = GetNextPendingNonce(pool, world, s)
  BY DEF ValidateAutominedTx
<1>4. tx.nonce = IF list = <<>> THEN world.nonce[s] ELSE list[Len(list)].data.nonce + 1
  BY <1>3 DEF GetNextPendingNonce
<1> HIDE DEF list
<1>5. tx.nonce >= world.nonce[s]
  <2>1. CASE list = <<>>
    BY <2>1, <1>1, <1>2, <1>4
  <2>2. CASE list # <<>>
    <3>1. Len(list) \in 1..Len(list)
      BY <2>2, <1>2
    <3>2. list[Len(list)].data.nonce = world.nonce[s] + Len(list) - 1
      BY <3>1, <1>2
    <3> QED
      BY <2>2, <3>1, <3>2, <1>2, <1>4
  <2> QED
    BY <2>1, <2>2
<1>6. ~(tx.nonce < world.nonce[s])
  BY <1>1, <1>2, <1>5
<1> QED
  BY <1>6, InvFields DEF MinedBefore

(* Every request that may start when no other holds the mutex *)
LEMMA NewRequestPreserves ==
  ASSUME MiningInv, NewRequest
  PROVE  MiningInv' /\ [Next]_vars
<1>1. request = Idle /\ build = NoBlock
  BY InvFields DEF NewRequest, BuildOK
<1>2. ASSUME [Next]_vars, world'.nonce = world.nonce, request' = request,
             UNCHANGED <<nodeVars, snapshots, nextSnapshotId, build>>
      PROVE  MiningInv' /\ [Next]_vars
  <2>1. RequestOK'
    BY <1>1, <1>2 DEF RequestOK
  <2> QED
    BY <1>1, <1>2, <2>1, PoolStep DEF MiningInv
<1>3. CASE MineRequest
  <2>1. UNCHANGED <<vars, nodeVars, build>> /\ Begin("mine", NoTx)
    BY <1>3 DEF MineRequest
  <2>2. [Next]_vars
    BY <2>1
  <2>3. IInv' /\ NodeTypeOK' /\ StateOK(world, mined)' /\ SnapshotIds' /\ BuildOK'
    BY <1>1, <2>1, <2>2, PoolStep DEF vars
  <2>4. /\ request' \in Request /\ request'.kind = "mine"
        /\ StateOK(request'.before.world, request'.before.mined)
    BY <2>1, BeginRequest
  <2>5. RequestOK'
    BY <2>4 DEF RequestOK, StateOK, NoncesSmall, MinedBefore, Automining
  <2> QED
    BY <2>2, <2>3, <2>5 DEF MiningInv
<1>4. CASE AddPendingTransaction
  <2>1. AddTransaction /\ UNCHANGED <<nodeVars, request, build>>
    BY <1>4 DEF AddPendingTransaction
  <2>2. UNCHANGED <<world, snapshots, nextSnapshotId>>
    BY <2>1 DEF AddTransaction, PushPending, ReplacePending, PushQueued, ReplaceQueued,
                RejectUnderpriced
  <2> QED
    BY <1>2, <2>1, <2>2 DEF Next
<1>5. ASSUME NEW tx \in Txs, MineTransaction(tx)
      PROVE  MiningInv' /\ [Next]_vars
  <2>1. /\ PushPending(tx) /\ nextOrderId < MaxOrderId /\ Begin("single", tx)
        /\ UNCHANGED <<nodeVars, build>>
    BY <1>5 DEF MineTransaction
  <2>2. UNCHANGED <<world, snapshots, nextSnapshotId>>
    BY <2>1 DEF PushPending
  <2>3. [Next]_vars
    BY <2>1 DEF Next, AddTransaction
  <2>4. IInv' /\ NodeTypeOK' /\ StateOK(world, mined)' /\ SnapshotIds' /\ BuildOK'
    BY <1>1, <2>1, <2>2, <2>3, PoolStep
  <2>5. /\ request' \in Request /\ request'.kind = "single"
        /\ StateOK(request'.before.world, request'.before.mined)
    BY <2>1, BeginRequest
  <2>6. RequestOK'
    BY <2>5 DEF RequestOK, StateOK, NoncesSmall, MinedBefore, Automining
  <2> QED
    BY <2>3, <2>4, <2>6 DEF MiningInv
<1>6. ASSUME NEW tx \in Txs, MineTransactionAndPending(tx)
      PROVE  MiningInv' /\ [Next]_vars
  <2> DEFINE x == [id |-> nextSnapshotId, nextBaseFee |-> nextBaseFee,
                   userBaseFee |-> userBaseFee, mined |-> mined]
             y == [id |-> nextSnapshotId, pool |-> pool, world |-> world]
  <2>1. /\ ValidateAutominedTx(tx) /\ Begin("add", tx) /\ UNCHANGED build
        /\ nextOrderId < MaxOrderId /\ nextSnapshotId < MaxSnapshots /\ TakeSnapshot
        /\ nodeSnapshots' = nodeSnapshots \cup {x}
        /\ snapshots' = snapshots \cup {y} /\ nextSnapshotId' = nextSnapshotId + 1
        /\ UNCHANGED <<pool, world, nextOrderId,
                       mempoolOrder, automine, nextBaseFee, userBaseFee, mined>>
    BY <1>6 DEF MineTransactionAndPending, TakeNodeSnapshot, TakeSnapshot
  <2>2. [Next]_vars
    BY <2>1 DEF Next
  <2>3. IInv'
    BY <2>2, InvFields, NextPreserves
  <2>4. x \in NodeSnapshot
    BY InvFields DEF NodeTypeOK, NodeSnapshot
  <2>5. /\ x.id = nextSnapshotId /\ x.mined = mined /\ x.nextBaseFee = nextBaseFee
        /\ x.userBaseFee = userBaseFee
        /\ y.id = nextSnapshotId /\ y.pool = pool /\ y.world = world
    OBVIOUS
  <2> HIDE DEF x, y
  <2>6. NodeTypeOK'
    BY <2>1, <2>4, InvFields DEF NodeTypeOK
  <2>7. StateOK(world, mined)'
    BY <2>1, InvFields DEF StateOK, NoncesSmall, MinedBefore
  <2>8. /\ \A z \in nodeSnapshots : z.id \in Nat /\ z.id < nextSnapshotId
        /\ \A z \in snapshots : z.id \in Nat /\ z.id < nextSnapshotId
        /\ nextSnapshotId \in Nat
    BY InvFields DEF SnapshotIds, NodeTypeOK, NodeSnapshot, Snapshot
  <2>9. SnapshotIds'
    BY <2>1, <2>5, <2>8 DEF SnapshotIds
  <2>10. BuildOK'
    BY <1>1, <2>1 DEF BuildOK
  <2>11. /\ request' \in Request /\ request'.kind = "add" /\ request'.tx = tx
         /\ request'.id = nextSnapshotId
         /\ request'.before = [pool |-> pool, world |-> world, mined |-> mined,
                               nextBaseFee |-> nextBaseFee, userBaseFee |-> userBaseFee]
         /\ StateOK(request'.before.world, request'.before.mined)
    BY <2>1, BeginRequest
  <2>12. /\ request'.before.pool = pool /\ request'.before.world = world
         /\ request'.before.mined = mined /\ request'.before.nextBaseFee = nextBaseFee
         /\ request'.before.userBaseFee = userBaseFee
    BY <2>11
  <2>13. tx \notin mined
    BY <2>1, SentNotMined
  <2>14. nextSnapshotId < nextSnapshotId'
    BY <2>1, <2>8
  <2>15. \A z \in nodeSnapshots' : z.id = nextSnapshotId => z = x
    BY <2>1, <2>8
  <2>16. \A z \in snapshots' : z.id = nextSnapshotId => z = y
    BY <2>1, <2>8
  <2>17. nextOrderId' < MaxOrderId
    BY <2>1
  <2>18. RequestOK'
    BY <2>5, <2>11, <2>12, <2>13, <2>14, <2>15, <2>16, <2>17
    DEF RequestOK, StateOK, NoncesSmall, MinedBefore, Automining
  <2> QED
    BY <2>2, <2>3, <2>6, <2>7, <2>9, <2>10, <2>18 DEF MiningInv
<1>7. ASSUME UNCHANGED <<vars, mempoolOrder, nextBaseFee, mined, nodeSnapshots, request, build>>,
             automine' \in BOOLEAN, userBaseFee' \in Nat \cup {NoFee}
      PROVE  MiningInv' /\ [Next]_vars
  <2>1. [Next]_vars
    BY <1>7
  <2>2. IInv'
    BY <2>1, InvFields, NextPreserves
  <2>3. NodeTypeOK' /\ SnapshotIds' /\ RequestOK' /\ BuildOK'
    BY <1>1, <1>7, InvFields DEF NodeTypeOK, SnapshotIds, RequestOK, BuildOK, vars
  <2>4. StateOK(world, mined)'
    BY <1>7, InvFields DEF StateOK, NoncesSmall, MinedBefore, vars
  <2> QED
    BY <2>1, <2>2, <2>3, <2>4 DEF MiningInv
<1>8. CASE \E b \in BOOLEAN : SetAutomine(b)
  BY <1>7, <1>8, InvFields DEF SetAutomine, NodeTypeOK
<1>9. CASE \E fee \in UserBaseFees : SetUserProvidedNextBlockBaseFeePerGas(fee)
  <2>1. PICK fee \in UserBaseFees : SetUserProvidedNextBlockBaseFeePerGas(fee)
    BY <1>9
  <2>2. userBaseFee' \in Nat \cup {NoFee}
    BY <2>1, MiningNumbers DEF SetUserProvidedNextBlockBaseFeePerGas
  <2> QED
    BY <1>7, <2>1, <2>2, InvFields DEF SetUserProvidedNextBlockBaseFeePerGas, NodeTypeOK
<1>10. CASE PoolRequest
  <2>1. /\ \/ RemoveTransaction
           \/ \E limit \in GasLimits : SetBlockGasLimit(limit)
           \/ \E s \in Senders, b \in SetBalances : SetAccountBalance(s, b)
        /\ UNCHANGED <<nodeVars, request, build>>
    BY <1>10 DEF PoolRequest
  <2>2. CASE RemoveTransaction
    BY <1>2, <2>1, <2>2 DEF Next, RemoveTransaction, RemovePending, RemoveQueued
  <2>3. CASE \E limit \in GasLimits : SetBlockGasLimit(limit)
    BY <1>2, <2>1, <2>3 DEF Next, SetBlockGasLimit
  <2>4. ASSUME NEW s \in Senders, NEW b \in SetBalances, SetAccountBalance(s, b)
        PROVE  MiningInv' /\ [Next]_vars
    <3>1. b \in Balances
      BY MiningNumbers
    <3>2. world'.nonce = world.nonce
      BY <2>4, InvFields DEF SetAccountBalance, World
    <3> QED
      BY <1>2, <2>1, <2>4, <3>1, <3>2 DEF Next, SetAccountBalance
  <2> QED
    BY <2>1, <2>2, <2>3, <2>4
<1> QED
  BY <1>3, <1>4, <1>5, <1>6, <1>8, <1>9, <1>10 DEF NewRequest

(* A request that automines is answered only when its transaction is mined *)
(* and nothing is pending, or when everything is as it found it.           *)
AllOrNothing ==
  request # Idle /\ request' = Idle /\ request.kind \in Automining =>
    \/ request.tx \in mined' \ request.before.mined /\ ~HasPendingTransactions(pool')
    \/ BackToBefore

(* Every step of the request that holds the mutex *)
LEMMA RequestStepPreserves ==
  ASSUME MiningInv, RequestStep
  PROVE  MiningInv' /\ [Next]_vars /\ AllOrNothing
<1>1. CASE AddSentTransaction
  BY <1>1, AddSentPreserves DEF AllOrNothing
<1>2. CASE \/ AddSentTransactionFails
           \/ AutomineFails
           \/ AutomineGivesUp
  <2>1. request # Idle /\ request.kind \in Automining /\ FailToSnapshot
    BY <1>2, InvFields DEF AddSentTransactionFails, AutomineFails, AutomineGivesUp, BlockThrows,
       LoopGoesOn, NothingToMine, BuildOK, Automining
  <2> QED
    BY <2>1, FailPreserves DEF AllOrNothing
<1>3. CASE \/ BeginBlock
           \/ SkipTransaction
           \/ \E used, charge : RunTransaction(used, charge)
  <2>1. MiningInv' /\ [Next]_vars /\ request' = request
    BY <1>3, LoopPreserves
  <2> QED
    BY <2>1 DEF AllOrNothing
<1>4. CASE FinishBlock
  BY <1>4, FinishPreserves DEF AllOrNothing
<1>5. CASE MineFails
  <2>1. /\ request' = Idle /\ build' = NoBlock /\ UNCHANGED <<vars, nodeVars>>
        /\ request.kind \in {"mine", "single"}
    BY <1>5 DEF MineFails
  <2>2. [Next]_vars
    BY <2>1
  <2>3. IInv'
    BY <2>2, InvFields, NextPreserves
  <2>4. NodeTypeOK' /\ SnapshotIds' /\ RequestOK' /\ BuildOK'
    BY <2>1, InvFields DEF NodeTypeOK, SnapshotIds, RequestOK, BuildOK, vars, nodeVars
  <2>5. StateOK(world, mined)'
    BY <2>1, InvFields DEF StateOK, NoncesSmall, MinedBefore, vars, nodeVars
  <2> QED
    BY <2>1, <2>2, <2>3, <2>4, <2>5 DEF MiningInv, AllOrNothing, Automining
<1> QED
  BY <1>1, <1>2, <1>3, <1>4, <1>5 DEF RequestStep

-----------------------------------------------------------------------------
(* The theorems *)

(* MiningInv holds at the start. *)
LEMMA MiningInitEstablishes == MiningInit => MiningInv
<1> SUFFICES ASSUME MiningInit PROVE MiningInv
  OBVIOUS
<1>1. IInv
  BY InitEstablishes DEF MiningInit
<1>2. NodeTypeOK
  BY MiningNumbers DEF MiningInit, NodeTypeOK
<1>3. NoncesSmall(world)
  <2>1. \A s \in Senders : world.nonce[s] = 0
    BY DEF MiningInit, Init
  <2> QED
    BY <2>1, BoundsAssumption DEF NoncesSmall
<1>4. MinedBefore(mined, world) /\ SnapshotIds /\ RequestOK /\ BuildOK
  BY DEF MiningInit, Init, MinedBefore, SnapshotIds, RequestOK, BuildOK
<1> QED
  BY <1>1, <1>2, <1>3, <1>4 DEF MiningInv, StateOK

(* Every step preserves MiningInv and is a step of the pool. *)
LEMMA MiningNextPreserves ==
  ASSUME MiningInv, [MiningNext]_miningVars
  PROVE  MiningInv' /\ [Next]_vars /\ [AllOrNothing]_miningVars
<1>1. CASE NewRequest
  <2>1. request = Idle
    BY <1>1 DEF NewRequest
  <2> QED
    BY <1>1, <2>1, NewRequestPreserves DEF AllOrNothing
<1>2. CASE RequestStep
  BY <1>2, RequestStepPreserves
<1>3. CASE UNCHANGED miningVars
  <2>1. UNCHANGED <<vars, nodeVars, request, build>>
    BY <1>3 DEF miningVars, vars, nodeVars
  <2>2. [Next]_vars
    BY <2>1
  <2>3. IInv'
    BY <2>2, InvFields, NextPreserves
  <2>4. NodeTypeOK' /\ SnapshotIds' /\ RequestOK' /\ StateOK(world, mined)'
    BY <2>1, InvFields DEF NodeTypeOK, SnapshotIds, RequestOK, StateOK, NoncesSmall, MinedBefore,
       vars, nodeVars
  <2>5. BuildOK'
    BY <2>1, InvFields DEF BuildOK, BlockOK, RunsPrefixes, Accounts, Out, Fits, GasLeft,
       vars, nodeVars
  <2> QED
    BY <1>3, <2>2, <2>3, <2>4, <2>5 DEF MiningInv
<1> QED
  BY <1>1, <1>2, <1>3 DEF MiningNext

(* MiningInv holds in every reachable state. *)
THEOREM MiningInvariance == MiningSpec => []MiningInv
<1>1. MiningInit => MiningInv
  BY MiningInitEstablishes
<1>2. MiningInv /\ [MiningNext]_miningVars => MiningInv'
  BY MiningNextPreserves
<1> QED
  BY <1>1, <1>2, PTL DEF MiningSpec

(* The pool, the requests and the block under construction keep their      *)
(* types; the base fee never goes below zero, and no account is left with  *)
(* a negative balance.                                                     *)
THEOREM MiningTypeCorrect == MiningSpec => []MiningTypeOK
<1>1. MiningInv => MiningTypeOK
  BY DEF MiningInv, IInv, MiningTypeOK, NodeTypeOK, RequestOK, BuildOK, BlockOK
<1> QED
  BY <1>1, MiningInvariance, PTL

(* The blocks of _mineBlockWithPendingTxs run a prefix of the pending list *)
(* of every sender, whatever transactions are skipped, and the transaction *)
(* at hand always has the nonce the VM asks for.                           *)
THEOREM BlocksRunPrefixes == MiningSpec => []BlockRunsPrefixes
<1>1. MiningInv => BlockRunsPrefixes
  BY PrefixesFollow
<1> QED
  BY <1>1, MiningInvariance, PTL

(* The TransactionQueue gives a block the order of the miner's fees, or of *)
(* arrival, among the transactions that are available at the same time.    *)
THEOREM BlocksFollowOrder == MiningSpec => []BlockFollowsOrder
<1>1. MiningInv => BlockFollowsOrder
  BY OrderFollows
<1> QED
  BY <1>1, MiningInvariance, PTL

(* The loop over the queue ends only when nothing more fits: removing the  *)
(* later transactions of a skipped sender, and stopping when less gas is   *)
(* left than the simplest transaction uses, leave nothing out.             *)
THEOREM BlocksAreFull == MiningSpec => []BlockIsFull
<1>1. MiningInv => BlockIsFull
  BY FullFollows
<1> QED
  BY <1>1, MiningInvariance, PTL

(* sendTransaction with automine either mines the transaction and empties  *)
(* the pending lists, or leaves the node as it found it.                   *)
THEOREM AutominingIsAtomic == MiningSpec => AutomineAllOrNothing
<1>1. MiningInv /\ [MiningNext]_miningVars => [AllOrNothing]_miningVars
  BY MiningNextPreserves
<1>2. [AllOrNothing]_miningVars =>
        [request # Idle /\ request' = Idle /\ request.kind \in {"add", "until", "drain"} =>
           \/ request.tx \in mined' \ request.before.mined /\ ~HasPendingTransactions(pool')
           \/ request.before = [pool |-> pool', world |-> world', mined |-> mined',
                                nextBaseFee |-> nextBaseFee',
                                userBaseFee |-> userBaseFee']]_miningVars
  BY DEF AllOrNothing, BackToBefore, Automining
<1> QED
  BY <1>1, <1>2, MiningInvariance, PTL DEF MiningSpec, AutomineAllOrNothing

(* Building a block transaction by transaction, and automining with its    *)
(* internal snapshots, implement the pool in which a block is one step.    *)
THEOREM MiningImplementsTxPool == MiningSpec => ImplementsTxPool
<1>1. MiningInit => Init
  BY DEF MiningInit
<1>2. MiningInv /\ [MiningNext]_miningVars => [Next]_vars
  BY MiningNextPreserves
<1> QED
  BY <1>1, <1>2, MiningInvariance, PTL DEF MiningSpec, Spec, ImplementsTxPool

=============================================================================
