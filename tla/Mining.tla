------------------------------- MODULE Mining -------------------------------
(***************************************************************************)
(* Block building and automining (provider/node.ts and                     *)
(* provider/TransactionQueue.ts), on top of the transaction pool.          *)
(*                                                                         *)
(* A request that mines holds the provider's mutex from its first step to  *)
(* its answer, so requests do not interleave; but it is not one step: it   *)
(* takes a snapshot, adds a transaction, runs the transactions of a block  *)
(* one by one, any of which may throw, and may mine many blocks.  Each of  *)
(* these is an action here.  The accounts that the block builder has       *)
(* changed but not committed are build.world; TxPool's world is the state  *)
(* at its checkpoint.  The whole is shown to implement module TxPool,      *)
(* which takes a block to be one step that leaves any plausible accounts.  *)
(*                                                                         *)
(* EIP-1559 is active, as in every hardfork since London; before it the    *)
(* base fee is undefined and hardhat_setMinGasPrice is supported.          *)
(***************************************************************************)
EXTENDS TxPool

CONSTANTS
  MempoolOrders,    \* the orders in which the node may mine: a subset of {"priority", "fifo"}
  MinGasPrice,      \* node._minGasPrice
  MinTxGas,         \* _getMinimalTransactionFee: what the simplest transaction uses
  InitialBaseFee,   \* the base fee of the first block
  UserBaseFees,     \* what hardhat_setNextBlockBaseFeePerGas may be given
  SetBalances,      \* the balances of the genesis accounts and of hardhat_setBalance
  ChangeDenominator,\* the base fee changes by at most 1/ChangeDenominator (8) a block
  MaxFee,           \* the largest fee of a transaction (2^256 - 1)
  MaxBaseFee,       \* bound: no block is asked for while the base fee is higher
  NoFee, NoSender, NoTx, NoBlock, Idle    \* absent values

ASSUME MempoolOrdersAssumption == MempoolOrders \subseteq {"priority", "fifo"}
ASSUME MiningNumbers ==
  /\ {MinGasPrice, InitialBaseFee, MaxBaseFee} \subseteq Nat
  /\ {MinTxGas, ChangeDenominator} \subseteq Nat \ {0}
  /\ UserBaseFees \subseteq Nat
  /\ SetBalances \subseteq Balances
ASSUME EnoughGas ==
  /\ \A limit \in GasLimits : limit >= 2
  /\ \A tx \in Txs : tx.wellFormed => tx.gas >= MinTxGas
(* The transaction library refuses larger fees, and the nonce 2^64 - 1. *)
ASSUME TransactionLimits ==
  /\ MaxFee \in Nat
  /\ \A tx \in Txs : tx.maxFee <= MaxFee /\ tx.nonce < MaxNonce
ASSUME BalancesClosed == \A b \in Balances : 0..b \subseteq Balances

VARIABLES
  mempoolOrder,   \* node._mempoolOrder
  automine,       \* node._automine
  nextBaseFee,    \* calcNextBaseFee() of the latest block's header
  userBaseFee,    \* node._userProvidedNextBlockBaseFeePerGas
  mined,          \* the transactions with a receipt
  nodeSnapshots,  \* node._snapshots, by the id of the pool's snapshot
  request,        \* the request that holds the mutex, or Idle
  build           \* the BlockBuilder and the TransactionQueue, or NoBlock

nodeVars == <<mempoolOrder, automine, nextBaseFee, userBaseFee, mined, nodeSnapshots>>
miningVars == <<pool, world, nextOrderId, snapshots, nextSnapshotId,
                mempoolOrder, automine, nextBaseFee, userBaseFee, mined,
                nodeSnapshots, request, build>>

(* The node's part of a snapshot that mining can change. *)
NodeSnapshot ==
  [id : Nat, nextBaseFee : Nat, userBaseFee : Nat \cup {NoFee}, mined : SUBSET Txs]

(* kind: "mine" is evm_mine or an interval block, "single" is              *)
(* _mineTransaction, "until" and "drain" are the two loops of              *)
(* _mineBlocksUntilTransactionIsIncluded, and "add" is the step of         *)
(* _mineTransactionAndPending before them.  `before` is not in the code:   *)
(* it is what the request found, for the properties.                       *)
Request ==
  [kind : {"mine", "single", "add", "until", "drain"}, tx : Txs \cup {NoTx},
   id : Nat, before : [pool : PoolState, world : World, mined : SUBSET Txs,
                       nextBaseFee : Nat, userBaseFee : Nat \cup {NoFee}]]

Build ==
  [heap : SUBSET OrderedTransaction, queued : [Senders -> Seq(OrderedTransaction)],
   lastSender : Senders \cup {NoSender}, current : OrderedTransaction \cup {NoTx},
   baseFee : Nat, gasUsed : Nat, world : World, txs : Seq(OrderedTransaction)]

ASSUME AbsentAssumption ==
  /\ Idle \notin Request
  /\ NoTx \notin OrderedTransaction
  /\ NoSender \notin Senders

MiningTypeOK ==
  /\ TypeOK
  /\ mempoolOrder \in MempoolOrders
  /\ automine \in BOOLEAN
  /\ nextBaseFee \in Nat
  /\ userBaseFee \in Nat \cup {NoFee}
  /\ mined \subseteq Txs
  /\ nodeSnapshots \in SUBSET NodeSnapshot
  /\ request = Idle \/ request \in Request
  /\ build = NoBlock \/ build \in Build

-----------------------------------------------------------------------------
(* Fees *)

GetNextBlockBaseFeePerGas == IF userBaseFee # NoFee THEN userBaseFee ELSE nextBaseFee

(* BlockHeader.calcNextBaseFee of the block library. *)
CalcNextBaseFee(baseFee, gasUsed, gasLimit) ==
  LET target == gasLimit \div 2
      delta(gas) == ((baseFee * gas) \div target) \div ChangeDenominator
  IN  CASE gasUsed = target -> baseFee
        [] gasUsed > target -> baseFee + Max({delta(gasUsed - target), 1})
        [] gasUsed < target -> baseFee - delta(target - gasUsed)

(* Mutant: the fee the sender offers, not the one the miner gets. *)
GetEffectiveMinerFeeMax(o, baseFee) == o.data.maxFee

GetEffectiveMinerFee(o, baseFee) == Min({o.data.prio, o.data.maxFee - baseFee})

(* The comparator of the heap: does l leave it before r?  Arrival numbers  *)
(* are distinct (ArrivalOrderUnique), so it is a total order.              *)
ComesBefore(l, r, baseFee) ==
  LET fee(o) == GetEffectiveMinerFee(o, baseFee)
  IN  \/ mempoolOrder = "priority" /\ fee(l) > fee(r)
      \/ /\ mempoolOrder = "fifo" \/ fee(l) = fee(r)
         /\ l.orderId < r.orderId

-----------------------------------------------------------------------------
(* TransactionQueue.  Its state is heap, queued and lastSender of `build`; *)
(* `current` is the transaction that getNextTransaction returned.          *)

HeapTop(heap, baseFee) ==
  CHOOSE o \in heap : \A r \in heap \ {o} : ComesBefore(o, r, baseFee)

(* _moveFirstEnqueuedTransactionToHeap, for the sender of the last one. *)
MoveFirstEnqueuedTransactionToHeap(b) ==
  IF b.lastSender = NoSender \/ b.queued[b.lastSender] = <<>> THEN b
  ELSE [b EXCEPT !.heap = @ \cup {Head(b.queued[b.lastSender])},
                 !.queued[b.lastSender] = Tail(@)]

GetNextTransaction(b) ==
  LET moved == MoveFirstEnqueuedTransactionToHeap(b)
      top == HeapTop(moved.heap, b.baseFee)
  IN  IF moved.heap = {} THEN [moved EXCEPT !.current = NoTx]
      ELSE [moved EXCEPT !.heap = @ \ {top}, !.current = top,
                         !.lastSender = top.data.sender]

(* Mutant: leaves the sender's other transactions in the queue. *)
RemoveLastSenderTransactionsOne(b) == b

(* Mutant: stops at the first transaction that is not minable. *)
RemoveLastSenderTransactionsAll(b) ==
  [b EXCEPT !.heap = {}, !.queued[b.lastSender] = <<>>, !.lastSender = NoSender]

RemoveLastSenderTransactions(b) ==
  [b EXCEPT !.queued[b.lastSender] = <<>>, !.lastSender = NoSender]

NewTransactionQueue(p, baseFee) ==
  [heap |-> {p.pendingTransactions[s][1] :
               s \in {s \in Senders : p.pendingTransactions[s] # <<>>}},
   queued |-> [s \in Senders |->
                 IF p.pendingTransactions[s] = <<>> THEN <<>>
                 ELSE Tail(p.pendingTransactions[s])],
   lastSender |-> NoSender, current |-> NoTx, baseFee |-> baseFee,
   gasUsed |-> 0, world |-> world, txs |-> <<>>]

-----------------------------------------------------------------------------
(* _mineBlockWithPendingTxs: the loop, one transaction at a time. *)

GasLeft(b) == pool.blockGasLimit - b.gasUsed

IsTxMinable(tx, baseFee) == tx.maxFee >= baseFee /\ tx.maxFee >= MinGasPrice

Fits(tx, b) == tx.gas <= GasLeft(b)

LoopGoesOn == build # NoBlock /\ GasLeft(build) >= MinTxGas /\ build.current # NoTx

HasPendingTransactions(p) == \E s \in Senders : p.pendingTransactions[s] # <<>>

BeginBlock ==
  /\ request # Idle
  /\ request.kind # "add"
  /\ request.kind = "until" => HasPendingTransactions(pool)
  /\ build = NoBlock
  /\ build' = GetNextTransaction(NewTransactionQueue(pool, GetNextBlockBaseFeePerGas))
  /\ UNCHANGED <<vars, nodeVars, request>>

SkipTransaction ==
  /\ LoopGoesOn
  /\ ~IsTxMinable(build.current.data, build.baseFee) \/ ~Fits(build.current.data, build)
  /\ build' = GetNextTransaction(RemoveLastSenderTransactions(build))
  /\ UNCHANGED <<vars, nodeVars, request>>

(* What runTx of the VM checks: the nonce and the whole upfront cost. *)
CanRun(tx, w) ==
  /\ w.nonce[tx.sender] = tx.nonce
  /\ w.balance[tx.sender] >= MaxUpfrontCost(tx)

(* What a sender pays: the gas its transaction used, and its value unless  *)
(* the transaction failed.  Nothing of it goes to another sender.          *)
Charges(tx, baseFee, used) ==
  LET gasFee == used * (baseFee + Min({tx.prio, tx.maxFee - baseFee}))
  IN  {gasFee, gasFee + tx.value}

(* blockBuilder.addTransaction *)
RunTransaction(used, charge) ==
  LET tx == build.current.data
      w == build.world
  IN  /\ LoopGoesOn
      /\ IsTxMinable(tx, build.baseFee) /\ Fits(tx, build)
      /\ CanRun(tx, w)
      /\ used \in MinTxGas..tx.gas
      /\ charge \in Charges(tx, build.baseFee, used)
      /\ build' = GetNextTransaction(
           [build EXCEPT !.gasUsed = @ + used, !.txs = Append(@, build.current),
                         !.world = [nonce |-> [w.nonce EXCEPT ![tx.sender] = @ + 1],
                                    balance |-> [w.balance EXCEPT ![tx.sender] = @ - charge]]])
      /\ UNCHANGED <<vars, nodeVars, request>>

(* Mutant: answers as soon as the sent transaction is mined. *)
AfterBlockNoDrain(r, minedNow, p) ==
  IF r.kind \in {"mine", "single", "drain"} \/ r.tx \in minedNow THEN Idle ELSE r

(* What follows the block a request has mined, with the transactions that  *)
(* have a receipt then and the updated pool.                               *)
AfterBlock(r, minedNow, p) ==
  CASE r.kind \in {"mine", "single"} -> Idle
    [] r.kind = "until" /\ r.tx \notin minedNow -> r
    [] OTHER -> IF HasPendingTransactions(p) THEN [r EXCEPT !.kind = "drain"] ELSE Idle

(* _removeSnapshot, when _mineTransactionAndPending is done: the node      *)
(* forgets the snapshot, the pool keeps its part.                          *)
RemoveSnapshot(r, next) ==
  IF r.kind \in {"until", "drain"} /\ next = Idle
    THEN {x \in nodeSnapshots : x.id # r.id} ELSE nodeSnapshots

(* Mutant: leaves the pool as it was. *)
PoolAfterBlockStale(p, w) == p

PoolAfterBlock(p, w) == UpdatePendingAndQueued(p, w)

(* Mutant: the fee applies to every later block. *)
KeepUserProvidedNextBlockBaseFeePerGas == userBaseFee

ResetUserProvidedNextBlockBaseFeePerGas == NoFee

(* blockBuilder.build, updatePendingAndQueued and the rest of mineBlock. *)
FinishBlock ==
  LET newMined == mined \cup {o.data : o \in Elements(build.txs)}
      newPool == PoolAfterBlock(pool, build.world)
      next == AfterBlock(request, newMined, newPool)
  IN  /\ build # NoBlock /\ ~LoopGoesOn
      /\ pool' = newPool
      /\ world' = build.world
      /\ mined' = newMined
      /\ nextBaseFee' = CalcNextBaseFee(build.baseFee, build.gasUsed, pool.blockGasLimit)
      /\ userBaseFee' = ResetUserProvidedNextBlockBaseFeePerGas
      /\ request' = next
      /\ nodeSnapshots' = RemoveSnapshot(request, next)
      /\ build' = NoBlock
      /\ UNCHANGED <<nextOrderId, snapshots, nextSnapshotId, mempoolOrder, automine>>

-----------------------------------------------------------------------------
(* Failures.  revertToSnapshot restores the pool, the accounts, the blocks *)
(* and the base fee, and drops this and the later snapshots.               *)

RevertToSnapshot(snapshot, poolSnapshot) ==
  /\ Revert(poolSnapshot)
  /\ mined' = snapshot.mined
  /\ nextBaseFee' = snapshot.nextBaseFee
  /\ userBaseFee' = snapshot.userBaseFee
  /\ nodeSnapshots' = {x \in nodeSnapshots : x.id < snapshot.id}
  /\ UNCHANGED <<mempoolOrder, automine>>

(* The exception that leaves _mineTransactionAndPending. *)
FailToSnapshot ==
  /\ \E x \in nodeSnapshots, y \in snapshots :
       x.id = request.id /\ y.id = request.id /\ RevertToSnapshot(x, y)
  /\ request' = Idle
  /\ build' = NoBlock

(* addTransaction throws: blockBuilder.revert() drops what the block did,  *)
(* and the pool is not updated.                                            *)
BlockThrows ==
  /\ LoopGoesOn
  /\ IsTxMinable(build.current.data, build.baseFee) /\ Fits(build.current.data, build)
  /\ ~CanRun(build.current.data, build.world)

MineFails ==
  /\ BlockThrows
  /\ request.kind \in {"mine", "single"}
  /\ request' = Idle
  /\ build' = NoBlock
  /\ UNCHANGED <<vars, nodeVars>>

AutomineFails ==
  /\ BlockThrows
  /\ request.kind \in {"until", "drain"}
  /\ FailToSnapshot

(* "Failed to mine transaction for unknown reason": the sent transaction   *)
(* is neither mined nor is anything pending.                               *)
NothingToMine ==
  /\ request # Idle
  /\ request.kind = "until"
  /\ build = NoBlock
  /\ ~HasPendingTransactions(pool)

AutomineGivesUp == NothingToMine /\ FailToSnapshot

-----------------------------------------------------------------------------
(* Requests.  A request starts when no other one holds the mutex. *)

Begin(kind, tx) ==
  request' = [kind |-> kind, tx |-> tx, id |-> nextSnapshotId,
              before |-> [pool |-> pool, world |-> world, mined |-> mined,
                          nextBaseFee |-> nextBaseFee, userBaseFee |-> userBaseFee]]

(* evm_mine, hardhat_mine and interval mining *)
MineRequest ==
  /\ nextBaseFee <= MaxBaseFee
  /\ Begin("mine", NoTx)
  /\ UNCHANGED <<vars, nodeVars, build>>

(* sendTransaction without automine *)
AddPendingTransaction ==
  /\ ~automine
  /\ AddTransaction
  /\ UNCHANGED <<nodeVars, request, build>>

ValidateAutominedTx(tx) ==
  /\ tx.nonce = GetNextPendingNonce(pool, world, tx.sender)
  /\ tx.prio >= MinGasPrice
  /\ tx.maxFee >= GetNextBlockBaseFeePerGas

(* sendTransaction with automine and an empty pool *)
MineTransaction(tx) ==
  /\ automine /\ ~HasTransactions(pool)
  /\ nextBaseFee <= MaxBaseFee /\ nextOrderId < MaxOrderId
  /\ ValidateAutominedTx(tx)
  /\ PushPending(tx)
  /\ Begin("single", tx)
  /\ UNCHANGED <<nodeVars, build>>

TakeNodeSnapshot ==
  /\ TakeSnapshot
  /\ nodeSnapshots' = nodeSnapshots \cup
       {[id |-> nextSnapshotId, nextBaseFee |-> nextBaseFee,
         userBaseFee |-> userBaseFee, mined |-> mined]}
  /\ UNCHANGED <<mempoolOrder, automine, nextBaseFee, userBaseFee, mined>>

(* sendTransaction with automine when the pool has transactions *)
MineTransactionAndPending(tx) ==
  /\ automine /\ HasTransactions(pool)
  /\ nextBaseFee <= MaxBaseFee /\ nextOrderId < MaxOrderId
  /\ nextSnapshotId < MaxSnapshots
  /\ ValidateAutominedTx(tx)
  /\ TakeNodeSnapshot
  /\ Begin("add", tx)
  /\ UNCHANGED build

(* Its addTransaction, which may throw. *)
AddSentTransaction ==
  /\ request # Idle
  /\ request.kind = "add"
  /\ PushPending(request.tx)
  /\ request' = [request EXCEPT !.kind = "until"]
  /\ UNCHANGED <<nodeVars, build>>

AddSentTransactionFails ==
  /\ request # Idle
  /\ request.kind = "add"
  /\ ~ValidateTransaction(request.tx)
  /\ FailToSnapshot

SetAutomine(b) ==
  /\ automine' = b
  /\ UNCHANGED <<vars, mempoolOrder, nextBaseFee, userBaseFee, mined, nodeSnapshots,
                 request, build>>

SetUserProvidedNextBlockBaseFeePerGas(fee) ==
  /\ userBaseFee' = fee
  /\ UNCHANGED <<vars, mempoolOrder, automine, nextBaseFee, mined, nodeSnapshots,
                 request, build>>

(* The requests of module TxPool that neither mine nor send; the snapshots *)
(* that a user takes and reverts are left to that module.                  *)
PoolRequest ==
  /\ \/ RemoveTransaction
     \/ \E limit \in GasLimits : SetBlockGasLimit(limit)
     \/ \E s \in Senders, b \in SetBalances : SetAccountBalance(s, b)
  /\ UNCHANGED <<nodeVars, request, build>>

MiningInit ==
  /\ Init
  /\ world.balance \in [Senders -> SetBalances]
  /\ mempoolOrder \in MempoolOrders
  /\ automine = TRUE
  /\ nextBaseFee = InitialBaseFee
  /\ userBaseFee = NoFee
  /\ mined = {}
  /\ nodeSnapshots = {}
  /\ request = Idle
  /\ build = NoBlock

NewRequest ==
  /\ request = Idle
  /\ \/ MineRequest
     \/ AddPendingTransaction
     \/ \E tx \in Txs : MineTransaction(tx) \/ MineTransactionAndPending(tx)
     \/ \E b \in BOOLEAN : SetAutomine(b)
     \/ \E fee \in UserBaseFees : SetUserProvidedNextBlockBaseFeePerGas(fee)
     \/ PoolRequest

(* The steps of the request that holds the mutex. *)
RequestStep ==
  \/ AddSentTransaction
  \/ AddSentTransactionFails
  \/ BeginBlock
  \/ SkipTransaction
  \/ \E used \in 1..pool.blockGasLimit :
       \E charge \in (IF LoopGoesOn THEN Charges(build.current.data, build.baseFee, used) ELSE {}) :
         RunTransaction(used, charge)
  \/ FinishBlock
  \/ MineFails
  \/ AutomineFails
  \/ AutomineGivesUp

MiningNext == NewRequest \/ RequestStep

(* A request goes on until it answers: its steps await the VM and the      *)
(* database, which answer.                                                 *)
MiningSpec == MiningInit /\ [][MiningNext]_miningVars /\ WF_miningVars(RequestStep)

-----------------------------------------------------------------------------
(* Properties *)

(* Every step of block building and automining is a step of the pool as    *)
(* module TxPool specifies it, or changes nothing of it: a block commits   *)
(* what a prefix of each pending list did, or nothing, and the internal    *)
(* snapshots of automining are ordinary ones.                              *)
ImplementsTxPool == Spec

(* How many of the first n transactions of block b are sent by s. *)
CountOf(b, s, n) == Cardinality({i \in 1..n : b.txs[i].data.sender = s})

(* The block under construction runs a prefix of the pending list of each  *)
(* sender within the gas limit, and the transaction at hand is the next    *)
(* one of its sender: skipping a transaction in the queue never lets a     *)
(* later one of its sender through, which the VM would refuse.             *)
BlockRunsPrefixes ==
  build # NoBlock =>
    /\ \A i \in DOMAIN build.txs :
         LET s == build.txs[i].data.sender
             k == CountOf(build, s, i)
         IN  k <= Len(pool.pendingTransactions[s])
               /\ build.txs[i] = pool.pendingTransactions[s][k]
    /\ build.gasUsed <= pool.blockGasLimit
    /\ LoopGoesOn => LET tx == build.current.data
                     IN  tx.nonce = build.world.nonce[tx.sender]

(* "As many pending txs as possible": when the loop over the queue ends,   *)
(* the next pending transaction of every sender could not be in the block, *)
(* because of its fees or because it needs more gas than is left.          *)
BlockIsFull ==
  build # NoBlock /\ ~LoopGoesOn =>
    \A s \in Senders :
      LET n == CountOf(build, s, Len(build.txs))
          list == pool.pendingTransactions[s]
      IN  n < Len(list) => \/ ~IsTxMinable(list[n + 1].data, build.baseFee)
                           \/ ~Fits(list[n + 1].data, build)

(* In a block, a transaction comes before another sender's transaction     *)
(* that was available at the same time only if it pays the miner more, or  *)
(* as much and came first; with fifo, only if it came first.               *)
BlockFollowsOrder ==
  build # NoBlock =>
    \A i, j \in DOMAIN build.txs :
      LET first == build.txs[i]
          second == build.txs[j]
          earlier == {l \in 1..(j - 1) : build.txs[l].data.sender = second.data.sender}
          minerGets(o) == Min({o.data.maxFee, build.baseFee + o.data.prio}) - build.baseFee
      IN  (i < j /\ earlier \subseteq 1..(i - 1)) =>
            \/ mempoolOrder = "priority" /\ minerGets(first) > minerGets(second)
            \/ /\ mempoolOrder = "fifo" \/ minerGets(first) = minerGets(second)
               /\ first.orderId < second.orderId

(* Automining when the pool is not empty is all or nothing: the request    *)
(* ends with the sent transaction mined and nothing pending, or, whichever *)
(* of its steps and blocks failed, with the pool, the accounts, the blocks *)
(* and the base fees that it found.                                        *)
AutomineAllOrNothing ==
  [][request # Idle /\ request' = Idle /\ request.kind \in {"add", "until", "drain"} =>
       \/ request.tx \in mined' \ request.before.mined /\ ~HasPendingTransactions(pool')
       \/ request.before = [pool |-> pool', world |-> world', mined |-> mined',
                            nextBaseFee |-> nextBaseFee',
                            userBaseFee |-> userBaseFee']]_miningVars

(* Every request that mines is answered: the loops of automining end       *)
(* because each block runs a transaction or lowers the base fee, down to   *)
(* the floor of calcNextBaseFee, where every pending transaction can pay.  *)
(* The fees of the instance are not below that floor: with one that is,    *)
(* and that the pool accepts, the loops go on for ever.                    *)
MiningEnds == request # Idle ~> request = Idle

(* What the comment on _mineBlockWithPendingTxs and the documentation say  *)
(* of evm_mine: it generates a block with as many pending transactions as  *)
(* possible; so it does not fail.                                          *)
MineSucceeds == ~(BlockThrows /\ request.kind = "mine")

=============================================================================
