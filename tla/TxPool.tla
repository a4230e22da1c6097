------------------------------- MODULE TxPool -------------------------------
(***************************************************************************)
(* The mempool of Hardhat Network (provider/TxPool.ts) together with the   *)
(* node operations that change it or the account state it is kept          *)
(* consistent with (provider/node.ts).                                     *)
(*                                                                         *)
(* Every request runs under the provider's mutex (see module Provider), so *)
(* a pool operation is one atomic step.  A transaction stands for its own  *)
(* hash: two transactions have the same hash iff they are the same record. *)
(* A transaction wrapped with its arrival number is an OrderedTransaction. *)
(* The pending list of a sender is a sequence, because the position of a   *)
(* transaction is what the code relies on; its queued list is a set,       *)
(* because the code sorts it or filters it before it uses it.              *)
(***************************************************************************)
EXTENDS Integers, Sequences, FiniteSets, FiniteSetsExt

CONSTANTS
  Senders,        \* the addresses that send transactions
  Contracts,      \* the senders that are impersonated contract accounts
  Txs,            \* the transactions that may be sent
  Balances,       \* the balances an account may have
  GasLimits,      \* the block gas limits that may be set
  MaxNonce,       \* the largest nonce (2^64 - 1 in the transaction library)
  MaxOrderId,     \* bound on the number of accepted transactions
  MaxSnapshots    \* bound on the number of snapshots ever taken

(* The fields of a transaction that the pool reads.  A legacy transaction  *)
(* has maxFee = prio = its gas price.  `wellFormed` is false for a         *)
(* contract creation without data and for a gas limit below the intrinsic  *)
(* cost of the transaction.                                                *)
TxShape ==
  [sender : Senders, nonce : 0..MaxNonce, maxFee : Nat, prio : Nat,
   gas : Nat, value : Nat, wellFormed : BOOLEAN]

ASSUME TxsAssumption == Txs \subseteq TxShape
ASSUME FeesAssumption == \A tx \in Txs : tx.prio <= tx.maxFee
ASSUME ContractsAssumption == Contracts \subseteq Senders
ASSUME BalancesAssumption == Balances \subseteq Nat
ASSUME GasLimitsAssumption == GasLimits \subseteq Nat /\ GasLimits # {}
ASSUME BoundsAssumption ==
  MaxNonce \in Nat /\ MaxOrderId \in Nat /\ MaxSnapshots \in Nat

VARIABLES
  pool,           \* TxPool._state, a record with the fields of PoolState
  world,          \* the accounts of the StateManager: nonces and balances
  nextOrderId,    \* TxPool._nextOrderId
  snapshots,      \* TxPool._snapshotIdToState, with the world of each
  nextSnapshotId  \* TxPool._nextSnapshotId

vars == <<pool, world, nextOrderId, snapshots, nextSnapshotId>>

OrderedTransaction == [orderId : Nat, data : Txs]

PoolState ==
  [pendingTransactions : [Senders -> Seq(OrderedTransaction)],
   queuedTransactions  : [Senders -> SUBSET OrderedTransaction],
   hashToTransaction   : SUBSET OrderedTransaction,
   blockGasLimit       : GasLimits]

World == [nonce : [Senders -> Nat], balance : [Senders -> Balances]]

Snapshot == [id : Nat, pool : PoolState, world : World]

TypeOK ==
  /\ pool \in PoolState
  /\ world \in World
  /\ nextOrderId \in Nat
  /\ snapshots \in SUBSET Snapshot
  /\ nextSnapshotId \in Nat

-----------------------------------------------------------------------------
(* Pure helpers *)

Elements(list) == {list[i] : i \in DOMAIN list}

Pooled(p, s) == Elements(p.pendingTransactions[s]) \cup p.queuedTransactions[s]

PooledAll(p) == UNION {Pooled(p, s) : s \in Senders}

Nonces(ordered) == {o.data.nonce : o \in ordered}

(* hashToTransaction is a map keyed by the transaction; as a set of        *)
(* ordered transactions, `set` replaces the entry with the same key.       *)
SetTransactionByHash(index, o) == {e \in index : e.data # o.data} \cup {o}

DeleteTransactionByHash(index, tx) == {e \in index : e.data # tx}

(* tx.data.getUpfrontCost() of the transaction library, called without a   *)
(* base fee: what the sender pays if the base fee is zero.                 *)
UpfrontCost(tx) == tx.gas * tx.prio + tx.value

MaxUpfrontCost(tx) == tx.gas * tx.maxFee + tx.value

(* Mutant: rounds the minimum fee down. *)
GetMinNewFeePriceFloor(fee) == (fee * 110) \div 100

(* 110% of the fee, rounded up. *)
GetMinNewFeePrice(fee) ==
  IF (fee * 110) % 100 = 0 THEN (fee * 110) \div 100
                           ELSE (fee * 110) \div 100 + 1

GetNextPendingNonce(p, w, s) ==
  LET list == p.pendingTransactions[s]
  IN  IF list = <<>> THEN w.nonce[s] ELSE list[Len(list)].data.nonce + 1

HasTransactions(p) == \E s \in Senders : Pooled(p, s) # {}

IsTxValid(o, nonce, balance, gasLimit) ==
  /\ o.data.gas <= gasLimit
  /\ o.data.nonce >= nonce
  /\ UpfrontCost(o.data) <= balance

-----------------------------------------------------------------------------
(* addTransaction *)

KnownTransaction(tx) == \E o \in Pooled(pool, tx.sender) : o.data = tx

ValidateTransaction(tx) ==
  /\ ~KnownTransaction(tx)
  /\ tx.wellFormed
  /\ MaxUpfrontCost(tx) <= world.balance[tx.sender]
  /\ tx.nonce >= world.nonce[tx.sender]
  /\ tx.gas <= pool.blockGasLimit

(* The replacement pays at least 10% more, for both fees. *)
PaysReplacement(old, new) ==
  /\ new.maxFee >= GetMinNewFeePrice(old.maxFee)
  /\ new.prio >= GetMinNewFeePrice(old.prio)

(* Two queued transactions have nonce n. *)
Repeated(queued, n) ==
  \E o, r \in queued : o # r /\ o.data.nonce = n /\ r.data.nonce = n

(* The walk cannot reach nonce n: no queued transaction has it, or the one *)
(* before it comes twice.                                                  *)
EndsRun(queued, n) == n \notin Nonces(queued) \/ Repeated(queued, n - 1)

(* The first nonce from `next` on where the walk ends. *)
FirstGap(queued, next) ==
  Min({n \in {next} \cup {m + 1 : m \in Nonces(queued)} :
         n >= next /\ EndsRun(queued, n)})

(* Mutant: promotes at most one queued transaction. *)
MovedCountOne(queued, next) == IF next \in Nonces(queued) THEN 1 ELSE 0

(* How many transactions reorganizeTransactionsLists moves: it walks the   *)
(* queued list in nonce order and stops at the first nonce that is not the *)
(* expected one, so a queued nonce below `next` stops it at once, and the  *)
(* second of two equal nonces stops it after the first (which of the two   *)
(* comes first in the sorted list is left open).                           *)
MovedCount(queued, next) ==
  IF \E n \in Nonces(queued) : n < next THEN 0 ELSE FirstGap(queued, next) - next

(* The moved transactions in the order they are pushed. *)
MovedToPending(queued, next) ==
  [i \in 1..MovedCount(queued, next) |->
     CHOOSE o \in queued : o.data.nonce = next + i - 1]

(* _addPendingTransaction when no pending transaction has the nonce: push  *)
(* it and let the queued transactions that follow it become executable.    *)
PushPending(tx) ==
  LET s == tx.sender
      o == [orderId |-> nextOrderId, data |-> tx]
      moved == MovedToPending(pool.queuedTransactions[s], tx.nonce + 1)
  IN  /\ ValidateTransaction(tx)
      /\ tx.nonce <= GetNextPendingNonce(pool, world, s)
      /\ tx.nonce \notin Nonces(Elements(pool.pendingTransactions[s]))
      /\ pool' = [pool EXCEPT
           !.pendingTransactions[s] = Append(@, o) \o moved,
           !.queuedTransactions[s] = @ \ Elements(moved),
           !.hashToTransaction = SetTransactionByHash(@, o)]
      /\ nextOrderId' = nextOrderId + 1
      /\ UNCHANGED <<world, snapshots, nextSnapshotId>>

(* _addPendingTransaction when pending transaction i has the nonce. *)
ReplacePending(tx, i) ==
  LET s == tx.sender
      o == [orderId |-> nextOrderId, data |-> tx]
      old == pool.pendingTransactions[s][i]
  IN  /\ ValidateTransaction(tx)
      /\ tx.nonce <= GetNextPendingNonce(pool, world, s)
      /\ old.data.nonce = tx.nonce
      /\ PaysReplacement(old.data, tx)
      /\ pool' = [pool EXCEPT
           !.pendingTransactions[s][i] = o,
           !.hashToTransaction =
              SetTransactionByHash(DeleteTransactionByHash(@, old.data), o)]
      /\ nextOrderId' = nextOrderId + 1
      /\ UNCHANGED <<world, snapshots, nextSnapshotId>>

(* _addQueuedTransaction when no queued transaction has the nonce. *)
PushQueued(tx) ==
  LET s == tx.sender
      o == [orderId |-> nextOrderId, data |-> tx]
  IN  /\ ValidateTransaction(tx)
      /\ tx.nonce > GetNextPendingNonce(pool, world, s)
      /\ tx.nonce \notin Nonces(pool.queuedTransactions[s])
      /\ pool' = [pool EXCEPT
           !.queuedTransactions[s] = @ \cup {o},
           !.hashToTransaction = SetTransactionByHash(@, o)]
      /\ nextOrderId' = nextOrderId + 1
      /\ UNCHANGED <<world, snapshots, nextSnapshotId>>

(* _addQueuedTransaction when the queued transaction old has the nonce. *)
ReplaceQueued(tx, old) ==
  LET s == tx.sender
      o == [orderId |-> nextOrderId, data |-> tx]
  IN  /\ ValidateTransaction(tx)
      /\ tx.nonce > GetNextPendingNonce(pool, world, s)
      /\ old.data.nonce = tx.nonce
      /\ PaysReplacement(old.data, tx)
      /\ pool' = [pool EXCEPT
           !.queuedTransactions[s] = (@ \ {old}) \cup {o},
           !.hashToTransaction =
              SetTransactionByHash(DeleteTransactionByHash(@, old.data), o)]
      /\ nextOrderId' = nextOrderId + 1
      /\ UNCHANGED <<world, snapshots, nextSnapshotId>>

(* An underpriced replacement throws from _replaceTx: the pool is as it    *)
(* was, but the order id has been taken.                                   *)
RejectUnderpriced(tx) ==
  LET s == tx.sender
      list == IF tx.nonce > GetNextPendingNonce(pool, world, s)
                THEN pool.queuedTransactions[s]
                ELSE Elements(pool.pendingTransactions[s])
  IN  /\ ValidateTransaction(tx)
      /\ \E old \in list : /\ old.data.nonce = tx.nonce
                           /\ ~PaysReplacement(old.data, tx)
      /\ nextOrderId' = nextOrderId + 1
      /\ UNCHANGED <<pool, world, snapshots, nextSnapshotId>>

-----------------------------------------------------------------------------
(* removeTransaction, called by hardhat_dropTransaction.  It finds the     *)
(* transaction through the hash index.                                     *)

(* Mutant: forgets the transactions after the removed one. *)
RemovePendingForget(o, i) ==
  LET s == o.data.sender
  IN  /\ o \in pool.hashToTransaction
      /\ pool.pendingTransactions[s][i] = o
      /\ pool' = [pool EXCEPT
           !.pendingTransactions[s] = SubSeq(@, 1, i - 1),
           !.hashToTransaction = DeleteTransactionByHash(@, o.data)]
      /\ UNCHANGED <<world, nextOrderId, snapshots, nextSnapshotId>>

RemovePending(o, i) ==
  LET s == o.data.sender
      list == pool.pendingTransactions[s]
  IN  /\ o \in pool.hashToTransaction
      /\ list[i] = o
      /\ pool' = [pool EXCEPT
           !.pendingTransactions[s] = SubSeq(@, 1, i - 1),
           !.queuedTransactions[s] =
              @ \cup {list[j] : j \in (i + 1)..Len(list)},
           !.hashToTransaction = DeleteTransactionByHash(@, o.data)]
      /\ UNCHANGED <<world, nextOrderId, snapshots, nextSnapshotId>>

RemoveQueued(o) ==
  LET s == o.data.sender
  IN  /\ o \in pool.hashToTransaction
      /\ o \notin Elements(pool.pendingTransactions[s])
      /\ o \in pool.queuedTransactions[s]
      /\ pool' = [pool EXCEPT
           !.queuedTransactions[s] = @ \ {o},
           !.hashToTransaction = DeleteTransactionByHash(@, o.data)]
      /\ UNCHANGED <<world, nextOrderId, snapshots, nextSnapshotId>>

-----------------------------------------------------------------------------
(* updatePendingAndQueued.  The loop over a pending list drops the stale   *)
(* transactions, stops at the first other invalid one, drops it too, and   *)
(* moves the rest to the queued list, which is then filtered.  Pending     *)
(* nonces ascend (PendingContiguous), so the stale ones are a prefix.      *)

FirstFresh(list, nonce) ==
  Min({i \in DOMAIN list : list[i].data.nonce >= nonce} \cup {Len(list) + 1})

(* Mutant: a stale transaction also sends its successors to the queue. *)
FirstInvalidStale(list, nonce, balance, gasLimit) ==
  Min({i \in DOMAIN list : ~IsTxValid(list[i], nonce, balance, gasLimit)}
      \cup {Len(list) + 1})

FirstInvalid(list, nonce, balance, gasLimit) ==
  Min({i \in DOMAIN list : /\ list[i].data.nonce >= nonce
                           /\ ~IsTxValid(list[i], nonce, balance, gasLimit)}
      \cup {Len(list) + 1})

KeptPending(list, nonce, balance, gasLimit) ==
  SubSeq(list, FirstFresh(list, nonce),
         FirstInvalid(list, nonce, balance, gasLimit) - 1)

MovedToQueued(list, nonce, balance, gasLimit) ==
  {list[i] : i \in (FirstInvalid(list, nonce, balance, gasLimit) + 1)..Len(list)}

(* An iteration of the loop, for transaction o.  loop.kept is what is left *)
(* in the pending list, loop.moved what was pushed to the queued one.      *)
PendingStep(loop, o, nonce, balance, gasLimit) ==
  IF loop.moveToQueued THEN [loop EXCEPT !.moved = Append(@, o)]
  ELSE IF IsTxValid(o, nonce, balance, gasLimit) THEN [loop EXCEPT !.kept = Append(@, o)]
  ELSE IF o.data.nonce >= nonce THEN [loop EXCEPT !.moveToQueued = TRUE]
  ELSE loop

(* What the loop leaves of a pending list, iteration by iteration: the     *)
(* reference for KeptPending and MovedToQueued.                            *)
PendingLoop(list, nonce, balance, gasLimit) ==
  LET after[i \in 0..Len(list)] ==
        IF i = 0 THEN [kept |-> <<>>, moved |-> <<>>, moveToQueued |-> FALSE]
        ELSE PendingStep(after[i - 1], list[i], nonce, balance, gasLimit)
  IN  after[Len(list)]

KeptQueued(queued, list, nonce, balance, gasLimit) ==
  {o \in queued \cup MovedToQueued(list, nonce, balance, gasLimit) :
     IsTxValid(o, nonce, balance, gasLimit)}

(* Mutant: leaves the hashes of the removed transactions in the index. *)
UpdatePendingAndQueuedStaleIndex(p, w) ==
  [p EXCEPT
     !.pendingTransactions =
        [s \in Senders |-> KeptPending(p.pendingTransactions[s], w.nonce[s],
                                       w.balance[s], p.blockGasLimit)],
     !.queuedTransactions =
        [s \in Senders |-> KeptQueued(p.queuedTransactions[s],
           p.pendingTransactions[s], w.nonce[s], w.balance[s], p.blockGasLimit)]]

(* The pool p after updatePendingAndQueued in world w.  _removeTx deletes  *)
(* the hash of every transaction it takes out of a list: the dropped ones  *)
(* and the ones that are then pushed to the queued list.                   *)
UpdatePendingAndQueued(p, w) ==
  LET kept(s) == KeptPending(p.pendingTransactions[s], w.nonce[s],
                             w.balance[s], p.blockGasLimit)
      queued(s) == KeptQueued(p.queuedTransactions[s], p.pendingTransactions[s],
                              w.nonce[s], w.balance[s], p.blockGasLimit)
      untouched(s) == Elements(kept(s)) \cup (queued(s) \cap p.queuedTransactions[s])
      removed == UNION {Pooled(p, s) \ untouched(s) : s \in Senders}
  IN  [p EXCEPT
        !.pendingTransactions = [s \in Senders |-> kept(s)],
        !.queuedTransactions = [s \in Senders |-> queued(s)],
        !.hashToTransaction = {e \in @ : \A r \in removed : r.data # e.data}]

(* The account state after a block in which the first executed[s] pending  *)
(* transactions of each sender ran.  Executing them leaves any balances,   *)
(* but an account that sent nothing only gains, unless it is a contract; a *)
(* contract's nonce also grows when the contract creates another one.      *)
WorldAfterBlock(w) ==
  \A s \in Senders :
    \E executed \in 0..Len(pool.pendingTransactions[s]) :
      \/ /\ w.nonce[s] = world.nonce[s] + executed
         /\ executed = 0 => w.balance[s] >= world.balance[s]
      \/ /\ s \in Contracts
         /\ w.nonce[s] >= world.nonce[s] + executed

(* _mineBlockWithPendingTxs: run a block, then update the pool. *)
MineBlock ==
  \E w \in [nonce : [Senders -> 0..MaxNonce], balance : [Senders -> Balances]] :
    /\ world' = w
    /\ WorldAfterBlock(w)
    /\ pool' = UpdatePendingAndQueued(pool, w)
    /\ UNCHANGED <<nextOrderId, snapshots, nextSnapshotId>>

(* evm_setBlockGasLimit *)
SetBlockGasLimit(limit) ==
  /\ pool' = UpdatePendingAndQueued([pool EXCEPT !.blockGasLimit = limit], world)
  /\ UNCHANGED <<world, nextOrderId, snapshots, nextSnapshotId>>

(* hardhat_setBalance: the pool is not updated. *)
SetAccountBalance(s, balance) ==
  /\ world' = [world EXCEPT !.balance[s] = balance]
  /\ UNCHANGED <<pool, nextOrderId, snapshots, nextSnapshotId>>

(* Mutant: does not ask for an empty pool. *)
SetNextConfirmedNonceUnguarded(s, nonce) ==
  /\ nonce >= world.nonce[s]
  /\ nonce <= MaxNonce
  /\ world' = [world EXCEPT !.nonce[s] = nonce]
  /\ UNCHANGED <<pool, nextOrderId, snapshots, nextSnapshotId>>

(* hardhat_setNonce *)
SetNextConfirmedNonce(s, nonce) ==
  /\ ~HasTransactions(pool)
  /\ nonce >= world.nonce[s]
  /\ nonce <= MaxNonce
  /\ world' = [world EXCEPT !.nonce[s] = nonce]
  /\ UNCHANGED <<pool, nextOrderId, snapshots, nextSnapshotId>>

-----------------------------------------------------------------------------
(* evm_snapshot and evm_revert: the pool's part and the account state.     *)
(* The order counter is not part of a snapshot.                            *)

TakeSnapshot ==
  /\ snapshots' = snapshots \cup
       {[id |-> nextSnapshotId, pool |-> pool, world |-> world]}
  /\ nextSnapshotId' = nextSnapshotId + 1
  /\ UNCHANGED <<pool, world, nextOrderId>>

Revert(snapshot) ==
  /\ pool' = snapshot.pool
  /\ world' = snapshot.world
  /\ snapshots' = {x \in snapshots : x.id < snapshot.id}
  /\ UNCHANGED <<nextOrderId, nextSnapshotId>>

-----------------------------------------------------------------------------

Init ==
  /\ \E limit \in GasLimits :
       pool = [pendingTransactions |-> [s \in Senders |-> <<>>],
               queuedTransactions  |-> [s \in Senders |-> {}],
               hashToTransaction   |-> {},
               blockGasLimit       |-> limit]
  /\ world \in [nonce : [Senders -> {0}], balance : [Senders -> Balances]]
  /\ nextOrderId = 0
  /\ snapshots = {}
  /\ nextSnapshotId = 0

AddTransaction ==
  /\ nextOrderId < MaxOrderId
  /\ \E tx \in Txs :
       \/ PushPending(tx)
       \/ \E i \in DOMAIN pool.pendingTransactions[tx.sender] : ReplacePending(tx, i)
       \/ PushQueued(tx)
       \/ \E old \in pool.queuedTransactions[tx.sender] : ReplaceQueued(tx, old)
       \/ RejectUnderpriced(tx)

RemoveTransaction ==
  \E o \in pool.hashToTransaction :
    \/ \E i \in DOMAIN pool.pendingTransactions[o.data.sender] : RemovePending(o, i)
    \/ RemoveQueued(o)

Next ==
  \/ AddTransaction
  \/ RemoveTransaction
  \/ MineBlock
  \/ \E limit \in GasLimits : SetBlockGasLimit(limit)
  \/ \E s \in Senders, b \in Balances : SetAccountBalance(s, b)
  \/ \E s \in Senders, n \in 0..MaxNonce : SetNextConfirmedNonce(s, n)
  \/ nextSnapshotId < MaxSnapshots /\ TakeSnapshot
  \/ \E snapshot \in snapshots : Revert(snapshot)

Spec == Init /\ [][Next]_vars

-----------------------------------------------------------------------------
(* What makes a pool state p right in account state w *)

PoolContiguous(p, w) ==
  \A s \in Senders : \A i \in DOMAIN p.pendingTransactions[s] :
    p.pendingTransactions[s][i].data.nonce = w.nonce[s] + i - 1

PoolSendersMatch(p) ==
  \A s \in Senders : \A o \in Pooled(p, s) : o.data.sender = s

PoolDistinct(p) ==
  \A s \in Senders : \A o, r \in Pooled(p, s) : o.data = r.data => o = r

PoolDisjoint(p) ==
  \A s \in Senders :
    Elements(p.pendingTransactions[s]) \cap p.queuedTransactions[s] = {}

PoolIndexSound(p) == p.hashToTransaction \subseteq PooledAll(p)

PoolQueuedLater(p, w) ==
  \A s \in Senders \ Contracts : \A o \in p.queuedTransactions[s] :
    /\ o.data.nonce > w.nonce[s] + Len(p.pendingTransactions[s])
    /\ \A r \in p.queuedTransactions[s] : o.data.nonce = r.data.nonce => o = r

(* The pending transactions of every sender have consecutive nonces that   *)
(* start at the account's nonce, so they can all be executed in list order *)
(* (what block building and getNextPendingNonce rely on), whatever mix of  *)
(* additions, replacements, drops, mining, gas limit changes and reverts   *)
(* came before.                                                            *)
PendingContiguous == PoolContiguous(pool, world)

(* Every hash in the index leads to a transaction of some list: the error  *)
(* "Tx should have existed in the pending or queued lists" of              *)
(* removeTransaction is unreachable, and eth_getTransactionByHash never    *)
(* reports a mined or dropped transaction as pending.                      *)
HashIndexSound == PoolIndexSound(pool)

(* No queued transaction of an externally owned account could be executed  *)
(* after the pending ones, and no two have the same nonce: what can be     *)
(* mined is never stranded in the queued list.                             *)
QueuedNotExecutable == PoolQueuedLater(pool, world)

(* No transaction is in the pool twice, and arrival numbers are distinct,  *)
(* so "first come, first served" ordering is well defined even after       *)
(* reverts.                                                                *)
ArrivalOrderUnique ==
  /\ PoolDistinct(pool)
  /\ PoolDisjoint(pool)
  /\ \A o, r \in PooledAll(pool) : o.orderId = r.orderId => o = r
  /\ \A o \in PooledAll(pool) : o.orderId < nextOrderId

(* A transaction that is still valid leaves the pool only by being mined,  *)
(* dropped by hash, replaced at its nonce or reverted: no update,          *)
(* promotion or demotion loses it.                                         *)
ValidTxsSurvive ==
  [][\A s \in Senders : \A o \in Pooled(pool, s) :
       \/ o \in Pooled(pool', s)
       \/ ~IsTxValid(o, world'.nonce[s], world'.balance[s], pool'.blockGasLimit)
       \/ o \in pool.hashToTransaction \ pool'.hashToTransaction /\ RemoveTransaction
       \/ \E r \in Pooled(pool', s) \ Pooled(pool, s) : r.data.nonce = o.data.nonce
       \/ \E snapshot \in snapshots : Revert(snapshot)]_vars

(* A transaction gives way to another one of the same sender and nonce     *)
(* only if both its fees are raised by 10% or more.                        *)
ReplacementPaysMore ==
  [][\A s \in Senders : \A o \in Pooled(pool, s), r \in Pooled(pool', s) :
       (/\ r \notin Pooled(pool, s)
        /\ o \notin Pooled(pool', s)
        /\ o.data.nonce = r.data.nonce)
       => \/ /\ 100 * r.data.maxFee >= 110 * o.data.maxFee
             /\ 100 * r.data.prio >= 110 * o.data.prio
          \/ \E snapshot \in snapshots : Revert(snapshot)]_vars

(* What updatePendingAndQueued keeps of a pending list, and what it moves  *)
(* to the queued list, is what its loop computes, for any account nonce,   *)
(* balance and gas limit it may find.                                      *)
UpdateMatchesLoop ==
  \A s \in Senders, n \in 0..MaxNonce, b \in Balances, g \in GasLimits :
    LET list == pool.pendingTransactions[s]
        loop == PendingLoop(list, n, b, g)
    IN  /\ KeptPending(list, n, b, g) = loop.kept
        /\ MovedToQueued(list, n, b, g) = Elements(loop.moved)

=============================================================================
