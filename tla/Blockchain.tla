----------------------------- MODULE Blockchain -----------------------------
(***************************************************************************)
(* The local blockchain of Hardhat Network: BlockchainData.ts,             *)
(* BlockchainBase.ts and HardhatBlockchain.ts, with the part of node.ts    *)
(* that saves a mined block and that takes and reverts snapshots.          *)
(*                                                                         *)
(* hardhat_mine adds thousands of blocks by reserving their numbers; a     *)
(* reserved block is made when it is first read.  A block stands for its   *)
(* own hash.  The array of reservations is a set, because at most one      *)
(* reservation has a given number (EveryNumberOnce).                       *)
(***************************************************************************)
EXTENDS Integers, FiniteSets

CONSTANTS
  Timestamps,     \* the timestamps of mined blocks
  Intervals,      \* the intervals that hardhat_mine is called with
  Counts,         \* the numbers of blocks that are reserved at once
  Roots,          \* state roots
  Fees,           \* base fees
  Difficulties,   \* the difficulties of mined blocks
  Txs,            \* transactions
  MaxLength,      \* bound on the length of the chain
  MaxSnapshots    \* bound on the number of snapshots ever taken

ASSUME TimestampsAssumption == Timestamps \subseteq Nat
ASSUME IntervalsAssumption == Intervals \subseteq Nat
ASSUME CountsAssumption == Counts \subseteq Nat \ {0}
ASSUME DifficultiesAssumption == Difficulties \subseteq Nat
ASSUME LimitsAssumption == MaxLength \in Nat /\ MaxSnapshots \in Nat

VARIABLES
  blocksByNumber,        \* BlockchainData._blocksByNumber
  blocksByHash,          \* BlockchainData._blocksByHash
  blocksByTransactions,  \* BlockchainData._blocksByTransactions, as pairs
  receipts,              \* the keys of BlockchainData._transactionReceipts
  blockReservations,     \* BlockchainData._blockReservations
  length,                \* HardhatBlockchain._length
  saving,                \* a block was added and its receipts were not yet
  snapshots,             \* the latestBlock of every HardhatNode snapshot
  nextSnapshotId         \* HardhatNode._nextSnapshotId

dataVars ==
  <<blocksByNumber, blocksByHash, blocksByTransactions, receipts, blockReservations>>

vars == <<dataVars, length, saving, snapshots, nextSnapshotId>>

Block ==
  [number : Nat, timestamp : Nat, root : Roots, fee : Fees, td : Nat,
   txs : SUBSET Txs]

Reservation ==
  [first : Nat, last : Nat, interval : Intervals, root : Roots, td : Nat,
   fee : Fees]

Snapshot == [id : Nat, latestBlock : Block]

TypeOK ==
  /\ length \in Nat \ {0}
  /\ DOMAIN blocksByNumber \subseteq Nat
  /\ blocksByNumber \in [DOMAIN blocksByNumber -> Block]
  /\ blocksByHash \subseteq Block
  /\ blocksByTransactions \subseteq Txs \X Block
  /\ receipts \subseteq Txs
  /\ blockReservations \subseteq Reservation
  /\ saving \in BOOLEAN
  /\ snapshots \subseteq Snapshot
  /\ nextSnapshotId \in Nat

-----------------------------------------------------------------------------

Real(n) == n \in DOMAIN blocksByNumber

Covers(r, n) == r.first <= n /\ n <= r.last

(* isReservedBlock, _findBlockReservation *)
IsReservedBlock(n) == \E r \in blockReservations : Covers(r, n)

ReservationOf(n) == CHOOSE r \in blockReservations : Covers(r, n)

(* Mutant: counts the interval from the first reserved block. *)
ReservedTimestampLate(r, n) ==
  blocksByNumber[r.first - 1].timestamp + r.interval * (n - r.first)

(* _calculateTimestampForReservedBlock *)
ReservedTimestamp(r, n) ==
  blocksByNumber[r.first - 1].timestamp + r.interval * (n - r.first + 1)

(* The block that fulfillBlockReservation makes of number n of r. *)
ReservedBlock(r, n) ==
  [number |-> n, timestamp |-> ReservedTimestamp(r, n), root |-> r.root,
   fee |-> r.fee, td |-> r.td, txs |-> {}]

(* Mutant: the later part of a split reservation starts at the block. *)
SplitOverlapping(r, n) ==
  {x \in {[r EXCEPT !.last = n - 1], [r EXCEPT !.first = n]} : x.first <= x.last}

(* What is left of reservation r when its block n has been made. *)
Split(r, n) ==
  (IF n # r.first THEN {[r EXCEPT !.last = n - 1]} ELSE {})
    \cup (IF n # r.last THEN {[r EXCEPT !.first = n + 1]} ELSE {})

(* BlockchainData.addBlock *)
DataAddBlock(b) ==
  /\ blocksByNumber' =
       [n \in DOMAIN blocksByNumber \cup {b.number} |->
          IF n = b.number THEN b ELSE blocksByNumber[n]]
  /\ blocksByHash' = blocksByHash \cup {b}
  /\ blocksByTransactions' =
       {x \in blocksByTransactions : x[1] \notin b.txs} \cup {<<t, b>> : t \in b.txs}

-----------------------------------------------------------------------------

(* fulfillBlockReservation *)
FulfillBlockReservation(n) ==
  LET r == ReservationOf(n)
  IN  /\ IsReservedBlock(n)
      /\ blockReservations' = (blockReservations \ {r}) \cup Split(r, n)
      /\ DataAddBlock(ReservedBlock(r, n))
      /\ UNCHANGED <<receipts, length, saving, snapshots, nextSnapshotId>>

(* getBlock(number): the first time a reserved block is read, it is made. *)
GetBlock(n) ==
  \/ FulfillBlockReservation(n)
  \/ ~IsReservedBlock(n) /\ UNCHANGED vars

(* HardhatBlockchain.addBlock.  The node has read the latest block before  *)
(* it built this one, so the parent is not reserved; a transaction is not  *)
(* executed twice, because its nonce has been used.                        *)
AddBlock(timestamp, root, fee, difficulty, txs) ==
  LET parent == blocksByNumber[length - 1]
      b == [number |-> length, timestamp |-> timestamp, root |-> root,
            fee |-> fee, td |-> parent.td + difficulty, txs |-> txs]
  IN  /\ ~saving
      /\ Real(length - 1)
      /\ \A x \in blocksByTransactions : x[1] \notin txs
      /\ DataAddBlock(b)
      /\ length' = length + 1
      /\ saving' = TRUE
      /\ UNCHANGED <<receipts, blockReservations, snapshots, nextSnapshotId>>

(* addTransactionReceipts, called by _saveBlockAsSuccessfullyRun *)
AddTransactionReceipts ==
  /\ saving
  /\ receipts' = receipts \cup blocksByNumber[length - 1].txs
  /\ saving' = FALSE
  /\ UNCHANGED <<blocksByNumber, blocksByHash, blocksByTransactions,
                 blockReservations, length, snapshots, nextSnapshotId>>

(* HardhatBlockchain.reserveBlocks, as mineBlocks calls it: with the total *)
(* difficulty and the base fee of the latest block, which it has just read *)
ReserveBlocks(count, interval, root) ==
  LET latest == blocksByNumber[length - 1]
  IN  /\ ~saving
      /\ Real(length - 1)
      /\ blockReservations' = blockReservations \cup
           {[first |-> length, last |-> length + count - 1, interval |-> interval,
             root |-> root, td |-> latest.td, fee |-> latest.fee]}
      /\ length' = length + count
      /\ UNCHANGED <<blocksByNumber, blocksByHash, blocksByTransactions, receipts,
                     saving, snapshots, nextSnapshotId>>

(* Mutant: leaves the receipts of removed blocks. *)
DelBlockKeepReceipts(number) ==
  LET removed == {blocksByNumber[n] : n \in {i \in DOMAIN blocksByNumber : i >= number}}
      txs == UNION {b.txs : b \in removed}
  IN  /\ blocksByNumber' =
           [n \in {i \in DOMAIN blocksByNumber : i < number} |-> blocksByNumber[n]]
      /\ blocksByHash' = blocksByHash \ removed
      /\ blocksByTransactions' = {x \in blocksByTransactions : x[1] \notin txs}
      /\ blockReservations' = {r \in blockReservations : r.last < number}
      /\ length' = number
      /\ UNCHANGED receipts

(* Mutant: cancels only the reservations it starts in. *)
DelBlockKeepReservations(number) ==
  LET removed == {blocksByNumber[n] : n \in {i \in DOMAIN blocksByNumber : i >= number}}
      txs == UNION {b.txs : b \in removed}
  IN  /\ blocksByNumber' =
           [n \in {i \in DOMAIN blocksByNumber : i < number} |-> blocksByNumber[n]]
      /\ blocksByHash' = blocksByHash \ removed
      /\ blocksByTransactions' = {x \in blocksByTransactions : x[1] \notin txs}
      /\ receipts' = receipts \ txs
      /\ blockReservations' = {r \in blockReservations : ~Covers(r, number)}
      /\ length' = number

(* _delBlock: remove every block and cancel every reservation from number  *)
(* on.  The loop meets a reservation at its first block, because a block   *)
(* that was added is never inside one (EveryNumberOnce).                   *)
DelBlock(number) ==
  LET removed == {blocksByNumber[n] : n \in {i \in DOMAIN blocksByNumber : i >= number}}
      txs == UNION {b.txs : b \in removed}
  IN  /\ blocksByNumber' =
           [n \in {i \in DOMAIN blocksByNumber : i < number} |-> blocksByNumber[n]]
      /\ blocksByHash' = blocksByHash \ removed
      /\ blocksByTransactions' = {x \in blocksByTransactions : x[1] \notin txs}
      /\ receipts' = receipts \ txs
      /\ blockReservations' = {r \in blockReservations : r.last < number}
      /\ length' = number

(* An iteration of the loop of _delBlock, at block number loop.i *)
DelStep(loop, latest) ==
  IF loop.i > latest THEN loop
  ELSE IF \E r \in loop.reserved : Covers(r, loop.i)
    THEN LET r == CHOOSE x \in loop.reserved : Covers(x, loop.i)
         IN  [loop EXCEPT !.i = r.last + 1, !.reserved = @ \ {r}]
    ELSE [loop EXCEPT !.i = @ + 1, !.numbers = @ \ {loop.i}]

(* The numbers of the blocks and the reservations that the loop leaves:    *)
(* the reference for DelBlock.  Every iteration advances, so that latest + *)
(* 1 of them are enough.                                                   *)
DelLoop(number, latest, numbers, reserved) ==
  LET after[n \in 0..(latest + 1)] ==
        IF n = 0 THEN [i |-> number, numbers |-> numbers, reserved |-> reserved]
        ELSE DelStep(after[n - 1], latest)
  IN  after[latest + 1]

(* HardhatNode.takeSnapshot: the latest block has been read *)
TakeSnapshot ==
  /\ ~saving
  /\ Real(length - 1)
  /\ snapshots' = snapshots \cup
       {[id |-> nextSnapshotId, latestBlock |-> blocksByNumber[length - 1]]}
  /\ nextSnapshotId' = nextSnapshotId + 1
  /\ UNCHANGED <<dataVars, length, saving>>

(* Mutant: keeps the snapshots taken after the one it reverts to. *)
RevertToSnapshotOnce(snapshot) ==
  /\ ~saving
  /\ snapshot.latestBlock \in blocksByHash
  /\ DelBlock(snapshot.latestBlock.number + 1)
  /\ snapshots' = snapshots \ {snapshot}
  /\ UNCHANGED <<saving, nextSnapshotId>>

(* HardhatNode.revertToSnapshot and deleteLaterBlocks: the snapshot and    *)
(* the later ones are gone.                                                *)
RevertToSnapshot(snapshot) ==
  /\ ~saving
  /\ snapshot.latestBlock \in blocksByHash
  /\ DelBlock(snapshot.latestBlock.number + 1)
  /\ snapshots' = {x \in snapshots : x.id < snapshot.id}
  /\ UNCHANGED <<saving, nextSnapshotId>>

-----------------------------------------------------------------------------

Init ==
  /\ \E timestamp \in Timestamps, root \in Roots, fee \in Fees, td \in Difficulties :
       LET genesis == [number |-> 0, timestamp |-> timestamp, root |-> root,
                       fee |-> fee, td |-> td, txs |-> {}]
       IN  /\ blocksByNumber = [n \in {0} |-> genesis]
           /\ blocksByHash = {genesis}
  /\ blocksByTransactions = {}
  /\ receipts = {}
  /\ blockReservations = {}
  /\ length = 1
  /\ saving = FALSE
  /\ snapshots = {}
  /\ nextSnapshotId = 1

Next ==
  \/ \E n \in 0..(length - 1) : GetBlock(n)
  \/ /\ length < MaxLength
     /\ \E timestamp \in Timestamps, root \in Roots, fee \in Fees,
           difficulty \in Difficulties, txs \in SUBSET Txs :
          AddBlock(timestamp, root, fee, difficulty, txs)
  \/ AddTransactionReceipts
  \/ \E count \in Counts, interval \in Intervals, root \in Roots :
       /\ length + count <= MaxLength
       /\ ReserveBlocks(count, interval, root)
  \/ nextSnapshotId <= MaxSnapshots /\ TakeSnapshot
  \/ \E snapshot \in snapshots : RevertToSnapshot(snapshot)

Spec == Init /\ [][Next]_vars

-----------------------------------------------------------------------------

(* Every block number up to the latest is either a block or in exactly one *)
(* reservation, and no later number is: getBlock finds every block of the  *)
(* chain once, in whatever order reserved blocks were read, and however    *)
(* much of the chain was reverted.                                         *)
EveryNumberOnce ==
  /\ \A n \in DOMAIN blocksByNumber : n < length /\ ~IsReservedBlock(n)
  /\ \A r \in blockReservations : 1 <= r.first /\ r.first <= r.last /\ r.last < length
  /\ \A n \in 0..(length - 1) : Real(n) \/ IsReservedBlock(n)
  /\ \A r, q \in blockReservations : (\E n \in r.first..r.last : Covers(q, n)) => r = q

(* The block before a reservation exists, so the assertion "Reservation    *)
(* after block ... cannot be created because that block does not exist"    *)
(* never fails when a reserved block is read.                              *)
ReservationsAnchored == \A r \in blockReservations : Real(r.first - 1)

(* The indexes by hash and by transaction, and the receipts, have exactly  *)
(* the blocks and transactions of the current chain: nothing of a reverted *)
(* block is found, nothing of the chain is missing.                        *)
IndexesExact ==
  /\ blocksByHash = {blocksByNumber[n] : n \in DOMAIN blocksByNumber}
  /\ blocksByTransactions = UNION {b.txs \X {b} : b \in blocksByHash}
  /\ receipts = UNION {b.txs : b \in {x \in blocksByHash : saving => x.number # length - 1}}

(* The latest block of every snapshot that can still be reverted to is in  *)
(* the chain, so deleteLaterBlocks never throws "Invalid block".           *)
SnapshotsRevertible ==
  \A x \in snapshots : x.latestBlock \in blocksByHash

(* For every snapshot, the loop of _delBlock removes exactly the blocks    *)
(* and reservations after the block of the snapshot: it neither skips a    *)
(* block behind a cancelled reservation nor cancels an earlier one.        *)
RevertMatchesLoop ==
  [][\A snapshot \in snapshots :
       RevertToSnapshot(snapshot) =>
         LET loop == DelLoop(snapshot.latestBlock.number + 1, length - 1,
                             DOMAIN blocksByNumber, blockReservations)
         IN  /\ DOMAIN blocksByNumber' = loop.numbers
             /\ blockReservations' = loop.reserved]_vars

(* The header a reader sees or would see at number n. *)
View(n) ==
  LET b == IF Real(n) THEN blocksByNumber[n] ELSE ReservedBlock(ReservationOf(n), n)
  IN  [timestamp |-> b.timestamp, root |-> b.root, fee |-> b.fee, td |-> b.td]

Abstract == INSTANCE EagerChain
  WITH chain <- [n \in 0..(length - 1) |-> View(n)], height <- length

(* Reserving blocks is invisible: the chain behaves as one in which every  *)
(* block was made when it was added.  Reading a reserved block changes no  *)
(* header, of that block or of any other.                                  *)
LazyIsEager == Abstract!Eager
=============================================================================
