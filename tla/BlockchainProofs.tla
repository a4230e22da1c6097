-------------------------- MODULE BlockchainProofs --------------------------
(***************************************************************************)
(* Proofs about the local blockchain: every number is a block or in one    *)
(* reservation, snapshots can be reverted to, and the lazily made chain    *)
(* implements the eager one.                                               *)
(***************************************************************************)
EXTENDS Blockchain, WellFoundedInduction, TLAPS

(* A block is stored under its own number. *)
NumbersMatch == \A n \in DOMAIN blocksByNumber : blocksByNumber[n].number = n

(* The block of a snapshot is in the chain, and snapshots taken later have *)
(* later blocks, so reverting to one keeps the blocks of the earlier ones. *)
SnapshotsOrdered ==
  /\ \A x \in snapshots :
       /\ x.id < nextSnapshotId
       /\ Real(x.latestBlock.number)
       /\ blocksByNumber[x.latestBlock.number] = x.latestBlock
  /\ \A x, y \in snapshots : x.id < y.id => x.latestBlock.number <= y.latestBlock.number

(* The block whose receipts are still to be saved is in the chain. *)
SavingReal == saving => Real(length - 1)

ByHashExact == blocksByHash = {blocksByNumber[n] : n \in DOMAIN blocksByNumber}

IInv ==
  /\ TypeOK
  /\ EveryNumberOnce
  /\ ReservationsAnchored
  /\ NumbersMatch
  /\ ByHashExact
  /\ SnapshotsOrdered
  /\ SavingReal

(* The reservation that _findBlockReservation finds covers the number, and *)
(* it is the only one that does.                                           *)
LEMMA ReservationFound ==
  ASSUME IInv, NEW n, IsReservedBlock(n)
  PROVE  /\ ReservationOf(n) \in blockReservations
         /\ Covers(ReservationOf(n), n)
BY DEF IsReservedBlock, ReservationOf

(* Two reservations that cover the same number are the same. *)
LEMMA ReservationUnique ==
  ASSUME IInv, NEW n \in Nat, NEW q \in blockReservations, NEW r \in blockReservations,
         Covers(q, n), Covers(r, n)
  PROVE  q = r
<1>1. q \in Reservation /\ r \in Reservation
  BY DEF IInv, TypeOK
<1>2. n \in r.first..r.last
  BY <1>1 DEF Covers, Reservation
<1> QED
  BY <1>2 DEF IInv, EveryNumberOnce

(* The types of the parts of a reservation. *)
LEMMA ReservationFields ==
  ASSUME IInv, NEW r \in blockReservations
  PROVE  /\ r \in Reservation
         /\ r.first \in Nat /\ r.last \in Nat /\ r.interval \in Nat /\ r.td \in Nat
         /\ r.root \in Roots /\ r.fee \in Fees
         /\ 1 <= r.first /\ r.first <= r.last /\ r.last < length
         /\ Real(r.first - 1)
         /\ blocksByNumber[r.first - 1] \in Block
         /\ blocksByNumber[r.first - 1].timestamp \in Nat
<1>1. r \in Reservation
  BY DEF IInv, TypeOK
<1>2. /\ r.first \in Nat /\ r.last \in Nat /\ r.interval \in Nat /\ r.td \in Nat
      /\ r.root \in Roots /\ r.fee \in Fees
  BY <1>1, IntervalsAssumption DEF Reservation
<1>3. 1 <= r.first /\ r.first <= r.last /\ r.last < length
  BY DEF IInv, EveryNumberOnce
<1>4. Real(r.first - 1)
  BY DEF IInv, ReservationsAnchored
<1>5. blocksByNumber[r.first - 1] \in Block
  BY <1>4 DEF IInv, TypeOK, Real
<1>6. blocksByNumber[r.first - 1].timestamp \in Nat
  BY <1>5 DEF Block
<1> QED
  BY <1>1, <1>2, <1>3, <1>4, <1>5, <1>6

(* A product of naturals is a natural: what the timestamp of a reserved    *)
(* block needs from arithmetic.                                            *)
LEMMA ProductNat == \A a, b \in Nat : a * b \in Nat
OBVIOUS

(* Splitting a reservation keeps the timestamps of its later blocks. *)
LEMMA SplitTime ==
  \A base, i, f, n, m \in Nat :
    base + i * (n - f + 1) + i * (m - (n + 1) + 1) = base + i * (m - f + 1)
OBVIOUS

(* A reserved block has the type of a block. *)
LEMMA ReservedBlockType ==
  ASSUME IInv, NEW r \in blockReservations, NEW n \in Nat, Covers(r, n)
  PROVE  ReservedBlock(r, n) \in Block /\ ReservedTimestamp(r, n) \in Nat
<1>1. n - r.first + 1 \in Nat
  BY ReservationFields DEF Covers
<1>2. r.interval * (n - r.first + 1) \in Nat
  BY <1>1, ReservationFields, ProductNat
<1>3. ReservedTimestamp(r, n) \in Nat
  BY <1>2, ReservationFields DEF ReservedTimestamp
<1> QED
  BY <1>3, ReservationFields DEF ReservedBlock, Block

(* The constructor's chain satisfies the invariant. *)
LEMMA InitEstablishes == Init => IInv
<1> SUFFICES ASSUME Init PROVE IInv
  OBVIOUS
<1>1. PICK timestamp \in Timestamps, root \in Roots, fee \in Fees, td \in Difficulties :
        LET genesis == [number |-> 0, timestamp |-> timestamp, root |-> root,
                        fee |-> fee, td |-> td, txs |-> {}]
        IN  /\ blocksByNumber = [n \in {0} |-> genesis]
            /\ blocksByHash = {genesis}
  BY DEF Init
<1> DEFINE genesis == [number |-> 0, timestamp |-> timestamp, root |-> root,
                       fee |-> fee, td |-> td, txs |-> {}]
<1>2. genesis \in Block
  BY TimestampsAssumption, DifficultiesAssumption DEF Block
<1>3. /\ DOMAIN blocksByNumber = {0} /\ blocksByNumber[0] = genesis
      /\ blocksByHash = {genesis} /\ genesis.number = 0
      /\ blocksByNumber \in [{0} -> Block]
  BY <1>1, <1>2
<1> HIDE DEF genesis
<1>4. TypeOK
  <2>1. /\ length = 1 /\ blocksByTransactions = {} /\ receipts = {} /\ blockReservations = {}
        /\ saving = FALSE /\ snapshots = {} /\ nextSnapshotId = 1
    BY DEF Init
  <2>2. DOMAIN blocksByNumber \subseteq Nat /\ blocksByNumber \in [DOMAIN blocksByNumber -> Block]
    BY <1>3
  <2>3. blocksByHash \subseteq Block
    BY <1>2, <1>3
  <2>4. length \in Nat \ {0} /\ nextSnapshotId \in Nat
    BY <2>1
  <2>5. saving \in BOOLEAN
    BY <2>1
  <2>6. /\ blocksByTransactions \subseteq Txs \X Block /\ receipts \subseteq Txs
        /\ blockReservations \subseteq Reservation /\ snapshots \subseteq Snapshot
    BY <2>1
  <2> QED
    BY <2>2, <2>3, <2>4, <2>5, <2>6 DEF TypeOK
<1>5. EveryNumberOnce
  BY <1>3 DEF Init, EveryNumberOnce, Real, IsReservedBlock
<1>6. /\ ReservationsAnchored /\ NumbersMatch /\ ByHashExact /\ SnapshotsOrdered
      /\ SavingReal
  BY <1>3 DEF Init, ReservationsAnchored, NumbersMatch, ByHashExact, SnapshotsOrdered,
              SavingReal
<1> QED
  BY <1>4, <1>5, <1>6 DEF IInv

(* What fulfillBlockReservation(n) does to the data, in terms of r, the    *)
(* reservation it splits, and of the parts before and after n.             *)
SplitFacts(n, r, b, early, late) ==
  /\ r \in blockReservations /\ Covers(r, n) /\ ~Real(n)
  /\ b = ReservedBlock(r, n) /\ b \in Block /\ b.number = n /\ b.txs = {}
  /\ DOMAIN blocksByNumber' = DOMAIN blocksByNumber \cup {n}
  /\ blocksByNumber'[n] = b
  /\ \A m \in DOMAIN blocksByNumber : blocksByNumber'[m] = blocksByNumber[m]
  /\ blocksByNumber' \in [DOMAIN blocksByNumber' -> Block]
  /\ early.first = r.first /\ early.last = n - 1
  /\ late.first = n + 1 /\ late.last = r.last
  /\ early.interval = r.interval /\ late.interval = r.interval
  /\ early.root = r.root /\ late.root = r.root
  /\ early.fee = r.fee /\ late.fee = r.fee
  /\ early.td = r.td /\ late.td = r.td
  /\ \A q \in blockReservations' :
       \/ q \in blockReservations /\ q # r
       \/ n # r.first /\ q = early /\ q \in Reservation
       \/ n # r.last /\ q = late /\ q \in Reservation
  /\ \A q \in blockReservations : q # r => q \in blockReservations'
  /\ n # r.first => early \in blockReservations'
  /\ n # r.last => late \in blockReservations'

(* The facts hold of every such step. *)
LEMMA FulfillFacts ==
  ASSUME IInv, NEW n \in 0..(length - 1), FulfillBlockReservation(n)
  PROVE  SplitFacts(n, ReservationOf(n), ReservedBlock(ReservationOf(n), n),
                    [ReservationOf(n) EXCEPT !.last = n - 1],
                    [ReservationOf(n) EXCEPT !.first = n + 1])
<1> DEFINE r == ReservationOf(n)
           b == ReservedBlock(r, n)
           early == [r EXCEPT !.last = n - 1]
           late == [r EXCEPT !.first = n + 1]
<1>1. n \in Nat /\ IsReservedBlock(n)
  BY DEF IInv, TypeOK, FulfillBlockReservation
<1>2. r \in blockReservations /\ Covers(r, n)
  BY <1>1, ReservationFound
<1>3. ~Real(n)
  BY <1>1 DEF IInv, EveryNumberOnce, Real
<1>4. b \in Block /\ b.number = n /\ b.txs = {}
  BY <1>1, <1>2, ReservedBlockType DEF ReservedBlock
<1>5. blocksByNumber' = [m \in DOMAIN blocksByNumber \cup {n} |->
                           IF m = n THEN b ELSE blocksByNumber[m]]
  <2>1. DataAddBlock(b)
    BY DEF FulfillBlockReservation
  <2> HIDE DEF b
  <2> QED
    BY <2>1, <1>4 DEF DataAddBlock
<1>6. /\ DOMAIN blocksByNumber' = DOMAIN blocksByNumber \cup {n}
      /\ blocksByNumber'[n] = b
      /\ \A m \in DOMAIN blocksByNumber : blocksByNumber'[m] = blocksByNumber[m]
      /\ blocksByNumber' \in [DOMAIN blocksByNumber' -> Block]
  <2> HIDE DEF b
  <2>1. \A m \in DOMAIN blocksByNumber : blocksByNumber[m] \in Block /\ m # n
    BY <1>3 DEF IInv, TypeOK, Real
  <2> QED
    BY <1>4, <1>5, <2>1
<1>7. r \in Reservation /\ r.first \in Nat /\ r.last \in Nat
  BY <1>2, ReservationFields
<1>8. r.first <= n /\ n <= r.last
  BY <1>2 DEF Covers
<1>9. /\ early.first = r.first /\ early.last = n - 1
      /\ late.first = n + 1 /\ late.last = r.last
      /\ early.interval = r.interval /\ late.interval = r.interval
      /\ early.root = r.root /\ late.root = r.root
      /\ early.fee = r.fee /\ late.fee = r.fee
      /\ early.td = r.td /\ late.td = r.td
  BY <1>7 DEF Reservation
<1>10. late \in Reservation /\ (n # r.first => early \in Reservation)
  BY <1>1, <1>7, <1>8 DEF Reservation
<1>11. blockReservations' = (blockReservations \ {r}) \cup Split(r, n)
  BY DEF FulfillBlockReservation
<1>12. /\ \A q \in Split(r, n) : (n # r.first /\ q = early) \/ (n # r.last /\ q = late)
       /\ n # r.first => early \in Split(r, n)
       /\ n # r.last => late \in Split(r, n)
  BY DEF Split
<1> HIDE DEF early, late, r, b
<1>13. \A q \in blockReservations' :
         \/ q \in blockReservations /\ q # r
         \/ n # r.first /\ q = early /\ q \in Reservation
         \/ n # r.last /\ q = late /\ q \in Reservation
  BY <1>10, <1>11, <1>12
<1>14. /\ \A q \in blockReservations : q # r => q \in blockReservations'
       /\ n # r.first => early \in blockReservations'
       /\ n # r.last => late \in blockReservations'
  BY <1>11, <1>12
<1>15. SplitFacts(n, r, b, early, late)
  BY <1>2, <1>3, <1>4, <1>6, <1>9, <1>13, <1>14 DEF SplitFacts, b
<1> QED
  BY <1>15 DEF r, b, early, late

(* A number that a new reservation covers is not n, and it was covered by  *)
(* the reservation the new one comes from.                                 *)
LEMMA FulfillCovers ==
  ASSUME IInv, NEW n \in 0..(length - 1), NEW r, NEW b, NEW early, NEW late,
         SplitFacts(n, r, b, early, late),
         NEW q \in blockReservations', NEW m \in Nat, Covers(q, m)
  PROVE  /\ m # n
         /\ \/ q \in blockReservations /\ q # r /\ ~Covers(r, m)
            \/ q = early /\ m < n /\ Covers(r, m)
            \/ q = late /\ m > n /\ Covers(r, m)
<1>1. n \in Nat /\ r \in blockReservations /\ Covers(r, n)
  BY DEF SplitFacts, IInv, TypeOK
<1>2. r.first \in Nat /\ r.last \in Nat /\ r.first <= n /\ n <= r.last
  BY <1>1, ReservationFields DEF Covers
<1>3. CASE q \in blockReservations /\ q # r
  <2>1. ~Covers(r, m)
    BY <1>1, <1>3, ReservationUnique
  <2>2. m # n
    BY <1>1, <2>1
  <2> QED
    BY <1>3, <2>1, <2>2
<1>4. CASE n # r.first /\ q = early
  <2>1. q.first = r.first /\ q.last = n - 1
    BY <1>4 DEF SplitFacts
  <2> QED
    BY <1>1, <1>2, <1>4, <2>1 DEF Covers
<1>5. CASE n # r.last /\ q = late
  <2>1. q.first = n + 1 /\ q.last = r.last
    BY <1>5 DEF SplitFacts
  <2> QED
    BY <1>1, <1>2, <1>5, <2>1 DEF Covers
<1> QED
  BY <1>3, <1>4, <1>5 DEF SplitFacts

(* Making a reserved block preserves the invariant. *)
LEMMA FulfillPreserves ==
  ASSUME IInv, NEW n \in 0..(length - 1), FulfillBlockReservation(n)
  PROVE  IInv'
<1> DEFINE r == ReservationOf(n)
           b == ReservedBlock(r, n)
           early == [r EXCEPT !.last = n - 1]
           late == [r EXCEPT !.first = n + 1]
<1>1. SplitFacts(n, r, b, early, late)
  BY FulfillFacts
<1>2. /\ UNCHANGED <<receipts, length, saving, snapshots, nextSnapshotId>>
      /\ DataAddBlock(b)
  BY DEF FulfillBlockReservation
<1> HIDE DEF r, b, early, late
<1>3. n \in Nat /\ n < length /\ length \in Nat
  BY DEF IInv, TypeOK
<1>4. /\ r \in blockReservations /\ ~Real(n) /\ b \in Block /\ b.number = n /\ b.txs = {}
      /\ Covers(r, n)
      /\ DOMAIN blocksByNumber' = DOMAIN blocksByNumber \cup {n}
      /\ blocksByNumber'[n] = b
      /\ \A m \in DOMAIN blocksByNumber : blocksByNumber'[m] = blocksByNumber[m]
      /\ blocksByNumber' \in [DOMAIN blocksByNumber' -> Block]
  BY <1>1 DEF SplitFacts
<1>5. /\ r \in Reservation /\ r.first \in Nat /\ r.last \in Nat
      /\ 1 <= r.first /\ r.last < length /\ Real(r.first - 1)
      /\ r.first <= n /\ n <= r.last
  BY <1>4, ReservationFields DEF Covers
<1>6. ASSUME NEW q \in blockReservations'
      PROVE  /\ q \in Reservation
             /\ 1 <= q.first /\ q.first <= q.last /\ q.last < length
             /\ q.first - 1 \in DOMAIN blocksByNumber'
  <2>1. CASE q \in blockReservations /\ q # r
    BY <2>1, <1>4, ReservationFields DEF Real
  <2>2. CASE n # r.first /\ q = early /\ q \in Reservation
    <3>1. q.first = r.first /\ q.last = n - 1
      BY <2>2, <1>1 DEF SplitFacts
    <3> QED
      BY <2>2, <3>1, <1>3, <1>4, <1>5 DEF Real
  <2>3. CASE n # r.last /\ q = late /\ q \in Reservation
    <3>1. q.first = n + 1 /\ q.last = r.last
      BY <2>3, <1>1 DEF SplitFacts
    <3> QED
      BY <2>3, <3>1, <1>3, <1>4, <1>5
  <2> QED
    BY <2>1, <2>2, <2>3, <1>1 DEF SplitFacts
<1>7. TypeOK'
  <2>1. DOMAIN blocksByNumber' \subseteq Nat
    BY <1>3, <1>4 DEF IInv, TypeOK
  <2>2. /\ blocksByHash' = blocksByHash \cup {b}
        /\ blocksByTransactions' =
             {x \in blocksByTransactions : x[1] \notin b.txs} \cup {<<t, b>> : t \in b.txs}
    BY <1>2 DEF DataAddBlock
  <2>3. blocksByHash' \subseteq Block /\ blocksByTransactions' \subseteq Txs \X Block
    BY <2>2, <1>4 DEF IInv, TypeOK
  <2>4. blockReservations' \subseteq Reservation
    BY <1>6
  <2> QED
    BY <2>1, <2>3, <2>4, <1>2, <1>4 DEF IInv, TypeOK
<1>8. EveryNumberOnce'
  <2>1. ASSUME NEW m \in DOMAIN blocksByNumber', NEW q \in blockReservations', Covers(q, m)
        PROVE  FALSE
    <3>1. m \in Nat
      BY <1>7 DEF TypeOK
    <3>2. m # n /\ ((q \in blockReservations /\ q # r) \/ Covers(r, m))
      BY <2>1, <3>1, <1>1, FulfillCovers
    <3>3. m \in DOMAIN blocksByNumber
      BY <3>2, <1>4
    <3>4. ~IsReservedBlock(m)
      BY <3>3 DEF IInv, EveryNumberOnce
    <3> QED
      BY <3>2, <3>4, <2>1, <1>4 DEF IsReservedBlock
  <2>2. \A m \in DOMAIN blocksByNumber' : m < length
    BY <1>3, <1>4 DEF IInv, EveryNumberOnce
  <2>3. ASSUME NEW m \in 0..(length - 1)
        PROVE  m \in DOMAIN blocksByNumber' \/ \E q \in blockReservations' : Covers(q, m)
    <3>1. CASE Real(m) \/ m = n
      BY <3>1, <1>4 DEF Real
    <3>2. CASE Covers(r, m) /\ m < n
      <4>1. early \in blockReservations' /\ early.first = r.first /\ early.last = n - 1
        BY <3>2, <1>1, <1>3, <1>5 DEF SplitFacts, Covers
      <4> QED
        BY <3>2, <4>1, <1>3, <1>5 DEF Covers
    <3>3. CASE Covers(r, m) /\ m > n
      <4>1. late \in blockReservations' /\ late.first = n + 1 /\ late.last = r.last
        BY <3>3, <1>1, <1>3, <1>5 DEF SplitFacts, Covers
      <4> QED
        BY <3>3, <4>1, <1>3, <1>5 DEF Covers
    <3>4. CASE \E q \in blockReservations : q # r /\ Covers(q, m)
      BY <3>4, <1>1 DEF SplitFacts
    <3>5. Real(m) \/ \E q \in blockReservations : Covers(q, m)
      BY DEF IInv, EveryNumberOnce, IsReservedBlock
    <3> QED
      BY <3>1, <3>2, <3>3, <3>4, <3>5, <1>3
  <2>4. ASSUME NEW p \in blockReservations', NEW q \in blockReservations',
               NEW m \in p.first..p.last, Covers(q, m)
        PROVE  p = q
    <3>1. p.first \in Nat /\ p.last \in Nat
      BY <1>7 DEF TypeOK, Reservation
    <3>2. m \in Nat /\ Covers(p, m)
      BY <3>1 DEF Covers
    <3>3. /\ m # n
          /\ \/ p \in blockReservations /\ p # r /\ ~Covers(r, m)
             \/ p = early /\ m < n /\ Covers(r, m)
             \/ p = late /\ m > n /\ Covers(r, m)
      BY <3>2, <1>1, FulfillCovers
    <3>4. \/ q \in blockReservations /\ q # r /\ ~Covers(r, m)
          \/ q = early /\ m < n /\ Covers(r, m)
          \/ q = late /\ m > n /\ Covers(r, m)
      BY <3>2, <2>4, <1>1, FulfillCovers
    <3> QED
      BY <3>2, <3>3, <3>4, <2>4, <1>3, ReservationUnique
  <2> QED
    BY <2>1, <2>2, <2>3, <2>4, <1>2, <1>6 DEF EveryNumberOnce, IsReservedBlock, Real, Covers
<1>9. ReservationsAnchored'
  BY <1>6 DEF ReservationsAnchored, Real
<1>10. NumbersMatch' /\ ByHashExact'
  <2>1. blocksByHash' = blocksByHash \cup {b}
    BY <1>2 DEF DataAddBlock
  <2> QED
    BY <2>1, <1>4 DEF IInv, NumbersMatch, ByHashExact
<1>11. SnapshotsOrdered' /\ SavingReal'
  BY <1>2, <1>4 DEF IInv, SnapshotsOrdered, SavingReal, Real
<1> QED
  BY <1>7, <1>8, <1>9, <1>10, <1>11 DEF IInv

(* Adding a mined block preserves the invariant. *)
LEMMA AddPreserves ==
  ASSUME IInv,
         NEW timestamp \in Timestamps, NEW root \in Roots, NEW fee \in Fees,
         NEW difficulty \in Difficulties, NEW txs \in SUBSET Txs,
         AddBlock(timestamp, root, fee, difficulty, txs)
  PROVE  IInv'
<1> DEFINE parent == blocksByNumber[length - 1]
           b == [number |-> length, timestamp |-> timestamp, root |-> root,
                 fee |-> fee, td |-> parent.td + difficulty, txs |-> txs]
<1>1. /\ DataAddBlock(b) /\ length' = length + 1 /\ saving' = TRUE
      /\ UNCHANGED <<receipts, blockReservations, snapshots, nextSnapshotId>>
      /\ Real(length - 1)
  BY DEF AddBlock
<1>2. length \in Nat /\ length # 0
  BY DEF IInv, TypeOK
<1>3. parent \in Block
  BY <1>1 DEF IInv, TypeOK, Real
<1>4. b \in Block /\ b.number = length /\ b.txs \subseteq Txs
  BY <1>2, <1>3, TimestampsAssumption, DifficultiesAssumption DEF Block
<1> HIDE DEF b, parent
<1>5. length \notin DOMAIN blocksByNumber
  BY <1>2 DEF IInv, EveryNumberOnce
<1>6. /\ DOMAIN blocksByNumber' = DOMAIN blocksByNumber \cup {length}
      /\ blocksByNumber'[length] = b
      /\ \A m \in DOMAIN blocksByNumber : blocksByNumber'[m] = blocksByNumber[m]
      /\ blocksByNumber' \in [DOMAIN blocksByNumber' -> Block]
      /\ blocksByHash' = blocksByHash \cup {b}
  <2>1. \A m \in DOMAIN blocksByNumber : blocksByNumber[m] \in Block /\ m # length
    BY <1>5 DEF IInv, TypeOK
  <2> QED
    BY <1>1, <1>4, <2>1 DEF DataAddBlock
<1>7. TypeOK'
  <2>1. blocksByTransactions' \subseteq Txs \X Block
    BY <1>1, <1>4 DEF DataAddBlock, IInv, TypeOK
  <2>2. /\ length' \in Nat \ {0} /\ DOMAIN blocksByNumber' \subseteq Nat
        /\ blocksByHash' \subseteq Block
    BY <1>1, <1>2, <1>4, <1>6 DEF IInv, TypeOK
  <2>3. saving' \in BOOLEAN
    BY <1>1
  <2>4. receipts \subseteq Txs /\ blockReservations \subseteq Reservation
        /\ snapshots \subseteq Snapshot /\ nextSnapshotId \in Nat
    BY DEF IInv, TypeOK
  <2> QED
    BY <2>1, <2>2, <2>3, <2>4, <1>1, <1>6 DEF TypeOK
<1>8. EveryNumberOnce'
  <2>1. ASSUME NEW m \in DOMAIN blocksByNumber'
        PROVE  m < length + 1 /\ ~IsReservedBlock(m)
    <3>1. CASE m \in DOMAIN blocksByNumber
      <4>1. m \in Nat /\ m < length /\ ~IsReservedBlock(m)
        BY <3>1 DEF IInv, TypeOK, EveryNumberOnce
      <4> QED
        BY <4>1, <1>2
    <3>2. CASE m = length
      <4>1. \A r \in blockReservations : r.last < length /\ r.last \in Nat
        BY ReservationFields
      <4> QED
        BY <3>2, <4>1, <1>2 DEF IsReservedBlock, Covers
    <3> QED
      BY <3>1, <3>2, <1>6
  <2>2. \A r \in blockReservations : 1 <= r.first /\ r.first <= r.last /\ r.last < length + 1
    BY <1>2, ReservationFields
  <2>3. \A m \in 0..length : m \in DOMAIN blocksByNumber' \/ IsReservedBlock(m)
    <3> SUFFICES ASSUME NEW m \in 0..length
                 PROVE  m \in DOMAIN blocksByNumber' \/ IsReservedBlock(m)
      OBVIOUS
    <3>1. m = length \/ m \in 0..(length - 1)
      BY <1>2
    <3> QED
      BY <3>1, <1>6 DEF IInv, EveryNumberOnce, Real
  <2>4. \A r, q \in blockReservations : (\E m \in r.first..r.last : Covers(q, m)) => r = q
    BY DEF IInv, EveryNumberOnce
  <2>5. length' - 1 = length
    BY <1>1, <1>2
  <2> QED
    BY <2>1, <2>2, <2>3, <2>4, <2>5, <1>1 DEF EveryNumberOnce, IsReservedBlock, Real, Covers
<1>9. ReservationsAnchored'
  BY <1>1, <1>6 DEF IInv, ReservationsAnchored, Real
<1>10. NumbersMatch' /\ ByHashExact'
  BY <1>4, <1>6 DEF IInv, NumbersMatch, ByHashExact
<1>11. SnapshotsOrdered' /\ SavingReal'
  BY <1>1, <1>2, <1>6 DEF IInv, SnapshotsOrdered, SavingReal, Real
<1> QED
  BY <1>7, <1>8, <1>9, <1>10, <1>11 DEF IInv

(* Reserving blocks preserves the invariant. *)
LEMMA ReservePreserves ==
  ASSUME IInv, NEW count \in Counts, NEW interval \in Intervals, NEW root \in Roots,
         ReserveBlocks(count, interval, root)
  PROVE  IInv'
<1> DEFINE latest == blocksByNumber[length - 1]
           r == [first |-> length, last |-> length + count - 1, interval |-> interval,
                 root |-> root, td |-> latest.td, fee |-> latest.fee]
<1>1. /\ blockReservations' = blockReservations \cup {r} /\ length' = length + count
      /\ UNCHANGED <<blocksByNumber, blocksByHash, blocksByTransactions, receipts,
                     saving, snapshots, nextSnapshotId>>
      /\ Real(length - 1)
  BY DEF ReserveBlocks
<1>2. length \in Nat /\ length # 0 /\ count \in Nat /\ count >= 1
  BY CountsAssumption DEF IInv, TypeOK
<1>3. latest \in Block
  BY <1>1 DEF IInv, TypeOK, Real
<1>4. r \in Reservation /\ r.first = length /\ r.last = length + count - 1
  BY <1>2, <1>3 DEF Block, Reservation
<1> HIDE DEF r, latest
<1>5. TypeOK'
  BY <1>1, <1>2, <1>4 DEF IInv, TypeOK
<1>6. \A q \in blockReservations : /\ q.first \in Nat /\ q.last \in Nat
                                   /\ 1 <= q.first /\ q.first <= q.last /\ q.last < length
  BY ReservationFields
<1>7. \A m \in Nat : Covers(r, m) <=> (length <= m /\ m < length + count)
  BY <1>2, <1>4 DEF Covers
<1>8. EveryNumberOnce'
  <2>1. ASSUME NEW m \in DOMAIN blocksByNumber, NEW q \in blockReservations \cup {r}
        PROVE  m < length + count /\ ~Covers(q, m)
    <3>1. m \in Nat /\ m < length /\ ~IsReservedBlock(m)
      BY DEF IInv, TypeOK, EveryNumberOnce
    <3> QED
      BY <3>1, <1>2, <1>7 DEF IsReservedBlock
  <2>2. \A m \in DOMAIN blocksByNumber : m < length + count
    BY <2>1
  <2>3. \A q \in blockReservations \cup {r} :
          1 <= q.first /\ q.first <= q.last /\ q.last < length + count
    BY <1>2, <1>4, <1>6
  <2>4. ASSUME NEW m \in 0..(length + count - 1)
        PROVE  m \in DOMAIN blocksByNumber \/ \E q \in blockReservations \cup {r} : Covers(q, m)
    <3>1. CASE m < length
      <4>1. m \in 0..(length - 1)
        BY <3>1, <1>2
      <4> QED
        BY <4>1 DEF IInv, EveryNumberOnce, Real, IsReservedBlock
    <3>2. CASE m >= length
      BY <3>2, <1>2, <1>7
    <3> QED
      BY <3>1, <3>2, <1>2
  <2>5. ASSUME NEW p \in blockReservations \cup {r}, NEW q \in blockReservations \cup {r},
               NEW m \in p.first..p.last, Covers(q, m)
        PROVE  p = q
    <3>1. m \in Nat /\ Covers(p, m)
      BY <1>2, <1>4, <1>6 DEF Covers
    <3>2. CASE p \in blockReservations /\ q \in blockReservations
      BY <3>1, <3>2, <2>5, ReservationUnique
    <3>3. \A x \in blockReservations : Covers(x, m) => m < length
      BY <3>1, <1>2, <1>6 DEF Covers
    <3> QED
      BY <3>1, <3>2, <3>3, <2>5, <1>2, <1>7
  <2>6. blockReservations' = blockReservations \cup {r} /\ length' = length + count
        /\ blocksByNumber' = blocksByNumber
    BY <1>1
  <2>7. \A n \in DOMAIN blocksByNumber' :
          n < length' /\ \A q \in blockReservations' : ~Covers(q, n)
    BY <2>1, <2>2, <2>6
  <2>8. \A q \in blockReservations' : 1 <= q.first /\ q.first <= q.last /\ q.last < length'
    BY <2>3, <2>6
  <2>9. \A n \in 0..(length' - 1) :
          n \in DOMAIN blocksByNumber' \/ \E q \in blockReservations' : Covers(q, n)
    <3> SUFFICES ASSUME NEW n \in 0..(length' - 1)
                 PROVE  n \in DOMAIN blocksByNumber'
                          \/ \E q \in blockReservations' : Covers(q, n)
      OBVIOUS
    <3>1. n \in 0..(length + count - 1)
      BY <2>6, <1>2
    <3> QED
      BY <2>4, <2>6, <3>1
  <2>10. \A p, q \in blockReservations' : (\E n \in p.first..p.last : Covers(q, n)) => p = q
    BY <2>5, <2>6
  <2> QED
    BY <2>7, <2>8, <2>9, <2>10 DEF EveryNumberOnce, IsReservedBlock, Real, Covers
<1>9. ReservationsAnchored'
  BY <1>1, <1>4 DEF IInv, ReservationsAnchored, Real
<1>10. NumbersMatch' /\ ByHashExact' /\ SnapshotsOrdered' /\ SavingReal'
  <2>1. saving' = FALSE
    BY <1>1 DEF ReserveBlocks, IInv, TypeOK
  <2> QED
    BY <2>1, <1>1 DEF IInv, NumbersMatch, ByHashExact, SnapshotsOrdered, SavingReal, Real
<1> QED
  BY <1>5, <1>8, <1>9, <1>10 DEF IInv

(* Saving receipts and taking a snapshot preserve the invariant. *)
LEMMA SavePreserves ==
  ASSUME IInv, AddTransactionReceipts \/ TakeSnapshot
  PROVE  IInv'
<1>1. length \in Nat /\ length # 0
  BY DEF IInv, TypeOK
<1>2. CASE AddTransactionReceipts
  <2>1. /\ receipts' = receipts \cup blocksByNumber[length - 1].txs /\ saving' = FALSE
        /\ UNCHANGED <<blocksByNumber, blocksByHash, blocksByTransactions,
                       blockReservations, length, snapshots, nextSnapshotId>>
        /\ saving
    BY <1>2 DEF AddTransactionReceipts
  <2>2. blocksByNumber[length - 1] \in Block
    BY <2>1 DEF IInv, TypeOK, SavingReal, Real
  <2>3. receipts' \subseteq Txs
    BY <2>1, <2>2 DEF Block, IInv, TypeOK
  <2>4. TypeOK'
    BY <2>1, <2>3 DEF IInv, TypeOK
  <2> QED
    BY <2>1, <2>4 DEF IInv, EveryNumberOnce, ReservationsAnchored, NumbersMatch, ByHashExact,
                      SnapshotsOrdered, SavingReal, IsReservedBlock, Real, Covers
<1>3. CASE TakeSnapshot
  <2> DEFINE s == [id |-> nextSnapshotId, latestBlock |-> blocksByNumber[length - 1]]
  <2>1. /\ snapshots' = snapshots \cup {s} /\ nextSnapshotId' = nextSnapshotId + 1
        /\ UNCHANGED <<dataVars, length, saving>> /\ Real(length - 1)
    BY <1>3 DEF TakeSnapshot
  <2>2. blocksByNumber[length - 1] \in Block /\ blocksByNumber[length - 1].number = length - 1
    BY <2>1 DEF IInv, TypeOK, NumbersMatch, Real
  <2>3. s \in Snapshot /\ s.id = nextSnapshotId /\ s.latestBlock = blocksByNumber[length - 1]
    BY <2>2 DEF Snapshot, IInv, TypeOK
  <2> HIDE DEF s
  <2>4. TypeOK'
    BY <2>1, <2>3 DEF IInv, TypeOK, dataVars
  <2>5. \A x \in snapshots : /\ x.id \in Nat /\ x.id < nextSnapshotId
                             /\ x.latestBlock.number \in Nat
                             /\ x.latestBlock.number < length
    <3> SUFFICES ASSUME NEW x \in snapshots
                 PROVE  /\ x.id \in Nat /\ x.id < nextSnapshotId
                        /\ x.latestBlock.number \in Nat
                        /\ x.latestBlock.number < length
      OBVIOUS
    <3>1. x \in Snapshot
      BY DEF IInv, TypeOK
    <3>2. x.id \in Nat /\ x.latestBlock \in Block
      BY <3>1 DEF Snapshot
    <3>3. x.latestBlock.number \in Nat
      BY <3>2 DEF Block
    <3>4. x.id < nextSnapshotId /\ Real(x.latestBlock.number)
      BY DEF IInv, SnapshotsOrdered
    <3>5. x.latestBlock.number < length
      BY <3>4 DEF IInv, EveryNumberOnce, Real
    <3> QED
      BY <3>2, <3>3, <3>4, <3>5
  <2>6. nextSnapshotId \in Nat
    BY DEF IInv, TypeOK
  <2>7. ASSUME NEW x \in snapshots'
        PROVE  /\ x.id < nextSnapshotId'
               /\ Real(x.latestBlock.number)
               /\ blocksByNumber[x.latestBlock.number] = x.latestBlock
    <3>1. CASE x \in snapshots
      BY <3>1, <2>1, <2>5, <2>6 DEF IInv, SnapshotsOrdered
    <3>2. CASE x = s
      BY <3>2, <2>1, <2>2, <2>3, <2>6
    <3> QED
      BY <3>1, <3>2, <2>1
  <2>8. ASSUME NEW x \in snapshots', NEW y \in snapshots', x.id < y.id
        PROVE  x.latestBlock.number <= y.latestBlock.number
    <3>1. CASE x \in snapshots /\ y \in snapshots
      BY <3>1, <2>8 DEF IInv, SnapshotsOrdered
    <3>2. CASE x \in snapshots /\ y = s
      BY <3>2, <2>2, <2>3, <2>5, <1>1
    <3>3. CASE x = s
      BY <3>3, <2>1, <2>3, <2>5, <2>6, <2>8
    <3> QED
      BY <3>1, <3>2, <3>3, <2>1
  <2>9. SnapshotsOrdered'
    BY <2>1, <2>7, <2>8 DEF SnapshotsOrdered, Real, dataVars
  <2> QED
    BY <2>1, <2>4, <2>9 DEF IInv, EveryNumberOnce, ReservationsAnchored, NumbersMatch,
                            ByHashExact, SavingReal, IsReservedBlock, Real, Covers, dataVars
<1> QED
  BY <1>2, <1>3

(* Reverting to a snapshot preserves the invariant. *)
LEMMA RevertPreserves ==
  ASSUME IInv, NEW s \in snapshots, RevertToSnapshot(s)
  PROVE  IInv'
<1> DEFINE k == s.latestBlock.number
           kept == {i \in DOMAIN blocksByNumber : i < k + 1}
           removed == {blocksByNumber[n] : n \in {i \in DOMAIN blocksByNumber : i >= k + 1}}
           txs == UNION {x.txs : x \in removed}
<1>1. /\ DelBlock(k + 1) /\ snapshots' = {x \in snapshots : x.id < s.id}
      /\ UNCHANGED <<saving, nextSnapshotId>>
      /\ ~saving
  BY DEF RevertToSnapshot
<1>2. /\ blocksByNumber' = [n \in kept |-> blocksByNumber[n]]
      /\ blocksByHash' = blocksByHash \ removed
      /\ blocksByTransactions' = {x \in blocksByTransactions : x[1] \notin txs}
      /\ receipts' = receipts \ txs
      /\ blockReservations' = {r \in blockReservations : r.last < k + 1}
      /\ length' = k + 1
  BY <1>1 DEF DelBlock
<1>3. /\ k \in DOMAIN blocksByNumber /\ k \in Nat /\ k < length
      /\ length \in Nat /\ DOMAIN blocksByNumber \subseteq Nat
  BY DEF IInv, TypeOK, SnapshotsOrdered, EveryNumberOnce, Real
<1>4. /\ DOMAIN blocksByNumber' = kept
      /\ \A n \in kept : blocksByNumber'[n] = blocksByNumber[n] /\ n \in DOMAIN blocksByNumber
      /\ blocksByNumber' \in [kept -> Block]
  BY <1>2 DEF IInv, TypeOK
<1>5. TypeOK'
  <2>1. blocksByHash' \subseteq Block /\ blocksByTransactions' \subseteq Txs \X Block
        /\ receipts' \subseteq Txs /\ blockReservations' \subseteq Reservation
    BY <1>2 DEF IInv, TypeOK
  <2>2. snapshots' \subseteq Snapshot /\ nextSnapshotId' \in Nat /\ saving' \in BOOLEAN
    BY <1>1 DEF IInv, TypeOK
  <2>3. length' \in Nat \ {0} /\ DOMAIN blocksByNumber' \subseteq Nat
    BY <1>2, <1>3, <1>4
  <2> QED
    BY <2>1, <2>2, <2>3, <1>4 DEF TypeOK
<1> HIDE DEF k
<1>6. \A r \in blockReservations : /\ r.first \in Nat /\ r.last \in Nat
                                   /\ 1 <= r.first /\ r.first <= r.last
                                   /\ r.first - 1 \in DOMAIN blocksByNumber
  BY ReservationFields DEF Real
<1>7. EveryNumberOnce'
  <2>1. \A n \in kept : n < k + 1 /\ ~IsReservedBlock(n)
    BY DEF IInv, EveryNumberOnce
  <2>2. ASSUME NEW n \in 0..k
        PROVE  n \in kept \/ \E r \in blockReservations : r.last < k + 1 /\ Covers(r, n)
    <3>1. n \in DOMAIN blocksByNumber \/ \E r \in blockReservations : Covers(r, n)
      BY <1>3 DEF IInv, EveryNumberOnce, Real, IsReservedBlock
    <3>2. ASSUME NEW r \in blockReservations, Covers(r, n) PROVE r.last < k + 1
      <4>1. ~Covers(r, k)
        BY <1>3 DEF IInv, EveryNumberOnce, IsReservedBlock
      <4> QED
        BY <4>1, <3>2, <1>3, <1>6 DEF Covers
    <3> QED
      BY <3>1, <3>2, <1>3
  <2>3. k + 1 - 1 = k
    BY <1>3
  <2>4. \A r, q \in blockReservations : (\E n \in r.first..r.last : Covers(q, n)) => r = q
    BY DEF IInv, EveryNumberOnce
  <2>5. \A n \in DOMAIN blocksByNumber' :
          n < length' /\ \A q \in blockReservations' : ~Covers(q, n)
    BY <2>1, <1>2, <1>4 DEF IsReservedBlock
  <2>6. \A q \in blockReservations' : 1 <= q.first /\ q.first <= q.last /\ q.last < length'
    BY <1>2, <1>6
  <2>7. \A n \in 0..(length' - 1) :
          n \in DOMAIN blocksByNumber' \/ \E q \in blockReservations' : Covers(q, n)
    <3> SUFFICES ASSUME NEW n \in 0..(length' - 1)
                 PROVE  n \in DOMAIN blocksByNumber'
                          \/ \E q \in blockReservations' : Covers(q, n)
      OBVIOUS
    <3>1. n \in 0..k
      <4>1. length' = k + 1
        BY <1>2
      <4> QED
        BY <4>1, <1>3
    <3>2. n \in kept \/ \E r \in blockReservations : r.last < k + 1 /\ Covers(r, n)
      BY <2>2, <3>1
    <3> QED
      BY <3>2, <1>2, <1>4
  <2>8. \A p, q \in blockReservations' : (\E n \in p.first..p.last : Covers(q, n)) => p = q
    BY <2>4, <1>2
  <2> QED
    BY <2>5, <2>6, <2>7, <2>8 DEF EveryNumberOnce, IsReservedBlock, Real, Covers
<1>8. ReservationsAnchored'
  <2> SUFFICES ASSUME NEW r \in blockReservations, r.last < k + 1
               PROVE  r.first - 1 \in kept
    BY <1>2, <1>4 DEF ReservationsAnchored, Real
  <2> QED
    BY <1>3, <1>6
<1>9. NumbersMatch'
  BY <1>4 DEF IInv, NumbersMatch
<1>10. ByHashExact'
  <2>1. \A n, m \in DOMAIN blocksByNumber : blocksByNumber[n] = blocksByNumber[m] => n = m
    BY DEF IInv, NumbersMatch
  <2>2. \A n \in DOMAIN blocksByNumber : n \in kept <=> ~(n >= k + 1)
    BY <1>3
  <2> QED
    BY <2>1, <2>2, <1>2, <1>4 DEF IInv, ByHashExact
<1>11. SnapshotsOrdered' /\ SavingReal'
  <2>1. \A x \in snapshots : /\ x.id < nextSnapshotId
                             /\ x.latestBlock.number \in DOMAIN blocksByNumber
                             /\ blocksByNumber[x.latestBlock.number] = x.latestBlock
                             /\ x.id < s.id => x.latestBlock.number <= k
    BY DEF IInv, SnapshotsOrdered, Real, k
  <2>2. \A x \in snapshots' : x.latestBlock.number \in kept
    BY <2>1, <1>1, <1>3
  <2>3. \A x, y \in snapshots' : x.id < y.id => x.latestBlock.number <= y.latestBlock.number
    BY <1>1 DEF IInv, SnapshotsOrdered
  <2> QED
    BY <2>1, <2>2, <2>3, <1>1, <1>4 DEF SnapshotsOrdered, SavingReal, Real
<1> QED
  BY <1>5, <1>7, <1>8, <1>9, <1>10, <1>11 DEF IInv

(* The invariant holds in every reachable state. *)
THEOREM Invariance == Spec => []IInv
<1>1. Init => IInv
  BY InitEstablishes
<1>2. IInv /\ [Next]_vars => IInv'
  <2> SUFFICES ASSUME IInv, [Next]_vars PROVE IInv'
    OBVIOUS
  <2>1. CASE UNCHANGED vars
    BY <2>1 DEF IInv, TypeOK, EveryNumberOnce, ReservationsAnchored, NumbersMatch, ByHashExact,
                SnapshotsOrdered, SavingReal, IsReservedBlock, Real, Covers, vars, dataVars
  <2>2. ASSUME NEW n \in 0..(length - 1), GetBlock(n) PROVE IInv'
    BY <2>1, <2>2, FulfillPreserves DEF GetBlock
  <2>3. CASE Next
    BY <2>2, <2>3, AddPreserves, ReservePreserves, SavePreserves, RevertPreserves DEF Next
  <2> QED
    BY <2>1, <2>3
<1> QED
  BY <1>1, <1>2, PTL DEF Spec

(* The maps, the reservations and the snapshots keep their types. *)
THEOREM TypeCorrect == Spec => []TypeOK
BY Invariance, PTL DEF IInv

(* Whatever is mined, reserved, read and reverted, every number of the     *)
(* chain is a block or in exactly one reservation.                         *)
THEOREM NumbersArePartitioned == Spec => []EveryNumberOnce
BY Invariance, PTL DEF IInv

(* The block before a reservation always exists, so computing the          *)
(* timestamp of a reserved block never fails its assertion.                *)
THEOREM ReservationsAreAnchored == Spec => []ReservationsAnchored
BY Invariance, PTL DEF IInv

(* deleteLaterBlocks never throws "Invalid block" for a live snapshot.     *)
THEOREM SnapshotsCanBeReverted == Spec => []SnapshotsRevertible
<1>1. IInv => SnapshotsRevertible
  BY DEF IInv, SnapshotsOrdered, ByHashExact, SnapshotsRevertible, Real
<1> QED
  BY <1>1, Invariance, PTL

-----------------------------------------------------------------------------

(* An entry of _blocksByTransactions leads to the block with its           *)
(* transaction, and every transaction of the chain has its entry.          *)
TransactionsIndexed ==
  /\ \A x \in blocksByTransactions : x[2] \in blocksByHash /\ x[1] \in x[2].txs
  /\ \A b \in blocksByHash : \A t \in b.txs : <<t, b>> \in blocksByTransactions

(* No two blocks of the chain have a transaction in common, so removing    *)
(* the transactions of one leaves the entries of the others.               *)
TransactionsOnce ==
  \A b, c \in blocksByHash : \A t \in b.txs : t \in c.txs => b = c

(* The receipts are those of the blocks that have been saved. *)
Saved(b) == saving => b.number # length - 1

ReceiptsSaved ==
  /\ \A t \in receipts : \E b \in blocksByHash : t \in b.txs /\ Saved(b)
  /\ \A b \in blocksByHash : Saved(b) => b.txs \subseteq receipts

IndexInv == TransactionsIndexed /\ TransactionsOnce /\ ReceiptsSaved

(* The blocks of the chain, as the index by hash has them. *)
LEMMA BlocksOfChain ==
  ASSUME IInv, NEW b \in blocksByHash
  PROVE  /\ b \in Block /\ b.number \in DOMAIN blocksByNumber
         /\ b = blocksByNumber[b.number]
         /\ b.number \in Nat /\ b.number < length
<1>1. PICK n \in DOMAIN blocksByNumber : b = blocksByNumber[n]
  BY DEF IInv, ByHashExact
<1>2. b.number = n
  BY <1>1 DEF IInv, NumbersMatch
<1> QED
  BY <1>1, <1>2 DEF IInv, TypeOK, EveryNumberOnce

(* An entry of the index by transaction is a pair. *)
LEMMA EntriesArePairs ==
  ASSUME IInv, NEW x \in blocksByTransactions
  PROVE  x = <<x[1], x[2]>> /\ x[1] \in Txs /\ x[2] \in Block
BY DEF IInv, TypeOK

(* A block without transactions, made for a reserved number, changes no    *)
(* index but the one by hash.                                              *)
LEMMA FulfillIndexes ==
  ASSUME IInv, IndexInv, NEW n \in 0..(length - 1), FulfillBlockReservation(n)
  PROVE  IndexInv'
<1> DEFINE b == ReservedBlock(ReservationOf(n), n)
<1>1. b.txs = {}
  BY DEF ReservedBlock
<1>2. /\ DataAddBlock(b) /\ UNCHANGED <<receipts, length, saving>>
  BY DEF FulfillBlockReservation
<1> HIDE DEF b
<1>3. blocksByHash' = blocksByHash \cup {b} /\ blocksByTransactions' = blocksByTransactions
  BY <1>1, <1>2 DEF DataAddBlock
<1>4. TransactionsIndexed'
  BY <1>1, <1>3 DEF IndexInv, TransactionsIndexed
<1>5. TransactionsOnce'
  BY <1>1, <1>3 DEF IndexInv, TransactionsOnce
<1>6. ReceiptsSaved'
  BY <1>1, <1>2, <1>3 DEF IndexInv, ReceiptsSaved, Saved
<1> QED
  BY <1>4, <1>5, <1>6 DEF IndexInv

(* A mined block enters the indexes at once; its receipts are still to     *)
(* come.                                                                   *)
LEMMA AddIndexes ==
  ASSUME IInv, IndexInv,
         NEW timestamp \in Timestamps, NEW root \in Roots, NEW fee \in Fees,
         NEW difficulty \in Difficulties, NEW txs \in SUBSET Txs,
         AddBlock(timestamp, root, fee, difficulty, txs)
  PROVE  IndexInv'
<1> DEFINE b == [number |-> length, timestamp |-> timestamp, root |-> root, fee |-> fee,
                 td |-> blocksByNumber[length - 1].td + difficulty, txs |-> txs]
<1>1. b.txs = txs /\ b.number = length
  OBVIOUS
<1>2. /\ DataAddBlock(b) /\ ~saving /\ saving' /\ length' = length + 1
      /\ receipts' = receipts
      /\ \A x \in blocksByTransactions : x[1] \notin txs
  BY DEF AddBlock
<1> HIDE DEF b
<1>3. /\ blocksByHash' = blocksByHash \cup {b}
      /\ blocksByTransactions' = blocksByTransactions \cup {<<t, b>> : t \in txs}
  BY <1>1, <1>2 DEF DataAddBlock
<1>4. length \in Nat /\ length' - 1 = length
  BY <1>2 DEF IInv, TypeOK
<1>5. \A c \in blocksByHash : \A t \in c.txs : t \notin txs
  <2> SUFFICES ASSUME NEW c \in blocksByHash, NEW t \in c.txs PROVE t \notin txs
    OBVIOUS
  <2>1. <<t, c>> \in blocksByTransactions
    BY DEF IndexInv, TransactionsIndexed
  <2> QED
    BY <2>1, <1>2
<1>6. TransactionsIndexed'
  BY <1>1, <1>3 DEF IndexInv, TransactionsIndexed
<1>7. TransactionsOnce'
  BY <1>1, <1>3, <1>5 DEF IndexInv, TransactionsOnce
<1>8. ReceiptsSaved'
  <2>1. \A c \in blocksByHash : c.number # length
    BY <1>4, BlocksOfChain
  <2>2. \A c \in blocksByHash : Saved(c) /\ Saved(c)'
    BY <2>1, <1>2, <1>4 DEF Saved
  <2>3. ASSUME NEW c \in blocksByHash', Saved(c)' PROVE c \in blocksByHash
    <3>1. c.number # length
      BY <2>3, <1>2, <1>4 DEF Saved
    <3> QED
      BY <3>1, <1>1, <1>3
  <2>4. \A c \in blocksByHash' : Saved(c)' => c \in blocksByHash
    BY <2>3
  <2> QED
    BY <1>2, <1>3, <2>2, <2>4 DEF IndexInv, ReceiptsSaved
<1> QED
  BY <1>6, <1>7, <1>8 DEF IndexInv

(* Saving the receipts of the latest block completes them. *)
LEMMA SaveIndexes ==
  ASSUME IInv, IndexInv, AddTransactionReceipts
  PROVE  IndexInv'
<1> DEFINE latest == blocksByNumber[length - 1]
<1>1. /\ saving /\ ~saving' /\ receipts' = receipts \cup latest.txs
      /\ UNCHANGED <<blocksByHash, blocksByTransactions, length>>
  BY DEF AddTransactionReceipts
<1>2. latest \in blocksByHash
  BY <1>1 DEF IInv, SavingReal, Real, ByHashExact
<1>3. \A b \in blocksByHash : Saved(b)'
  BY <1>1 DEF Saved
<1>4. \A b \in blocksByHash : Saved(b) \/ b = latest
  BY BlocksOfChain DEF Saved
<1> HIDE DEF latest
<1>5. \A t \in receipts' : \E b \in blocksByHash : t \in b.txs
  BY <1>1, <1>2 DEF IndexInv, ReceiptsSaved
<1>6. \A b \in blocksByHash : b.txs \subseteq receipts'
  BY <1>1, <1>4 DEF IndexInv, ReceiptsSaved
<1>7. ReceiptsSaved'
  BY <1>1, <1>3, <1>5, <1>6 DEF ReceiptsSaved
<1>8. TransactionsIndexed' /\ TransactionsOnce'
  BY <1>1 DEF IndexInv, TransactionsIndexed, TransactionsOnce
<1> QED
  BY <1>7, <1>8 DEF IndexInv

(* Removing the later blocks removes their transactions and receipts, and  *)
(* those of no block that stays.                                           *)
LEMMA RevertIndexes ==
  ASSUME IInv, IndexInv, NEW s \in snapshots, RevertToSnapshot(s)
  PROVE  IndexInv'
<1> DEFINE k == s.latestBlock.number + 1
           removed == {blocksByNumber[n] : n \in {i \in DOMAIN blocksByNumber : i >= k}}
           txs == UNION {b.txs : b \in removed}
<1>1. /\ ~saving /\ ~saving'
      /\ blocksByHash' = blocksByHash \ removed
      /\ blocksByTransactions' = {x \in blocksByTransactions : x[1] \notin txs}
      /\ receipts' = receipts \ txs
  BY DEF RevertToSnapshot, DelBlock
<1>2. removed \subseteq blocksByHash
  BY DEF IInv, ByHashExact
<1>3. \A t \in txs : \E b \in removed : t \in b.txs
  OBVIOUS
<1>4. \A b \in removed : \A t \in b.txs : t \in txs
  OBVIOUS
<1> HIDE DEF txs, removed
<1>5. \A b \in blocksByHash' : \A t \in b.txs : t \notin txs
  BY <1>1, <1>2, <1>3 DEF IndexInv, TransactionsOnce
<1>6. TransactionsIndexed'
  <2>1. ASSUME NEW x \in blocksByTransactions'
        PROVE  x[2] \in blocksByHash' /\ x[1] \in x[2].txs
    <3>1. x \in blocksByTransactions /\ x[1] \notin txs
      BY <1>1
    <3>2. x[2] \in blocksByHash /\ x[1] \in x[2].txs
      BY <3>1 DEF IndexInv, TransactionsIndexed
    <3> QED
      BY <3>1, <3>2, <1>1, <1>4
  <2>2. ASSUME NEW b \in blocksByHash', NEW t \in b.txs
        PROVE  <<t, b>> \in blocksByTransactions'
    <3>1. b \in blocksByHash /\ t \notin txs
      BY <1>1, <1>5
    <3>2. <<t, b>> \in blocksByTransactions
      BY <3>1 DEF IndexInv, TransactionsIndexed
    <3> QED
      BY <3>1, <3>2, <1>1
  <2> QED
    BY <2>1, <2>2 DEF TransactionsIndexed
<1>7. TransactionsOnce'
  BY <1>1 DEF IndexInv, TransactionsOnce
<1>8. ReceiptsSaved'
  <2>1. \A b \in blocksByHash : Saved(b) /\ Saved(b)'
    BY <1>1 DEF Saved
  <2>2. ASSUME NEW t \in receipts' PROVE \E b \in blocksByHash' : t \in b.txs
    <3>1. t \in receipts /\ t \notin txs
      BY <1>1
    <3>2. PICK b \in blocksByHash : t \in b.txs
      BY <3>1 DEF IndexInv, ReceiptsSaved
    <3> QED
      BY <3>1, <3>2, <1>1, <1>4
  <2>3. ASSUME NEW b \in blocksByHash', NEW t \in b.txs PROVE t \in receipts'
    <3>1. b \in blocksByHash /\ t \notin txs
      BY <1>1, <1>5
    <3> QED
      BY <3>1, <2>1, <1>1 DEF IndexInv, ReceiptsSaved
  <2>4. blocksByHash' \subseteq blocksByHash
    BY <1>1
  <2> QED
    BY <2>1, <2>2, <2>3, <2>4 DEF ReceiptsSaved
<1> QED
  BY <1>6, <1>7, <1>8 DEF IndexInv

(* The pointwise invariant is the property. *)
LEMMA IndexInvSuffices ==
  ASSUME IInv, IndexInv
  PROVE  IndexesExact
<1>1. blocksByHash = {blocksByNumber[n] : n \in DOMAIN blocksByNumber}
  BY DEF IInv, ByHashExact
<1>2. blocksByTransactions = UNION {b.txs \X {b} : b \in blocksByHash}
  <2>1. ASSUME NEW x \in blocksByTransactions
        PROVE  \E b \in blocksByHash : x \in b.txs \X {b}
    <3>1. x = <<x[1], x[2]>> /\ x[2] \in blocksByHash /\ x[1] \in x[2].txs
      BY EntriesArePairs DEF IndexInv, TransactionsIndexed
    <3>2. x \in x[2].txs \X {x[2]}
      BY <3>1
    <3> QED
      BY <3>1, <3>2
  <2>2. ASSUME NEW b \in blocksByHash, NEW x \in b.txs \X {b}
        PROVE  x \in blocksByTransactions
    <3>1. x = <<x[1], b>> /\ x[1] \in b.txs
      OBVIOUS
    <3>2. \A t \in b.txs : <<t, b>> \in blocksByTransactions
      BY DEF IndexInv, TransactionsIndexed
    <3> QED
      BY <3>1, <3>2
  <2> QED
    BY <2>1, <2>2
<1>3. receipts = UNION {b.txs : b \in {x \in blocksByHash : saving => x.number # length - 1}}
  BY DEF IndexInv, ReceiptsSaved, Saved
<1> QED
  BY <1>1, <1>2, <1>3 DEF IndexesExact

(* In every reachable state the indexes by hash and by transaction and the *)
(* receipts have exactly what the current chain has: nothing of a reverted *)
(* block stays behind in them, and nothing of a block that stays is lost.  *)
THEOREM IndexesAreExact == Spec => []IndexesExact
<1>1. Init => IndexInv
  BY DEF Init, IndexInv, TransactionsIndexed, TransactionsOnce, ReceiptsSaved, Saved
<1>2. IInv /\ IndexInv /\ [Next]_vars => IndexInv'
  <2> SUFFICES ASSUME IInv, IndexInv, [Next]_vars PROVE IndexInv'
    OBVIOUS
  <2>1. ASSUME UNCHANGED <<blocksByHash, blocksByTransactions, receipts, length, saving>>
        PROVE  IndexInv'
    BY <2>1 DEF IndexInv, TransactionsIndexed, TransactionsOnce, ReceiptsSaved, Saved
  <2>2. CASE UNCHANGED vars
    BY <2>1, <2>2 DEF vars, dataVars
  <2>3. ASSUME NEW n \in 0..(length - 1), GetBlock(n) PROVE IndexInv'
    BY <2>2, <2>3, FulfillIndexes DEF GetBlock
  <2>4. ASSUME NEW count \in Counts, NEW interval \in Intervals, NEW root \in Roots,
               ReserveBlocks(count, interval, root)
        PROVE  IndexInv'
    BY <2>4 DEF ReserveBlocks, IndexInv, TransactionsIndexed, TransactionsOnce,
                ReceiptsSaved, Saved
  <2>5. CASE TakeSnapshot
    BY <2>1, <2>5 DEF TakeSnapshot, dataVars
  <2> QED
    BY <2>2, <2>3, <2>4, <2>5, AddIndexes, SaveIndexes, RevertIndexes DEF Next
<1>3. IInv /\ IndexInv => IndexesExact
  BY IndexInvSuffices
<1> QED
  BY <1>1, <1>2, <1>3, Invariance, PTL DEF Spec

-----------------------------------------------------------------------------
(* The refinement.  View is restated over arguments, so that facts about   *)
(* it hold of a state and of the next one.                                 *)

HeaderOf(b) == [timestamp |-> b.timestamp, root |-> b.root, fee |-> b.fee, td |-> b.td]

ReservedHeader(numbers, q, m) ==
  [timestamp |-> numbers[q.first - 1].timestamp + q.interval * (m - q.first + 1),
   root |-> q.root, fee |-> q.fee, td |-> q.td]

ViewOf(numbers, reserved, m) ==
  IF m \in DOMAIN numbers
    THEN HeaderOf(numbers[m])
    ELSE ReservedHeader(numbers, CHOOSE q \in reserved : Covers(q, m), m)

(* View is ViewOf, in a state and in the next one. *)
LEMMA ViewIsViewOf ==
  ASSUME NEW m
  PROVE  /\ View(m) = ViewOf(blocksByNumber, blockReservations, m)
         /\ View(m)' = ViewOf(blocksByNumber', blockReservations', m)
BY DEF View, ViewOf, HeaderOf, ReservedHeader, Real, ReservationOf, ReservedBlock,
       ReservedTimestamp, Covers

(* The view of a number in one reservation is computed from it. *)
LEMMA ViewOfReserved ==
  ASSUME NEW numbers, NEW reserved, NEW m, m \notin DOMAIN numbers,
         NEW q \in reserved, Covers(q, m),
         \A p \in reserved : Covers(p, m) => p = q
  PROVE  ViewOf(numbers, reserved, m) = ReservedHeader(numbers, q, m)
<1>1. (CHOOSE p \in reserved : Covers(p, m)) = q
  OBVIOUS
<1> QED
  BY <1>1 DEF ViewOf

(* numbers and reserved describe m as a block, or by one reservation. *)
Settled(numbers, reserved, m) ==
  \/ m \in DOMAIN numbers
  \/ /\ m \notin DOMAIN numbers
     /\ \E q \in reserved : /\ Covers(q, m)
                            /\ q.first - 1 \in DOMAIN numbers
                            /\ \A p \in reserved : Covers(p, m) => p = q

(* In a state of the invariant every number of the chain is settled. *)
LEMMA NumbersSettled ==
  ASSUME IInv, NEW m \in 0..(length - 1)
  PROVE  Settled(blocksByNumber, blockReservations, m)
<1>1. CASE Real(m)
  BY <1>1 DEF Settled, Real
<1>2. CASE ~Real(m)
  <2>1. m \in Nat /\ IsReservedBlock(m)
    BY <1>2 DEF IInv, TypeOK, EveryNumberOnce
  <2>2. PICK q \in blockReservations : Covers(q, m)
    BY <2>1 DEF IsReservedBlock
  <2>3. \A p \in blockReservations : Covers(p, m) => p = q
    BY <2>1, <2>2, ReservationUnique
  <2>4. q.first - 1 \in DOMAIN blocksByNumber
    BY <2>2, ReservationFields DEF Real
  <2> QED
    BY <1>2, <2>2, <2>3, <2>4 DEF Settled, Real
<1> QED
  BY <1>1, <1>2

(* A step that keeps the block or the reservation of m, and the block      *)
(* before the reservation, keeps the view of m.                            *)
LEMMA ViewKept ==
  ASSUME NEW N, NEW R, NEW N2, NEW R2, NEW m,
         Settled(N, R, m),
         m \in DOMAIN N => m \in DOMAIN N2 /\ N2[m] = N[m],
         m \notin DOMAIN N => m \notin DOMAIN N2,
         \A q \in R : Covers(q, m) /\ m \notin DOMAIN N =>
           /\ q \in R2
           /\ q.first - 1 \in DOMAIN N => N2[q.first - 1] = N[q.first - 1]
           /\ \A p \in R2 : Covers(p, m) => p = q
  PROVE  ViewOf(N2, R2, m) = ViewOf(N, R, m)
<1>1. CASE m \in DOMAIN N
  BY <1>1 DEF ViewOf
<1>2. CASE m \notin DOMAIN N
  <2>1. PICK q \in R : /\ Covers(q, m)
                       /\ q.first - 1 \in DOMAIN N
                       /\ \A p \in R : Covers(p, m) => p = q
    BY <1>2 DEF Settled
  <2>2. ViewOf(N, R, m) = ReservedHeader(N, q, m)
    BY <1>2, <2>1, ViewOfReserved
  <2>3. q \in R2 /\ N2[q.first - 1] = N[q.first - 1] /\ m \notin DOMAIN N2
        /\ \A p \in R2 : Covers(p, m) => p = q
    BY <1>2, <2>1
  <2>4. ViewOf(N2, R2, m) = ReservedHeader(N2, q, m)
    BY <2>1, <2>3, ViewOfReserved
  <2> QED
    BY <2>2, <2>3, <2>4 DEF ReservedHeader
<1> QED
  BY <1>1, <1>2

(* Making a reserved block changes no view: neither of that block, nor of  *)
(* the other blocks of the reservation it was in, nor of any other.        *)
LEMMA FulfillView ==
  ASSUME IInv, NEW n \in 0..(length - 1), FulfillBlockReservation(n),
         NEW m \in 0..(length - 1)
  PROVE  View(m)' = View(m)
<1> DEFINE r == ReservationOf(n)
           b == ReservedBlock(r, n)
           early == [r EXCEPT !.last = n - 1]
           late == [r EXCEPT !.first = n + 1]
           N == blocksByNumber
           R == blockReservations
           N2 == blocksByNumber'
           R2 == blockReservations'
<1>1. SplitFacts(n, r, b, early, late)
  BY FulfillFacts
<1> HIDE DEF r, b, early, late
<1>2. n \in Nat /\ m \in Nat
  BY DEF IInv, TypeOK
<1>3. /\ r \in R /\ Covers(r, n) /\ n \notin DOMAIN N
      /\ b = ReservedBlock(r, n)
      /\ DOMAIN N2 = DOMAIN N \cup {n} /\ N2[n] = b
      /\ \A i \in DOMAIN N : N2[i] = N[i]
  BY <1>1 DEF SplitFacts, Real
<1>4. /\ r.first \in Nat /\ r.last \in Nat /\ r.interval \in Nat
      /\ r.first - 1 \in DOMAIN N /\ N[r.first - 1].timestamp \in Nat
      /\ r.first <= n /\ n <= r.last
  BY <1>3, ReservationFields DEF Covers, Real
<1>5. Settled(N, R, m)
  BY NumbersSettled
<1>6. \A p \in R : Covers(p, m) /\ Covers(r, m) => p = r
  BY <1>2, <1>3, ReservationUnique
<1>7. \A p \in R2 : Covers(p, m) =>
        /\ m # n
        /\ \/ p \in R /\ p # r /\ ~Covers(r, m)
           \/ p = early /\ m < n /\ Covers(r, m)
           \/ p = late /\ m > n /\ Covers(r, m)
  BY <1>1, <1>2, FulfillCovers
<1>8. ViewOf(N2, R2, m) = ViewOf(N, R, m)
  <2>1. CASE m = n
    <3>1. ViewOf(N2, R2, m) = HeaderOf(b)
      BY <2>1, <1>3 DEF ViewOf
    <3>2. ViewOf(N, R, m) = ReservedHeader(N, r, m)
      BY <2>1, <1>3, <1>6, ViewOfReserved
    <3> QED
      BY <2>1, <3>1, <3>2, <1>3 DEF HeaderOf, ReservedHeader, ReservedBlock, ReservedTimestamp
  <2>2. CASE m # n /\ (m \in DOMAIN N \/ ~Covers(r, m))
    <3>1. m \in DOMAIN N => m \in DOMAIN N2 /\ N2[m] = N[m]
      BY <1>3
    <3>2. m \notin DOMAIN N => m \notin DOMAIN N2
      BY <2>2, <1>3
    <3>3. ASSUME NEW q \in R, Covers(q, m), m \notin DOMAIN N
          PROVE  /\ q \in R2
                 /\ q.first - 1 \in DOMAIN N => N2[q.first - 1] = N[q.first - 1]
                 /\ \A p \in R2 : Covers(p, m) => p = q
      <4>1. q # r /\ q \in R2
        BY <2>2, <3>3, <1>1 DEF SplitFacts
      <4>2. \A p \in R2 : Covers(p, m) => p = q
        BY <2>2, <3>3, <1>2, <1>7, ReservationUnique
      <4> QED
        BY <4>1, <4>2, <1>3
    <3> QED
      BY <3>1, <3>2, <3>3, <1>5, ViewKept
  <2>3. CASE m # n /\ m \notin DOMAIN N /\ Covers(r, m)
    <3>1. ViewOf(N, R, m) = ReservedHeader(N, r, m)
      BY <2>3, <1>3, <1>6, ViewOfReserved
    <3>2. m \notin DOMAIN N2
      BY <2>3, <1>3
    <3>3. CASE m < n
      <4>1. /\ early \in R2 /\ early.first = r.first /\ early.last = n - 1
            /\ early.interval = r.interval
            /\ early.root = r.root /\ early.fee = r.fee /\ early.td = r.td
        BY <2>3, <3>3, <1>1, <1>2, <1>4 DEF SplitFacts, Covers
      <4>2. Covers(early, m)
        BY <2>3, <3>3, <4>1, <1>2, <1>4 DEF Covers
      <4>3. \A p \in R2 : Covers(p, m) => p = early
        BY <2>3, <3>3, <1>2, <1>7
      <4>4. ViewOf(N2, R2, m) = ReservedHeader(N2, early, m)
        BY <3>2, <4>1, <4>2, <4>3, ViewOfReserved
      <4>5. N2[early.first - 1] = N[r.first - 1]
        BY <4>1, <1>3, <1>4
      <4> QED
        BY <3>1, <4>1, <4>4, <4>5 DEF ReservedHeader
    <3>4. CASE m > n
      <4>1. /\ late \in R2 /\ late.first = n + 1 /\ late.last = r.last
            /\ late.interval = r.interval
            /\ late.root = r.root /\ late.fee = r.fee /\ late.td = r.td
        BY <2>3, <3>4, <1>1, <1>2, <1>4 DEF SplitFacts, Covers
      <4>2. Covers(late, m)
        BY <2>3, <3>4, <4>1, <1>2, <1>4 DEF Covers
      <4>3. \A p \in R2 : Covers(p, m) => p = late
        BY <2>3, <3>4, <1>2, <1>7
      <4>4. ViewOf(N2, R2, m) = ReservedHeader(N2, late, m)
        BY <3>2, <4>1, <4>2, <4>3, ViewOfReserved
      <4>5. N2[late.first - 1].timestamp = N[r.first - 1].timestamp + r.interval * (n - r.first + 1)
        <5>1. late.first - 1 = n
          BY <4>1, <1>2
        <5> QED
          BY <5>1, <1>3 DEF ReservedBlock, ReservedTimestamp
      <4>6. N2[late.first - 1].timestamp + late.interval * (m - late.first + 1)
              = N[r.first - 1].timestamp + r.interval * (m - r.first + 1)
        <5>1. N[r.first - 1].timestamp + r.interval * (n - r.first + 1)
                + r.interval * (m - (n + 1) + 1)
              = N[r.first - 1].timestamp + r.interval * (m - r.first + 1)
          <6> DEFINE base == N[r.first - 1].timestamp
                     i == r.interval
                     f == r.first
          <6>1. base \in Nat /\ i \in Nat /\ f \in Nat /\ n \in Nat /\ m \in Nat
            BY <1>2, <1>4
          <6> HIDE DEF base, i, f
          <6>2. base + i * (n - f + 1) + i * (m - (n + 1) + 1) = base + i * (m - f + 1)
            BY <6>1, SplitTime
          <6> QED
            BY <6>2 DEF base, i, f
        <5>2. late.interval * (m - late.first + 1) = r.interval * (m - (n + 1) + 1)
          BY <4>1, Zenon
        <5> HIDE DEF N, N2
        <5> QED
          BY <5>1, <5>2, <4>5, Zenon
      <4> QED
        BY <3>1, <4>1, <4>4, <4>6 DEF ReservedHeader
    <3> QED
      BY <2>3, <3>3, <3>4, <1>2
  <2> QED
    BY <2>1, <2>2, <2>3
<1> QED
  BY <1>8, ViewIsViewOf

(* Mining a block changes no earlier view, and adds the view of its own    *)
(* header.                                                                 *)
LEMMA AddView ==
  ASSUME IInv,
         NEW timestamp \in Timestamps, NEW root \in Roots, NEW fee \in Fees,
         NEW difficulty \in Difficulties, NEW txs \in SUBSET Txs,
         AddBlock(timestamp, root, fee, difficulty, txs)
  PROVE  /\ length' = length + 1
         /\ \A m \in 0..(length - 1) : View(m)' = View(m)
         /\ \A m \in {length} :
              View(m)' = [timestamp |-> timestamp, root |-> root, fee |-> fee,
                          td |-> View(length - 1).td + difficulty]
<1> DEFINE b == [number |-> length, timestamp |-> timestamp, root |-> root, fee |-> fee,
                 td |-> blocksByNumber[length - 1].td + difficulty, txs |-> txs]
           N == blocksByNumber
           N2 == blocksByNumber'
           R == blockReservations
<1>1. /\ length' = length + 1 /\ blockReservations' = R /\ length - 1 \in DOMAIN N
      /\ N2 = [n \in DOMAIN N \cup {length} |-> IF n = length THEN b ELSE N[n]]
  BY DEF AddBlock, DataAddBlock, Real
<1>2. length \in Nat /\ DOMAIN N \subseteq Nat
  BY DEF IInv, TypeOK
<1>3. /\ DOMAIN N2 = DOMAIN N \cup {length} /\ N2[length] = b
      /\ \A n \in DOMAIN N : n # length => N2[n] = N[n]
  BY <1>1
<1>4. \A n \in DOMAIN N : n # length
  BY <1>2 DEF IInv, EveryNumberOnce
<1>5. ASSUME NEW m \in 0..(length - 1) PROVE View(m)' = View(m)
  <2>1. m # length /\ m \in Nat
    BY <1>2
  <2>2. Settled(N, R, m)
    BY NumbersSettled
  <2>3. ASSUME NEW q \in R, Covers(q, m), NEW p \in R, Covers(p, m) PROVE p = q
    BY <2>1, <2>3, ReservationUnique
  <2>4. ViewOf(N2, R, m) = ViewOf(N, R, m)
    BY <1>3, <1>4, <2>1, <2>2, <2>3, ViewKept
  <2> QED
    BY <1>1, <2>4, ViewIsViewOf
<1>6. ASSUME NEW m \in {length} PROVE View(m)' = HeaderOf(b)
  <2>1. ViewOf(N2, R, m) = HeaderOf(b)
    BY <1>3 DEF ViewOf
  <2> QED
    BY <1>1, <2>1, ViewIsViewOf
<1>7. View(length - 1).td = N[length - 1].td
  BY <1>1 DEF View, Real
<1> QED
  BY <1>1, <1>5, <1>6, <1>7 DEF HeaderOf

(* Reserving blocks changes no earlier view, and adds those of a run of    *)
(* empty blocks.                                                           *)
LEMMA ReserveView ==
  ASSUME IInv, NEW count \in Counts, NEW interval \in Intervals, NEW root \in Roots,
         ReserveBlocks(count, interval, root)
  PROVE  /\ length' = length + count
         /\ \A m \in 0..(length - 1) : View(m)' = View(m)
         /\ \A m \in length..(length + count - 1) :
              View(m)' = [timestamp |-> View(length - 1).timestamp
                                          + interval * (m - length + 1),
                          root |-> root, fee |-> View(length - 1).fee,
                          td |-> View(length - 1).td]
<1> DEFINE N == blocksByNumber
           R == blockReservations
           R2 == blockReservations'
           r == [first |-> length, last |-> length + count - 1, interval |-> interval,
                 root |-> root, td |-> N[length - 1].td, fee |-> N[length - 1].fee]
<1>1. /\ length' = length + count /\ blocksByNumber' = N /\ length - 1 \in DOMAIN N
      /\ R2 = R \cup {r}
  BY DEF ReserveBlocks, Real
<1>2. length \in Nat /\ DOMAIN N \subseteq Nat /\ count \in Nat
  BY CountsAssumption DEF IInv, TypeOK
<1>3. /\ r.first = length /\ r.last = length + count - 1 /\ r.interval = interval
      /\ r.root = root /\ r.td = N[length - 1].td /\ r.fee = N[length - 1].fee
  OBVIOUS
<1> HIDE DEF r
<1>4. ASSUME NEW m \in 0..(length - 1) PROVE View(m)' = View(m)
  <2>1. m \in Nat /\ ~Covers(r, m)
    BY <1>2, <1>3 DEF Covers
  <2>2. Settled(N, R, m)
    BY NumbersSettled
  <2>3. ASSUME NEW q \in R, Covers(q, m), NEW p \in R2, Covers(p, m) PROVE p = q
    BY <1>1, <2>1, <2>3, ReservationUnique
  <2>4. ViewOf(N, R2, m) = ViewOf(N, R, m)
    BY <1>1, <2>2, <2>3, ViewKept
  <2> QED
    BY <1>1, <2>4, ViewIsViewOf
<1>5. /\ View(length - 1).timestamp = N[length - 1].timestamp
      /\ View(length - 1).fee = N[length - 1].fee
      /\ View(length - 1).td = N[length - 1].td
  BY <1>1 DEF View, Real
<1>6. ASSUME NEW m \in length..(length + count - 1)
      PROVE  View(m)' = [timestamp |-> View(length - 1).timestamp
                                         + interval * (m - length + 1),
                         root |-> root, fee |-> View(length - 1).fee,
                         td |-> View(length - 1).td]
  <2>1. m \in Nat /\ length <= m /\ Covers(r, m)
    BY <1>2, <1>3 DEF Covers
  <2>2. m \notin DOMAIN N
    BY <1>2, <2>1 DEF IInv, EveryNumberOnce
  <2>3. \A p \in R : ~Covers(p, m)
    BY <1>2, <2>1, ReservationFields DEF Covers
  <2>4. r \in R2 /\ \A p \in R2 : Covers(p, m) => p = r
    BY <1>1, <2>3
  <2>5. ViewOf(N, R2, m) = ReservedHeader(N, r, m)
    BY <2>1, <2>2, <2>4, ViewOfReserved
  <2>6. View(m)' = ReservedHeader(N, r, m)
    BY <1>1, <2>5, ViewIsViewOf
  <2> QED
    BY <2>6, <1>3, <1>5 DEF ReservedHeader
<1> QED
  BY <1>1, <1>4, <1>6

(* Reverting to a snapshot changes no view of the blocks it keeps. *)
LEMMA RevertView ==
  ASSUME IInv, NEW s \in snapshots, RevertToSnapshot(s)
  PROVE  \E k \in 0..(length - 1) :
           length' = k + 1 /\ \A m \in 0..k : View(m)' = View(m)
<1> DEFINE k == s.latestBlock.number
           kept == {i \in DOMAIN blocksByNumber : i < k + 1}
           N == blocksByNumber
           R == blockReservations
           N2 == blocksByNumber'
           R2 == blockReservations'
<1>1. /\ N2 = [n \in kept |-> N[n]] /\ R2 = {r \in R : r.last < k + 1}
      /\ length' = k + 1
  BY DEF RevertToSnapshot, DelBlock
<1>2. /\ k \in DOMAIN N /\ k \in Nat /\ k < length
      /\ length \in Nat /\ DOMAIN N \subseteq Nat
  BY DEF IInv, TypeOK, SnapshotsOrdered, EveryNumberOnce, Real
<1> HIDE DEF k
<1>3. DOMAIN N2 = kept /\ \A n \in kept : N2[n] = N[n]
  BY <1>1
<1>4. length' = k + 1 /\ k \in 0..(length - 1)
  BY <1>1, <1>2
<1>5. ASSUME NEW m \in 0..k PROVE View(m)' = View(m)
  <2>1. m \in Nat /\ m < k + 1 /\ m \in 0..(length - 1)
    BY <1>2
  <2>2. Settled(N, R, m)
    BY <2>1, NumbersSettled
  <2>3. m \in DOMAIN N => m \in DOMAIN N2 /\ N2[m] = N[m]
    BY <1>3, <2>1
  <2>4. m \notin DOMAIN N => m \notin DOMAIN N2
    BY <1>3
  <2>5. ASSUME NEW q \in R, Covers(q, m), m \notin DOMAIN N
        PROVE  /\ q \in R2
               /\ q.first - 1 \in DOMAIN N => N2[q.first - 1] = N[q.first - 1]
               /\ \A p \in R2 : Covers(p, m) => p = q
    <3>1. /\ q.first \in Nat /\ q.last \in Nat /\ q.first <= m
      BY <2>5, ReservationFields DEF Covers
    <3>2. ~Covers(q, k)
      BY <1>2 DEF IInv, EveryNumberOnce, IsReservedBlock
    <3>3. q.last < k + 1 /\ q.first - 1 < k + 1
      BY <1>2, <2>1, <3>1, <3>2 DEF Covers
    <3>4. \A p \in R2 : Covers(p, m) => p = q
      BY <1>1, <2>1, <2>5, ReservationUnique
    <3> QED
      BY <1>1, <1>3, <3>3, <3>4
  <2>6. ViewOf(N2, R2, m) = ViewOf(N, R, m)
    BY <2>2, <2>3, <2>4, <2>5, ViewKept
  <2> QED
    BY <2>6, ViewIsViewOf
<1> QED
  BY <1>4, <1>5

(* The first chain of the local blockchain is a first eager chain. *)
LEMMA InitStarts == Init => Abstract!Start
<1> SUFFICES ASSUME Init PROVE Abstract!Start
  OBVIOUS
<1>1. IInv
  BY InitEstablishes
<1>2. length = 1 /\ 0 \in DOMAIN blocksByNumber
  BY DEF Init
<1>3. blocksByNumber[0] \in Block
  BY <1>1, <1>2 DEF IInv, TypeOK
<1>4. View(0) \in Abstract!Header
  BY <1>2, <1>3 DEF View, Real, Block, Abstract!Header
<1>5. 0..(length - 1) = {0}
  BY <1>2
<1>6. [n \in 0..(length - 1) |-> View(n)] \in [{0} -> Abstract!Header]
  BY <1>4, <1>5
<1> QED
  BY <1>2, <1>6 DEF Abstract!Start

(* Adding a mined block is the Mine step of the eager chain. *)
LEMMA AddSteps ==
  ASSUME IInv, NEW timestamp \in Timestamps, NEW root \in Roots, NEW fee \in Fees,
         NEW difficulty \in Difficulties, NEW txs \in SUBSET Txs,
         AddBlock(timestamp, root, fee, difficulty, txs)
  PROVE  Abstract!Step
<1> DEFINE C == [n \in 0..(length - 1) |-> View(n)]
<1>0. length \in Nat \ {0}
  BY DEF IInv, TypeOK
<1> DEFINE header == [timestamp |-> timestamp, root |-> root, fee |-> fee,
                      td |-> C[length - 1].td + difficulty]
<1>1. C[length - 1] = View(length - 1)
  BY <1>0
<1>2. /\ length' = length + 1
      /\ \A m \in 0..(length - 1) : View(m)' = View(m)
      /\ \A m \in {length} : View(m)' = header
  BY <1>1, AddView
<1> HIDE DEF header
<1>3. \A m \in 0..(length' - 1) : View(m)' = IF m < length THEN C[m] ELSE header
  BY <1>0, <1>2
<1>4. 0..(length' - 1) = 0..(length + 1 - 1)
  <2>1. length' = length + 1 /\ length' \in Nat
    BY <1>0, <1>2
  <2> QED
    BY <1>0, <2>1
<1>5. C' = [m \in 0..(length + 1 - 1) |-> IF m < length THEN C[m] ELSE header]
  BY <1>3, <1>4
<1>6. Abstract!Mine(header)
  BY <1>2, <1>5 DEF Abstract!Mine, Abstract!Extended
<1> QED
  BY <1>6 DEF Abstract!Step, header

(* Reserving blocks is the MineRun step of the eager chain. *)
LEMMA ReserveSteps ==
  ASSUME IInv, NEW count \in Counts, NEW interval \in Intervals, NEW root \in Roots,
         ReserveBlocks(count, interval, root)
  PROVE  Abstract!Step
<1> DEFINE C == [n \in 0..(length - 1) |-> View(n)]
<1>0. length \in Nat \ {0}
  BY DEF IInv, TypeOK
<1> DEFINE last == C[length - 1]
           header(i) == [timestamp |-> last.timestamp + interval * i, root |-> root,
                         fee |-> last.fee, td |-> last.td]
<1>1. last = View(length - 1) /\ count \in Nat
  BY <1>0, CountsAssumption
<1> HIDE DEF last
<1>2. /\ length' = length + count
      /\ \A m \in 0..(length - 1) : View(m)' = View(m)
      /\ \A m \in length..(length + count - 1) : View(m)' = header(m - length + 1)
  BY <1>1, ReserveView
<1> HIDE DEF header
<1>3. \A m \in 0..(length + count - 1) :
        View(m)' = IF m < length THEN C[m] ELSE header(m - length + 1)
  BY <1>0, <1>1, <1>2
<1>4. 0..(length' - 1) = 0..(length + count - 1)
  <2>1. length' = length + count /\ length' \in Nat
    BY <1>0, <1>1, <1>2
  <2> QED
    BY <1>0, <1>1, <2>1
<1>5. C' = [m \in 0..(length + count - 1) |->
              IF m < length THEN C[m] ELSE header(m - length + 1)]
  BY <1>3, <1>4
<1>6. Abstract!MineRun(count, interval, root)
  BY <1>2, <1>5 DEF Abstract!MineRun, Abstract!Extended, header, last
<1> QED
  BY <1>6 DEF Abstract!Step

(* Reverting to a snapshot is the Truncate step of the eager chain. *)
LEMMA RevertSteps ==
  ASSUME IInv, NEW s \in snapshots, RevertToSnapshot(s)
  PROVE  Abstract!Step
<1> DEFINE C == [n \in 0..(length - 1) |-> View(n)]
<1>0. length \in Nat \ {0}
  BY DEF IInv, TypeOK
<1>1. PICK k \in 0..(length - 1) :
        length' = k + 1 /\ \A m \in 0..k : View(m)' = View(m)
  BY RevertView
<1>2. ASSUME NEW m \in 0..k PROVE View(m)' = C[m]
  BY <1>0, <1>1
<1>3. 0..(length' - 1) = 0..k /\ 0..(k + 1 - 1) = 0..k /\ k + 1 \in 1..length
  <2>1. length' = k + 1 /\ k \in Nat
    BY <1>0, <1>1
  <2>2. length' - 1 = k /\ k + 1 - 1 = k
    BY <2>1
  <2> QED
    BY <1>0, <2>2
<1>4. C' = [m \in 0..(k + 1 - 1) |-> C[m]]
  BY <1>2, <1>3
<1>5. Abstract!Truncate(k + 1)
  BY <1>1, <1>4 DEF Abstract!Truncate
<1> QED
  BY <1>3, <1>5 DEF Abstract!Step

(* Every step of the local blockchain is a step of the eager chain, or     *)
(* leaves it unchanged.                                                    *)
LEMMA NextSteps ==
  ASSUME IInv, [Next]_vars
  PROVE  [Abstract!Step]_(Abstract!chainVars)
<1> DEFINE C == [n \in 0..(length - 1) |-> View(n)]
<1>1. length \in Nat \ {0}
  BY DEF IInv, TypeOK
<1>2. ASSUME length' = length, \A m \in 0..(length - 1) : View(m)' = View(m)
      PROVE  UNCHANGED Abstract!chainVars
  <2>1. C' = [n \in 0..(length - 1) |-> View(n)']
    BY <1>2
  <2>2. C' = C
    BY <2>1, <1>2
  <2> QED
    BY <1>2, <2>2 DEF Abstract!chainVars
<1>3. ASSUME UNCHANGED <<blocksByNumber, blockReservations, length>>
      PROVE  UNCHANGED Abstract!chainVars
  <2>1. \A m \in 0..(length - 1) : View(m)' = View(m)
    BY <1>3, ViewIsViewOf
  <2> QED
    BY <1>2, <1>3, <2>1
<1>4. ASSUME NEW n \in 0..(length - 1), FulfillBlockReservation(n)
      PROVE  UNCHANGED Abstract!chainVars
  <2>1. length' = length
    BY <1>4 DEF FulfillBlockReservation
  <2> QED
    BY <1>2, <1>4, <2>1, FulfillView
<1>5. CASE UNCHANGED vars
  BY <1>5, <1>3 DEF vars, dataVars
<1>6. CASE AddTransactionReceipts \/ TakeSnapshot
  BY <1>6, <1>3 DEF AddTransactionReceipts, TakeSnapshot, dataVars
<1> QED
  BY <1>4, <1>5, <1>6, AddSteps, ReserveSteps, RevertSteps DEF Next, GetBlock

(* The chain with reserved blocks implements the chain in which every      *)
(* block is made at once, for all timestamps, intervals and counts: no     *)
(* reader can tell that hardhat_mine reserves blocks.                      *)
THEOREM LazyChainIsEager == Spec => LazyIsEager
<1>1. Init => Abstract!Start
  BY InitStarts
<1>2. IInv /\ [Next]_vars => [Abstract!Step]_(Abstract!chainVars)
  BY NextSteps
<1> QED
  BY <1>1, <1>2, Invariance, PTL DEF Spec, LazyIsEager, Abstract!Eager

-----------------------------------------------------------------------------
(* The loop of _delBlock *)

(* Every nonempty set of natural numbers has a least element. *)
LEMMA LeastNat ==
  ASSUME NEW S \in SUBSET Nat, S # {}
  PROVE  \E n \in S : \A k \in S : n <= k
<1> DEFINE R == OpToRel(<, Nat)
<1>1. IsWellFoundedOn(R, Nat)
  BY NatLessThanWellFounded
<1>2. \A x, y \in Nat : x < y => <<x, y>> \in R
  BY DEF OpToRel
<1> HIDE DEF R
<1>3. \E n \in S : \A m \in S : ~(<<m, n>> \in R)
  BY <1>1, WFMin, Zenon
<1>4. PICK n \in S : \A m \in S : ~(<<m, n>> \in R)
  BY <1>3
<1>5. ASSUME NEW m \in S PROVE n <= m
  <2>1. ~(<<m, n>> \in R)
    BY <1>4
  <2>2. ~(m < n)
    BY <1>2, <2>1, Zenon
  <2> QED
    BY <2>2
<1> QED
  BY <1>5

(* h lists the first n iterations of step from start. *)
Iterates(h, n, start, step) ==
  h = [i \in 0..n |-> IF i = 0 THEN start ELSE step[h[i - 1]]]

(* The iterations of a function can be listed. *)
LEMMA IterationsExist ==
  ASSUME NEW n \in Nat, NEW start, NEW step
  PROVE  \E h : Iterates(h, n, start, step)
<1> DEFINE S == {m \in Nat : ~ \E h : Iterates(h, m, start, step)}
<1> SUFFICES ASSUME S # {} PROVE FALSE
  OBVIOUS
<1>1. S \in SUBSET Nat
  OBVIOUS
<1>2. PICK m \in S : \A k \in S : m <= k
  <2> HIDE DEF S
  <2> QED
    BY <1>1, LeastNat
<1>3. m \in Nat /\ ~ \E h : Iterates(h, m, start, step)
  BY <1>2
<1>4. CASE m = 0
  <2> DEFINE h == [i \in 0..0 |-> start]
  <2>1. Iterates(h, 0, start, step)
    BY DEF Iterates
  <2> QED
    BY <1>3, <1>4, <2>1
<1>5. CASE m # 0
  <2>1. m - 1 \in Nat /\ m - 1 \notin S
    <3>1. m - 1 \in Nat /\ ~(m <= m - 1)
      BY <1>3, <1>5
    <3> HIDE DEF S
    <3> QED
      BY <1>2, <3>1
  <2>2. PICK h : Iterates(h, m - 1, start, step)
    BY <2>1
  <2> DEFINE e == [i \in 0..m |-> IF i = m THEN step[h[m - 1]] ELSE h[i]]
  <2>3. ASSUME NEW i \in 0..m
        PROVE  e[i] = IF i = 0 THEN start ELSE step[e[i - 1]]
    <3>1. CASE i = m
      <4>1. m - 1 \in 0..m /\ m - 1 # m
        BY <1>3, <1>5
      <4> QED
        BY <1>5, <3>1, <4>1
    <3>2. CASE i # m /\ i = 0
      <4>1. i \in 0..(m - 1)
        BY <1>3, <1>5, <3>2
      <4> QED
        BY <2>2, <3>2, <4>1 DEF Iterates
    <3>3. CASE i # m /\ i # 0
      <4>1. i \in 0..(m - 1) /\ i - 1 \in 0..m /\ i - 1 # m
        BY <1>3, <1>5, <3>3
      <4>2. e[i] = h[i] /\ e[i - 1] = h[i - 1]
        BY <3>3, <4>1
      <4>3. h[i] = step[h[i - 1]]
        BY <2>2, <3>3, <4>1 DEF Iterates
      <4> QED
        BY <3>3, <4>2, <4>3
    <3> QED
      BY <3>1, <3>2, <3>3
  <2>4. e = [i \in 0..m |-> e[i]]
    OBVIOUS
  <2> HIDE DEF e
  <2>5. Iterates(e, m, start, step)
    BY <2>3, <2>4 DEF Iterates
  <2> QED
    BY <1>3, <2>5
<1> QED
  BY <1>4, <1>5

(* What holds at first, and of each iteration if it held before, holds of  *)
(* all of them.  After[i] has the states for which it holds after i.       *)
LEMMA IterationsStay ==
  ASSUME NEW n \in Nat, NEW h, NEW After, h[0] \in After[0],
         \A i \in 1..n : h[i - 1] \in After[i - 1] => h[i] \in After[i]
  PROVE  \A i \in 0..n : h[i] \in After[i]
<1> DEFINE S == {i \in 0..n : h[i] \notin After[i]}
<1> SUFFICES ASSUME S # {} PROVE FALSE
  OBVIOUS
<1>1. S \in SUBSET Nat
  OBVIOUS
<1>2. PICK m \in S : \A k \in S : m <= k
  <2> HIDE DEF S
  <2> QED
    BY <1>1, LeastNat
<1>3. m \in 0..n /\ h[m] \notin After[m]
  BY <1>2
<1>4. m # 0
  BY <1>3
<1>5. m - 1 \in 0..n /\ m \in 1..n /\ ~(m <= m - 1)
  BY <1>3, <1>4
<1>6. m - 1 \notin S
  <2> HIDE DEF S
  <2> QED
    BY <1>2, <1>5
<1>7. h[m - 1] \in After[m - 1]
  BY <1>5, <1>6
<1> QED
  BY <1>3, <1>5, <1>7

(* The states of the loop *)
LoopStates == [i : Nat, numbers : SUBSET Nat, reserved : SUBSET Reservation]

(* What holds when the loop of _delBlock(number) is at block number x.i:   *)
(* it has removed every block and reservation from number up to there, and *)
(* no reservation reaches over the place where it is.                      *)
DelInv(number, x) ==
  /\ x.i \in number..length
  /\ x.numbers = {n \in DOMAIN blocksByNumber : n < number \/ n >= x.i}
  /\ x.reserved = {r \in blockReservations : r.last < number \/ r.first >= x.i}
  /\ \A r \in blockReservations : r.last < x.i \/ r.first >= x.i

(* An iteration keeps the invariant of the loop, and advances. *)
LEMMA DelStepAdvances ==
  ASSUME IInv, NEW number \in Nat, NEW x \in LoopStates, DelInv(number, x)
  PROVE  LET y == DelStep(x, length - 1)
         IN  /\ y \in LoopStates
             /\ DelInv(number, y)
             /\ y.i >= length \/ y.i >= x.i + 1
<1> DEFINE y == DelStep(x, length - 1)
<1>1. /\ length \in Nat /\ DOMAIN blocksByNumber \in SUBSET Nat
      /\ \A r \in blockReservations : /\ r \in Reservation /\ r.first \in Nat /\ r.last \in Nat
                                      /\ r.first <= r.last /\ r.last < length
  BY DEF IInv, TypeOK, EveryNumberOnce, Reservation
<1>2. /\ x.i \in Nat /\ x.numbers \in SUBSET Nat /\ x.reserved \in SUBSET Reservation
      /\ x = [i |-> x.i, numbers |-> x.numbers, reserved |-> x.reserved]
  BY DEF LoopStates
<1>3. /\ x.i \in number..length
      /\ x.numbers = {n \in DOMAIN blocksByNumber : n < number \/ n >= x.i}
      /\ x.reserved = {r \in blockReservations : r.last < number \/ r.first >= x.i}
      /\ \A r \in blockReservations : r.last < x.i \/ r.first >= x.i
  BY DEF DelInv
<1> SUFFICES /\ y \in LoopStates
             /\ DelInv(number, y)
             /\ y.i >= length \/ y.i >= x.i + 1
  OBVIOUS
<1>4. CASE x.i > length - 1
  <2>1. y = x
    BY <1>4 DEF DelStep
  <2>2. x.i >= length
    BY <1>1, <1>2, <1>4
  <2> HIDE DEF y
  <2> QED
    BY <2>1, <2>2
<1>5. CASE ~(x.i > length - 1) /\ \E r \in x.reserved : Covers(r, x.i)
  <2> DEFINE r == CHOOSE q \in x.reserved : Covers(q, x.i)
  <2>1. r \in x.reserved /\ Covers(r, x.i)
    BY <1>5
  <2>2. y = [x EXCEPT !.i = r.last + 1, !.reserved = x.reserved \ {r}]
    BY <1>5 DEF DelStep
  <2> HIDE DEF r
  <2>3. y = [i |-> r.last + 1, numbers |-> x.numbers, reserved |-> x.reserved \ {r}]
    BY <1>2, <2>2
  <2> HIDE DEF y
  <2>4. /\ r \in blockReservations /\ r.first \in Nat /\ r.last \in Nat /\ r.last < length
        /\ r.first <= x.i /\ x.i <= r.last
    BY <1>1, <1>3, <2>1 DEF Covers
  <2>5. r.first = x.i
    BY <1>2, <1>3, <2>1, <2>4
  <2>6. y.i = r.last + 1 /\ y.numbers = x.numbers /\ y.reserved = x.reserved \ {r}
    BY <2>3
  <2>7. y \in LoopStates
    <3>1. r.last + 1 \in Nat
      BY <2>4
    <3> QED
      BY <1>2, <2>3, <3>1 DEF LoopStates
  <2>8. y.i \in number..length /\ y.i >= x.i + 1
    BY <1>1, <1>2, <1>3, <2>4, <2>6
  <2>9. \A n \in DOMAIN blocksByNumber : ~(x.i <= n /\ n <= r.last)
    <3> SUFFICES ASSUME NEW n \in DOMAIN blocksByNumber, x.i <= n /\ n <= r.last PROVE FALSE
      OBVIOUS
    <3>1. Covers(r, n)
      BY <2>5 DEF Covers
    <3> QED
      BY <2>4, <3>1 DEF IInv, EveryNumberOnce, IsReservedBlock
  <2>10. y.numbers = {n \in DOMAIN blocksByNumber : n < number \/ n >= y.i}
    <3>1. \A n \in DOMAIN blocksByNumber : (n >= x.i) <=> (n >= r.last + 1)
      BY <1>1, <1>2, <2>4, <2>9
    <3> QED
      BY <1>3, <2>6, <3>1
  <2>11. ASSUME NEW q \in blockReservations, q # r
         PROVE  /\ q.first >= x.i => q.first >= r.last + 1
                /\ q.last < r.last + 1 \/ q.first >= r.last + 1
    <3>1. q.first \in Nat /\ q.last \in Nat /\ q.first <= q.last
      BY <1>1
    <3>2. ~Covers(r, q.first)
      <4> SUFFICES ASSUME Covers(r, q.first) PROVE FALSE
        OBVIOUS
      <4>1. Covers(q, q.first)
        BY <3>1 DEF Covers
      <4> QED
        BY <2>4, <2>11, <3>1, <4>1, ReservationUnique
    <3>3. q.last < x.i \/ q.first >= x.i
      BY <1>3
    <3> QED
      BY <1>2, <2>4, <2>5, <3>1, <3>2, <3>3 DEF Covers
  <2>12. y.reserved = {q \in blockReservations : q.last < number \/ q.first >= y.i}
    <3>1. ASSUME NEW q
          PROVE  q \in x.reserved \ {r}
                   <=> q \in blockReservations /\ (q.last < number \/ q.first >= r.last + 1)
      <4>1. CASE q \notin blockReservations
        BY <1>3, <4>1
      <4>2. CASE q = r
        <5>1. ~(r.last < number) /\ ~(r.first >= r.last + 1)
          BY <1>2, <1>3, <2>4
        <5> QED
          BY <4>2, <5>1
      <4>3. CASE q \in blockReservations /\ q # r
        <5>1. q.first \in Nat
          BY <1>1, <4>3
        <5>2. (q.first >= x.i) <=> (q.first >= r.last + 1)
          BY <1>2, <2>4, <2>11, <4>3, <5>1
        <5>3. q \in x.reserved <=> (q.last < number \/ q.first >= x.i)
          BY <1>3, <4>3
        <5> QED
          BY <4>3, <5>2, <5>3
      <4> QED
        BY <4>1, <4>2, <4>3
    <3> QED
      BY <2>6, <3>1
  <2>13. \A q \in blockReservations : q.last < y.i \/ q.first >= y.i
    <3> SUFFICES ASSUME NEW q \in blockReservations
                 PROVE  q.last < r.last + 1 \/ q.first >= r.last + 1
      BY <2>6
    <3>1. CASE q = r
      BY <2>4, <3>1
    <3> QED
      BY <2>11, <3>1
  <2> QED
    BY <2>7, <2>8, <2>10, <2>12, <2>13 DEF DelInv
<1>6. CASE ~(x.i > length - 1) /\ ~ \E r \in x.reserved : Covers(r, x.i)
  <2>1. y = [x EXCEPT !.i = x.i + 1, !.numbers = x.numbers \ {x.i}]
    BY <1>6 DEF DelStep
  <2>2. y = [i |-> x.i + 1, numbers |-> x.numbers \ {x.i}, reserved |-> x.reserved]
    BY <1>2, <2>1
  <2> HIDE DEF y
  <2>3. y.i = x.i + 1 /\ y.numbers = x.numbers \ {x.i} /\ y.reserved = x.reserved
    BY <2>2
  <2>4. y \in LoopStates
    BY <1>2, <2>2 DEF LoopStates
  <2>5. y.i \in number..length
    BY <1>1, <1>2, <1>3, <1>6, <2>3
  <2>6. y.numbers = {n \in DOMAIN blocksByNumber : n < number \/ n >= y.i}
    <3>1. \A n \in DOMAIN blocksByNumber : (n < number \/ n >= x.i) /\ n # x.i
                                             <=> n < number \/ n >= x.i + 1
      BY <1>1, <1>2, <1>3
    <3> QED
      BY <1>3, <2>3, <3>1
  <2>7. \A q \in blockReservations : q.first >= x.i => q.first >= x.i + 1
    <3> SUFFICES ASSUME NEW q \in blockReservations, q.first = x.i PROVE FALSE
      BY <1>1, <1>2
    <3>1. Covers(q, x.i)
      BY <1>1, <1>2 DEF Covers
    <3>2. q \in x.reserved
      BY <1>2, <1>3
    <3> QED
      BY <1>6, <3>1, <3>2
  <2>8. y.reserved = {q \in blockReservations : q.last < number \/ q.first >= y.i}
    <3>1. \A q \in blockReservations : (q.first >= x.i) <=> (q.first >= x.i + 1)
      BY <1>1, <1>2, <2>7
    <3> QED
      BY <1>3, <2>3, <3>1
  <2>9. \A q \in blockReservations : q.last < y.i \/ q.first >= y.i
    <3> SUFFICES ASSUME NEW q \in blockReservations
                 PROVE  q.last < x.i + 1 \/ q.first >= x.i + 1
      BY <2>3
    <3>1. q.last < x.i \/ q.first >= x.i
      BY <1>3
    <3> QED
      BY <1>1, <1>2, <2>7, <3>1
  <2>10. y.i >= x.i + 1
    BY <1>2, <2>3
  <2> QED
    BY <2>4, <2>5, <2>6, <2>8, <2>9, <2>10 DEF DelInv
<1> QED
  BY <1>4, <1>5, <1>6

(* The loop of _delBlock(number), where the block before number exists,    *)
(* leaves the blocks and the reservations before number.                   *)
LEMMA DelLoopResult ==
  ASSUME IInv, NEW number \in Nat \ {0}, Real(number - 1)
  PROVE  LET loop == DelLoop(number, length - 1, DOMAIN blocksByNumber, blockReservations)
         IN  /\ loop.numbers = {n \in DOMAIN blocksByNumber : n < number}
             /\ loop.reserved = {r \in blockReservations : r.last < number}
<1> DEFINE start == [i |-> number, numbers |-> DOMAIN blocksByNumber,
                     reserved |-> blockReservations]
           step == [x \in LoopStates |-> DelStep(x, length - 1)]
           Runs(h) == h = [n \in 0..length |-> IF n = 0 THEN start
                                               ELSE DelStep(h[n - 1], length - 1)]
           After == [n \in 0..length |->
                       {x \in LoopStates : /\ DelInv(number, x)
                                           /\ x.i >= length \/ x.i >= n}]
           loop == DelLoop(number, length - 1, DOMAIN blocksByNumber, blockReservations)
           after == CHOOSE h : Runs(h)
<1>1. /\ length \in Nat \ {0} /\ DOMAIN blocksByNumber \in SUBSET Nat
      /\ blockReservations \in SUBSET Reservation
      /\ \A r \in blockReservations : /\ r \in Reservation /\ r.first \in Nat /\ r.last \in Nat
                                      /\ r.first <= r.last /\ r.last < length
  BY DEF IInv, TypeOK, EveryNumberOnce, Reservation
<1>2. number \in number..length /\ number - 1 \in DOMAIN blocksByNumber
  BY <1>1 DEF IInv, EveryNumberOnce, Real
<1>3. loop = after[length]
  <2>1. length - 1 + 1 = length
    BY <1>1
  <2> QED
    BY <2>1 DEF DelLoop
<1>4. \A r \in blockReservations : r.last < number \/ r.first >= number
  <2> SUFFICES ASSUME NEW r \in blockReservations, ~(r.last < number), ~(r.first >= number)
               PROVE  FALSE
    OBVIOUS
  <2>1. Covers(r, number - 1)
    BY <1>1 DEF Covers
  <2> QED
    BY <1>2, <2>1 DEF IInv, EveryNumberOnce, IsReservedBlock
<1>5. start \in LoopStates /\ DelInv(number, start)
  <2>1. start \in LoopStates
    BY <1>1 DEF LoopStates
  <2>2. start.i = number /\ start.numbers = DOMAIN blocksByNumber
        /\ start.reserved = blockReservations
    OBVIOUS
  <2> HIDE DEF start
  <2>3. start.numbers = {n \in DOMAIN blocksByNumber : n < number \/ n >= start.i}
    BY <1>1, <2>2
  <2>4. start.reserved = {r \in blockReservations : r.last < number \/ r.first >= start.i}
    BY <1>4, <2>2
  <2> QED
    BY <1>2, <1>4, <2>1, <2>2, <2>3, <2>4 DEF DelInv
<1>6. \A x \in LoopStates : DelInv(number, x) =>
        /\ DelStep(x, length - 1) \in LoopStates
        /\ DelInv(number, DelStep(x, length - 1))
        /\ DelStep(x, length - 1).i >= length \/ DelStep(x, length - 1).i >= x.i + 1
  BY DelStepAdvances
<1>7. start \in After[0]
  <2>1. start.i >= 0 /\ 0 \in 0..length
    BY <1>1
  <2> HIDE DEF start
  <2> QED
    BY <1>5, <2>1
<1>8. ASSUME NEW n \in 1..length, NEW x \in After[n - 1]
      PROVE  /\ x \in LoopStates /\ step[x] = DelStep(x, length - 1)
             /\ step[x] \in After[n]
  <2>1. n - 1 \in 0..length /\ n \in 0..length
    BY <1>1
  <2>2. x \in LoopStates /\ DelInv(number, x) /\ (x.i >= length \/ x.i >= n - 1)
    BY <1>8, <2>1
  <2>3. /\ step[x] = DelStep(x, length - 1)
        /\ step[x] \in LoopStates /\ DelInv(number, step[x])
        /\ step[x].i >= length \/ step[x].i >= x.i + 1
    BY <1>6, <2>2
  <2> HIDE DEF step
  <2>4. x.i \in Nat /\ step[x].i \in Nat
    BY <2>2, <2>3 DEF LoopStates
  <2>5. step[x].i >= length \/ step[x].i >= n
    <3>1. CASE step[x].i >= length
      BY <3>1
    <3>2. CASE step[x].i >= x.i + 1
      BY <1>1, <2>2, <2>4, <3>2
    <3> QED
      BY <2>3, <3>1, <3>2
  <2> QED
    BY <2>1, <2>2, <2>3, <2>5
<1> HIDE DEF start, step
<1>9. PICK h : Iterates(h, length, start, step)
  BY <1>1, IterationsExist
<1>10. h[0] = start /\ \A n \in 1..length : h[n] = step[h[n - 1]]
  BY <1>1, <1>9 DEF Iterates
<1>11. \A n \in 0..length : h[n] \in After[n]
  <2> HIDE DEF After
  <2> QED
    BY <1>1, <1>7, <1>8, <1>10, IterationsStay
<1>12. Runs(h)
  <2>1. ASSUME NEW n \in 0..length
        PROVE  h[n] = IF n = 0 THEN start ELSE DelStep(h[n - 1], length - 1)
    <3>1. CASE n = 0
      BY <1>10, <3>1
    <3>2. CASE n # 0
      <4>1. n \in 1..length /\ n - 1 \in 0..length
        BY <1>1, <3>2
      <4>2. h[n] = step[h[n - 1]] /\ h[n - 1] \in After[n - 1]
        BY <1>10, <1>11, <4>1
      <4>3. step[h[n - 1]] = DelStep(h[n - 1], length - 1)
        BY <1>8, <4>1, <4>2
      <4> QED
        BY <3>2, <4>2, <4>3
    <3> QED
      BY <3>1, <3>2
  <2>2. h = [n \in 0..length |-> h[n]]
    BY <1>9 DEF Iterates
  <2> QED
    BY <2>1, <2>2
<1>13. Runs(after)
  <2> HIDE DEF Runs
  <2> QED
    BY <1>12
<1> HIDE DEF after
<1>14. after[0] = start /\ \A n \in 1..length : after[n] = DelStep(after[n - 1], length - 1)
  BY <1>1, <1>13
<1>15. after[length] \in After[length]
  <2>1. \A n \in 1..length : after[n - 1] \in After[n - 1] => after[n] \in After[n]
    BY <1>8, <1>14
  <2>2. length \in 0..length
    BY <1>1
  <2> HIDE DEF After
  <2> QED
    BY <1>1, <1>7, <1>14, <2>1, <2>2, IterationsStay
<1>16. loop \in LoopStates /\ DelInv(number, loop) /\ loop.i >= length
  <2>1. length \in 0..length
    BY <1>1
  <2> HIDE DEF loop
  <2> QED
    BY <1>3, <1>15, <2>1
<1> HIDE DEF loop
<1>17. loop.i = length
  BY <1>1, <1>16 DEF DelInv
<1>18. loop.numbers = {n \in DOMAIN blocksByNumber : n < number}
  <2>1. \A n \in DOMAIN blocksByNumber : n < length /\ n \in Nat
    BY <1>1 DEF IInv, EveryNumberOnce
  <2> QED
    BY <1>1, <1>16, <1>17, <2>1 DEF DelInv
<1>19. loop.reserved = {r \in blockReservations : r.last < number}
  <2>1. \A r \in blockReservations : ~(r.first >= length)
    BY <1>1
  <2> QED
    BY <1>16, <1>17, <2>1 DEF DelInv
<1> QED
  BY <1>18, <1>19 DEF loop

(* Reverting to a snapshot removes exactly what the loop of _delBlock      *)
(* removes, for chains of any length and reservations split in any way:    *)
(* the block of the snapshot exists, so no reservation reaches over it.    *)
THEOREM RevertIsItsLoop == Spec => RevertMatchesLoop
<1> DEFINE A == \A snapshot \in snapshots :
                  RevertToSnapshot(snapshot) =>
                    LET loop == DelLoop(snapshot.latestBlock.number + 1, length - 1,
                                        DOMAIN blocksByNumber, blockReservations)
                    IN  /\ DOMAIN blocksByNumber' = loop.numbers
                        /\ blockReservations' = loop.reserved
<1>1. IInv => A
  <2> SUFFICES ASSUME IInv, NEW s \in snapshots, RevertToSnapshot(s)
               PROVE  LET loop == DelLoop(s.latestBlock.number + 1, length - 1,
                                          DOMAIN blocksByNumber, blockReservations)
                      IN  /\ DOMAIN blocksByNumber' = loop.numbers
                          /\ blockReservations' = loop.reserved
    OBVIOUS
  <2>1. PICK k \in Nat : k = s.latestBlock.number + 1 /\ k # 0 /\ Real(k - 1)
    <3>1. s.latestBlock.number \in Nat /\ Real(s.latestBlock.number)
      BY DEF IInv, TypeOK, SnapshotsOrdered, Real
    <3>2. s.latestBlock.number + 1 - 1 = s.latestBlock.number
      BY <3>1
    <3> QED
      BY <3>1, <3>2
  <2>2. /\ DOMAIN blocksByNumber' = {n \in DOMAIN blocksByNumber : n < k}
        /\ blockReservations' = {r \in blockReservations : r.last < k}
    BY <2>1 DEF RevertToSnapshot, DelBlock
  <2> QED
    BY <2>1, <2>2, DelLoopResult
<1>2. IInv /\ [Next]_vars => [A]_vars
  BY <1>1
<1> QED
  BY <1>2, Invariance, PTL DEF Spec, RevertMatchesLoop

=============================================================================
