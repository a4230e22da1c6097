----------------------------- MODULE BlockClock -----------------------------
(***************************************************************************)
(* The clock of HardhatNode (node.ts) and the timestamps it gives blocks.  *)
(*                                                                         *)
(* A block is stamped with the wall clock, in seconds and rounded up, plus *)
(* _blockTimeOffsetSeconds, unless the user chose its timestamp; a chosen  *)
(* timestamp moves the offset.  hardhat_mine mines a batch of blocks while *)
(* the wall clock goes on, and evm_revert goes back to an earlier clock.   *)
(*                                                                         *)
(* The wall clock is in milliseconds and is assumed never to go back.  A   *)
(* timestamp of 0 means that none is given, as in the code.  The block in  *)
(* which a "pending" request runs (_runInPendingBlockContext) is the       *)
(* sequence Snapshot, Mine(0), Revert of the actions below, and automining *)
(* a transaction is Mine(0), between Snapshot and Revert or RemoveSnapshot *)
(* when the pool is not empty.                                             *)
(***************************************************************************)
EXTENDS Integers, Sequences

CONSTANTS
  AllowSame,          \* _allowBlocksWithSameTimestamp
  StartDates,         \* the wall clock, in ms, when the node is created
  InitialDates,       \* config.initialDate, or the date of the forked block
  Steps,              \* by how many ms the wall clock may advance at once
  Increments,         \* the arguments of evm_increaseTime
  Ahead,              \* how far ahead of the last block a user may ask
  Counts,             \* the numbers of blocks hardhat_mine is called with
  Intervals,          \* the intervals hardhat_mine is called with
  ReserveThreshold,   \* fewer blocks than this are not reserved (5)
  MaxDate,            \* bound on the wall clock
  MaxClock,           \* bound on the clock of the node
  MaxBlocks,          \* bound on the length of the chain
  MaxSnapshots        \* bound on the number of live snapshots

ASSUME AllowSameAssumption == AllowSame \in BOOLEAN
\* The code reads the timestamp 0, the first second of 1970, as none.
ASSUME DatesAssumption ==
  /\ StartDates \subseteq Nat \ {0}
  /\ InitialDates \subseteq {date \in Nat : date >= 1000}
  /\ Steps \subseteq Nat
ASSUME IncrementsAssumption == Increments \subseteq Int
ASSUME AheadAssumption == Ahead \subseteq Int
ASSUME CountsAssumption == Counts \subseteq Nat \ {0}
ASSUME IntervalsAssumption == Intervals \subseteq Nat
ASSUME ThresholdAssumption == ReserveThreshold \in Nat \ {0}
ASSUME LimitsAssumption ==
  /\ MaxDate \in Nat
  /\ MaxClock \in Nat
  /\ MaxBlocks \in Nat
  /\ MaxSnapshots \in Nat

VARIABLES
  now,             \* the wall clock, in ms
  offset,          \* _blockTimeOffsetSeconds
  nextTimestamp,   \* _nextBlockTimestamp
  times,           \* the timestamps of the chain, reserved blocks included
  job,             \* the hardhat_mine in progress, or the one just answered
  snapshots        \* _snapshots

vars == <<now, offset, nextTimestamp, times, job, snapshots>>

-----------------------------------------------------------------------------
(* Milliseconds to seconds.                                                *)

\* Math.floor(x / 1000)
Floor(x) == x \div 1000

\* Math.ceil(x / 1000)
Ceil(x) == -((-x) \div 1000)

\* What the node takes the current time to be.
Clock == Ceil(now) + offset

Last == times[Len(times)]

NoJob == [stage |-> "none", first |-> 0, count |-> 0, left |-> 0,
          interval |-> 0]

\* The provider handles one request at a time (module Provider), so no
\* other request is handled while hardhat_mine is in progress.
Idle == job.left = 0

-----------------------------------------------------------------------------
Init ==
  /\ now \in StartDates
  /\ nextTimestamp = 0
  /\ job = NoJob
  /\ snapshots = << >>
  /\ \/ /\ offset = 0
        /\ times = <<Ceil(now)>>
     \/ \E date \in InitialDates :
          /\ offset = Floor(date - now)
          /\ times = <<Floor(date)>>

\* A mineBlock that does not look at the previous block.
MineBlockUnchecked(timestamp) ==
  LET given == timestamp # 0 \/ nextTimestamp # 0
      wanted == IF timestamp # 0 THEN timestamp
                ELSE IF nextTimestamp # 0 THEN nextTimestamp
                ELSE Clock
  IN  /\ times' = Append(times, wanted)
      /\ offset' = IF given THEN wanted - Ceil(now) ELSE offset
      /\ nextTimestamp' = 0

\* mineBlock(timestamp), when it succeeds.  The offset is set last, so it
\* forgets the second added for a timestamp that clashes.
MineBlock(timestamp) ==
  LET given == timestamp # 0 \/ nextTimestamp # 0
      wanted == IF timestamp # 0 THEN timestamp
                ELSE IF nextTimestamp # 0 THEN nextTimestamp
                ELSE Clock
      clashes == ~AllowSame /\ wanted = Last
  IN  /\ times' = Append(times, IF clashes THEN wanted + 1 ELSE wanted)
      /\ offset' = IF given THEN wanted - Ceil(now)
                   ELSE IF clashes THEN offset + 1
                   ELSE offset
      /\ nextTimestamp' = 0

\* The wall clock goes on, at any moment.
Tick(ms) ==
  /\ now + ms <= MaxDate
  /\ now' = now + ms
  /\ UNCHANGED <<offset, nextTimestamp, times, job, snapshots>>

\* evm_increaseTime
IncreaseTime(seconds) ==
  /\ Idle
  /\ Clock + seconds <= MaxClock
  /\ offset' = offset + seconds
  /\ job' = NoJob
  /\ UNCHANGED <<now, nextTimestamp, times, snapshots>>

\* evm_setNextBlockTimestamp, when it accepts the timestamp
SetNextBlockTimestamp(timestamp) ==
  /\ Idle
  /\ timestamp - Last >= 0
  /\ AllowSame \/ timestamp - Last # 0
  /\ nextTimestamp' = timestamp
  /\ job' = NoJob
  /\ UNCHANGED <<now, offset, times, snapshots>>

\* evm_mine, an interval block or an automined block
Mine(timestamp) ==
  /\ Idle
  /\ Len(times) < MaxBlocks
  /\ timestamp = 0 \/ timestamp - Last > 0
  /\ MineBlock(timestamp)
  /\ job' = NoJob
  /\ UNCHANGED <<now, snapshots>>

-----------------------------------------------------------------------------
(* mineBlocks(count, interval), the handler of hardhat_mine.               *)

MineBlocks(count, interval) ==
  /\ Idle
  /\ Len(times) + count <= MaxBlocks
  /\ job' = [stage |-> "first", first |-> Len(times), count |-> count,
             left |-> count, interval |-> interval]
  /\ UNCHANGED <<now, offset, nextTimestamp, times, snapshots>>

\* One block of the batch is mined; the batch goes on with stage.
MineOfBatch(timestamp, stage) ==
  /\ MineBlock(timestamp)
  /\ job' = [job EXCEPT !.left = @ - 1, !.stage = stage]
  /\ UNCHANGED <<now, snapshots>>

\* The first block does not respect the interval.
MineFirst ==
  /\ ~Idle
  /\ job.stage = "first"
  /\ MineOfBatch(0, "pending")

\* A block with pending transactions, as long as there are some.
MinePending ==
  /\ ~Idle
  /\ job.stage = "pending"
  /\ MineOfBatch(Last + job.interval, "pending")

\* The empty block before the reservation.
MineBeforeReservation ==
  /\ ~Idle
  /\ job.stage = "pending"
  /\ MineOfBatch(Last + job.interval, "rest")

\* The blocks that are left are few, or only the one after the reservation.
MineRest ==
  /\ ~Idle
  /\ job.stage = "rest"
  /\ job.left <= ReserveThreshold
  /\ MineOfBatch(Last + job.interval, "rest")

\* A reservation of all the blocks that are left.
ReserveAllBlocks ==
  /\ job.stage = "rest"
  /\ job.left > ReserveThreshold
  /\ times' = times \o [i \in 1..job.left |-> Last + i * job.interval]
  /\ job' = [job EXCEPT !.left = 1]
  /\ UNCHANGED <<now, offset, nextTimestamp, snapshots>>

\* All the blocks that are left but one are reserved.
ReserveBlocks ==
  /\ job.stage = "rest"
  /\ job.left > ReserveThreshold
  /\ times' = times \o [i \in 1..(job.left - 1) |-> Last + i * job.interval]
  /\ job' = [job EXCEPT !.left = 1]
  /\ UNCHANGED <<now, offset, nextTimestamp, snapshots>>

\* A block with transactions cannot be mined (a sender without funds, an
\* error of the fork): the blocks mined so far remain.
MineFails ==
  /\ ~Idle
  /\ job.stage \in {"first", "pending"}
  /\ job' = NoJob
  /\ UNCHANGED <<now, offset, nextTimestamp, times, snapshots>>

-----------------------------------------------------------------------------
(* Snapshots.                                                              *)

\* takeSnapshot
Snapshot ==
  /\ Idle
  /\ Len(snapshots) < MaxSnapshots
  /\ snapshots' = Append(snapshots,
       [date |-> now, length |-> Len(times), offset |-> offset,
        nextTimestamp |-> nextTimestamp])
  /\ job' = NoJob
  /\ UNCHANGED <<now, offset, nextTimestamp, times>>

\* A revert that rounds down, and one that forgets that time has passed.
RevertRoundingDown(i) ==
  /\ Idle
  /\ offset' = snapshots[i].offset + Floor(snapshots[i].date - now)
  /\ nextTimestamp' = snapshots[i].nextTimestamp
  /\ times' = SubSeq(times, 1, snapshots[i].length)
  /\ snapshots' = SubSeq(snapshots, 1, i - 1)
  /\ job' = NoJob
  /\ UNCHANGED now

RevertOffsetOnly(i) ==
  /\ Idle
  /\ offset' = snapshots[i].offset
  /\ nextTimestamp' = snapshots[i].nextTimestamp
  /\ times' = SubSeq(times, 1, snapshots[i].length)
  /\ snapshots' = SubSeq(snapshots, 1, i - 1)
  /\ job' = NoJob
  /\ UNCHANGED now

\* revertToSnapshot of the i-th live snapshot
Revert(i) ==
  /\ Idle
  /\ offset' = snapshots[i].offset + Ceil(snapshots[i].date - now)
  /\ nextTimestamp' = snapshots[i].nextTimestamp
  /\ times' = SubSeq(times, 1, snapshots[i].length)
  /\ snapshots' = SubSeq(snapshots, 1, i - 1)
  /\ job' = NoJob
  /\ UNCHANGED now

\* _removeSnapshot, after a transaction was automined with pending ones
RemoveSnapshot(i) ==
  /\ Idle
  /\ snapshots' = SubSeq(snapshots, 1, i - 1)
  /\ job' = NoJob
  /\ UNCHANGED <<now, offset, nextTimestamp, times>>

Next ==
  \/ \E ms \in Steps : Tick(ms)
  \/ \E seconds \in Increments : IncreaseTime(seconds)
  \/ \E d \in Ahead : SetNextBlockTimestamp(Last + d)
  \/ Mine(0)
  \/ \E d \in Ahead : Mine(Last + d)
  \/ \E count \in Counts, interval \in Intervals : MineBlocks(count, interval)
  \/ MineFirst
  \/ MinePending
  \/ MineBeforeReservation
  \/ MineRest
  \/ ReserveBlocks
  \/ MineFails
  \/ Snapshot
  \/ \E i \in 1..Len(snapshots) : Revert(i) \/ RemoveSnapshot(i)

Spec == Init /\ [][Next]_vars

-----------------------------------------------------------------------------
(* Properties.                                                             *)

TypeOK ==
  /\ now \in Nat
  /\ offset \in Int
  /\ nextTimestamp \in Int
  /\ times \in Seq(Int)
  /\ Len(times) > 0
  /\ job \in [stage : {"none", "first", "pending", "rest"}, first : Nat,
              count : Nat, left : Nat, interval : Nat]
  /\ snapshots \in Seq([date : Nat, length : Nat, offset : Int,
                        nextTimestamp : Int])

\* The inputs under which time goes forward.  The code takes others too: a
\* negative evm_increaseTime, and an interval of 0 although blocks with the
\* same timestamp are not allowed.
Forward == Increments \subseteq Nat /\ (AllowSame \/ 0 \notin Intervals)

Later(a, b) == IF AllowSame THEN a <= b ELSE a < b

\* Every block is later than all the blocks before it (or, if the network is
\* configured to allow it, not earlier), whatever mix of wall clock, time
\* increases, chosen timestamps, batches and reverts made them: the rule of
\* mineBlock, node.ts:508-514.
TimestampsIncrease ==
  \A i, j \in 1..Len(times) : i < j => Later(times[i], times[j])

\* The clock has never been left behind the last block, so the next block
\* needs no more than the one second that mineBlock adds on a clash
\* (node.ts:512-514): mineBlock checks equality only, and would accept an
\* earlier timestamp.  Only before the last block of a batch may the chain be
\* ahead, by the blocks that were reserved; that block catches up.
ClockNotBehind ==
  ~(job.stage = "rest" /\ job.left = 1) => Last <= Clock

\* hardhat_mine adds the number of blocks it was asked for, and all of them
\* after the first are exactly the interval apart, although the wall clock
\* goes on between them and most of them may be reserved (the comment of
\* mineBlocks, node.ts:552-558).
BatchIsExact ==
  job # NoJob =>
    /\ Len(times) = job.first + (job.count - job.left)
    /\ \A k \in (job.first + 1)..(Len(times) - 1) :
         times[k + 1] - times[k] = job.interval

\* A revert sets the clock back to what it was when the snapshot was taken,
\* up to one second of rounding (the comment of revertToSnapshot,
\* node.ts:1067-1068), and never ahead of where it would be without it.
RevertRestoresClock ==
  [][\A i \in 1..Len(snapshots) :
       Revert(i) =>
         LET s == snapshots[i]
             then == Ceil(s.date) + s.offset
         IN  /\ Clock' \in {then, then + 1}
             /\ Clock' <= Ceil(now) + s.offset]_vars

=============================================================================
