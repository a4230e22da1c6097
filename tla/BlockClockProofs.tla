-------------------------- MODULE BlockClockProofs --------------------------
(***************************************************************************)
(* Proofs about the clock, for all dates, intervals and batch sizes:       *)
(* timestamps increase, the clock is never behind the last block, batches  *)
(* are exact and a revert restores the clock up to a second.               *)
(***************************************************************************)
EXTENDS BlockClock, TLAPS

Constants == /\ AllowSame \in BOOLEAN
             /\ StartDates \subseteq Nat \ {0}
             /\ InitialDates \subseteq {date \in Nat : date >= 1000}
             /\ Steps \subseteq Nat /\ Increments \subseteq Int /\ Ahead \subseteq Int
             /\ Counts \subseteq Nat \ {0} /\ Intervals \subseteq Nat
             /\ ReserveThreshold \in Nat \ {0}

LEMMA ConstantsOK == Constants
BY AllowSameAssumption, DatesAssumption, IncrementsAssumption, AheadAssumption,
   CountsAssumption, IntervalsAssumption, ThresholdAssumption DEF Constants

(* Rounding.  The revert is right because rounding up twice never gives    *)
(* less than rounding the sum up, and at most one more.                    *)
LEMMA Rounding ==
  /\ \A x \in Int : Ceil(x) \in Int /\ Floor(x) \in Int
  /\ \A x \in Nat : x > 0 => Ceil(x) > 0
  /\ \A x \in Nat : x >= 1000 => Floor(x) > 0
  /\ \A x, y \in Int : x <= y => Ceil(x) <= Ceil(y)
  /\ \A x \in Int : x <= 0 => Ceil(x) <= 0
  /\ \A x, y \in Int : Ceil(y) + Ceil(x - y) \in {Ceil(x), Ceil(x) + 1}
  /\ \A x, y \in Int : Floor(x) <= Ceil(y) + Floor(x - y)
<1>1. \A x \in Int : Ceil(x) \in Int /\ Floor(x) \in Int
  BY DEF Ceil, Floor
<1>2. \A x \in Nat : x > 0 => Ceil(x) > 0
  BY DEF Ceil
<1>3. \A x \in Nat : x >= 1000 => Floor(x) > 0
  BY DEF Floor
<1>4. \A x, y \in Int : x <= y => Ceil(x) <= Ceil(y)
  BY DEF Ceil
<1>5. \A x \in Int : x <= 0 => Ceil(x) <= 0
  BY DEF Ceil
<1>6. \A x, y \in Int : Ceil(y) + Ceil(x - y) \in {Ceil(x), Ceil(x) + 1}
  BY DEF Ceil
<1>7. \A x, y \in Int : Floor(x) <= Ceil(y) + Floor(x - y)
  BY DEF Ceil, Floor
<1> QED
  BY <1>1, <1>2, <1>3, <1>4, <1>5, <1>6, <1>7

-----------------------------------------------------------------------------
(* Types.                                                                  *)

(* A live snapshot is of a prefix of the chain, and a later one of a       *)
(* longer prefix: a revert to one leaves the earlier ones valid.           *)
Prefixes ==
  /\ \A i \in 1..Len(snapshots) : snapshots[i].length \in 1..Len(times)
  /\ \A i, j \in 1..Len(snapshots) :
       i < j => snapshots[i].length <= snapshots[j].length

TInv == TypeOK /\ Prefixes

Jobs == [stage : {"none", "first", "pending", "rest"}, first : Nat,
         count : Nat, left : Nat, interval : Nat]

Snapshots == [date : Nat, length : Nat, offset : Int, nextTimestamp : Int]

(* What every way of adding blocks has in common. *)
Grows ==
  /\ times' \in Seq(Int)
  /\ Len(times') >= Len(times)
  /\ \A i \in 1..Len(times) : times'[i] = times[i]

(* The clock and the last timestamp are numbers. *)
LEMMA Numbers ==
  ASSUME TypeOK
  PROVE  /\ now \in Int /\ Ceil(now) \in Int /\ offset \in Int /\ Clock \in Int
         /\ Last \in Int /\ nextTimestamp \in Int
         /\ Len(times) \in Nat /\ Len(times) > 0
<1>1. now \in Int /\ offset \in Int /\ nextTimestamp \in Int
  BY DEF TypeOK
<1>2. Ceil(now) \in Int
  BY <1>1, Rounding
<1>3. Clock \in Int
  BY <1>1, <1>2 DEF Clock
<1>4. Len(times) \in Nat /\ Len(times) > 0 /\ Last \in Int
  BY DEF TypeOK, Last
<1> QED
  BY <1>1, <1>2, <1>3, <1>4

(* mineBlock adds one block. *)
LEMMA MineBlockGrows ==
  ASSUME TypeOK, NEW t \in Int, MineBlock(t)
  PROVE  /\ Grows /\ Len(times') = Len(times) + 1
         /\ offset' \in Int /\ nextTimestamp' = 0
<1> DEFINE given == t # 0 \/ nextTimestamp # 0
           wanted == IF t # 0 THEN t ELSE IF nextTimestamp # 0 THEN nextTimestamp
                     ELSE Clock
           clashes == ~AllowSame /\ wanted = Last
<1>1. Ceil(now) \in Int /\ Clock \in Int /\ Last \in Int /\ offset \in Int
  BY Numbers
<1>2. wanted \in Int
  BY <1>1 DEF TypeOK
<1>3. /\ times' = Append(times, IF clashes THEN wanted + 1 ELSE wanted)
      /\ offset' = IF given THEN wanted - Ceil(now)
                   ELSE IF clashes THEN offset + 1 ELSE offset
      /\ nextTimestamp' = 0
  BY DEF MineBlock
<1> HIDE DEF given, wanted, clashes
<1>4. PICK x \in Int : times' = Append(times, x)
  BY <1>2, <1>3
<1>5. times \in Seq(Int)
  BY DEF TypeOK
<1>6. Grows /\ Len(times') = Len(times) + 1
  BY <1>4, <1>5 DEF Grows
<1>7. offset' \in Int /\ nextTimestamp' = 0
  BY <1>1, <1>2, <1>3
<1> QED
  BY <1>6, <1>7

(* A reservation adds blocks an interval apart. *)
LEMMA ReserveBlocksGrows ==
  ASSUME TypeOK, ReserveBlocks
  PROVE  /\ Grows /\ Len(times') = Len(times) + (job.left - 1)
         /\ job.left > 1
         /\ \A i \in 1..(job.left - 1) :
              times'[Len(times) + i] = Last + i * job.interval
<1> DEFINE n == job.left - 1
           r == [i \in 1..n |-> Last + i * job.interval]
<1>1. job.left \in Nat /\ job.left > 1 /\ n \in Nat /\ n > 0 /\ job.interval \in Nat
  BY ConstantsOK DEF TypeOK, ReserveBlocks, Constants
<1>2. Last \in Int /\ times \in Seq(Int) /\ Len(times) \in Nat
  BY DEF TypeOK, Last
<1>3. \A i \in 1..n : Last + i * job.interval \in Int
  BY <1>1, <1>2
<1>4. r \in Seq(Int) /\ Len(r) = n
  BY <1>1, <1>3
<1>5. times' = times \o r
  BY DEF ReserveBlocks
<1>6. \A i \in 1..n : r[i] = Last + i * job.interval
  OBVIOUS
<1> HIDE DEF r
<1>7. Grows /\ Len(times') = Len(times) + n
  <2>1. times' \in Seq(Int) /\ Len(times') = Len(times) + n
    BY <1>2, <1>4, <1>5
  <2>2. \A i \in 1..Len(times) : times'[i] = times[i]
    BY <1>2, <1>4, <1>5
  <2> HIDE DEF n
  <2> QED
    BY <2>1, <2>2, <1>1, <1>2 DEF Grows
<1>8. ASSUME NEW i \in 1..n
      PROVE  times'[Len(times) + i] = r[i]
  <2>1. n \in Nat /\ i \in 1..n
    BY <1>1
  <2> HIDE DEF n
  <2>2. /\ Len(times) + i \in 1..(Len(times) + Len(r)) /\ Len(times) + i > Len(times)
        /\ (Len(times) + i) - Len(times) = i
    BY <2>1, <1>2, <1>4
  <2>3. (times \o r)[Len(times) + i] = r[(Len(times) + i) - Len(times)]
    BY <2>2, <1>2, <1>4
  <2> QED
    BY <2>2, <2>3, <1>5
<1> QED
  BY <1>1, <1>6, <1>7, <1>8

(* Snapshots remain of prefixes when blocks are added. *)
LEMMA PrefixesGrow ==
  ASSUME TInv, Grows, UNCHANGED snapshots
  PROVE  Prefixes' /\ Len(times') > 0
<1>1. Len(times) \in Nat /\ Len(times) > 0 /\ Len(times') \in Nat /\ Len(times') >= Len(times)
  BY DEF TInv, TypeOK, Grows
<1>2. snapshots' = snapshots /\ Prefixes
  BY DEF TInv
<1> QED
  BY <1>1, <1>2 DEF Prefixes

LEMMA TypeInit == Init => TInv
<1> SUFFICES ASSUME Init PROVE TInv
  OBVIOUS
<1>1. now \in Nat /\ nextTimestamp = 0 /\ job = NoJob /\ snapshots = << >>
  BY ConstantsOK DEF Init, Constants
<1>2. offset \in Int /\ times \in Seq(Int) /\ Len(times) > 0
  <2>1. CASE offset = 0 /\ times = <<Ceil(now)>>
    BY <2>1, <1>1, Rounding
  <2>2. CASE \E date \in InitialDates : offset = Floor(date - now) /\ times = <<Floor(date)>>
    <3>1. PICK date \in InitialDates : offset = Floor(date - now) /\ times = <<Floor(date)>>
      BY <2>2
    <3>2. date \in Int /\ date - now \in Int
      BY <1>1, ConstantsOK DEF Constants
    <3> QED
      BY <3>1, <3>2, Rounding
  <2> QED
    BY <2>1, <2>2 DEF Init
<1> QED
  BY <1>1, <1>2 DEF TInv, TypeOK, Prefixes, NoJob

(* The last block of the chain, or of a batch, gives an integer timestamp. *)
LEMMA JobTypes ==
  ASSUME TypeOK
  PROVE  /\ job.left \in Nat /\ job.count \in Nat /\ job.first \in Nat
         /\ job.interval \in Nat /\ Last + job.interval \in Int
         /\ NoJob \in Jobs
         /\ ~Idle => job.left - 1 \in Nat
<1>1. job \in Jobs
  BY DEF TypeOK, Jobs
<1>2. /\ job.left \in Nat /\ job.count \in Nat /\ job.first \in Nat
      /\ job.interval \in Nat
  BY <1>1 DEF Jobs
<1>3. NoJob \in Jobs
  BY DEF NoJob, Jobs
<1> QED
  BY <1>2, <1>3, Numbers, SMTT(30) DEF Idle

(* Mining a block of a batch keeps the types. *)
LEMMA BatchType ==
  ASSUME TInv, ~Idle, NEW t \in Int, NEW stage \in {"pending", "rest"},
         MineOfBatch(t, stage)
  PROVE  TInv'
<1>1. TypeOK
  BY DEF TInv
<1>2. MineBlock(t) /\ UNCHANGED <<now, snapshots>>
  BY DEF MineOfBatch
<1>3. Grows /\ offset' \in Int /\ nextTimestamp' = 0
  BY <1>1, <1>2, MineBlockGrows
<1>4. Prefixes' /\ Len(times') > 0
  BY <1>2, <1>3, PrefixesGrow
<1>5. job' \in Jobs
  <2>1. job \in Jobs /\ job.left - 1 \in Nat
    BY <1>1, JobTypes DEF TypeOK, Jobs
  <2>2. job' = [job EXCEPT !.left = job.left - 1, !.stage = stage]
    BY DEF MineOfBatch
  <2> QED
    BY <2>1, <2>2 DEF Jobs
<1>6. TypeOK'
  BY <1>1, <1>2, <1>3, <1>4, <1>5 DEF TypeOK, Grows, Jobs
<1> QED
  BY <1>4, <1>6 DEF TInv

LEMMA TypeStep == TInv /\ [Next]_vars => TInv'
<1> SUFFICES ASSUME TInv, [Next]_vars PROVE TInv'
  OBVIOUS
<1>0. TypeOK /\ Prefixes
  BY DEF TInv
<1>a. NoJob \in Jobs
  BY <1>0, JobTypes
<1>1. ASSUME NEW ms \in Steps, Tick(ms) PROVE TInv'
  <2>1. now' \in Nat
    BY <1>0, <1>1, ConstantsOK DEF TypeOK, Tick, Constants
  <2> QED
    BY <2>1, <1>0, <1>1 DEF TInv, TypeOK, Prefixes, Tick
<1>2. ASSUME NEW seconds \in Increments, IncreaseTime(seconds) PROVE TInv'
  <2>1. offset' \in Int
    BY <1>0, <1>2, ConstantsOK DEF TypeOK, IncreaseTime, Constants
  <2> QED
    BY <2>1, <1>a, <1>0, <1>2 DEF TInv, TypeOK, Prefixes, IncreaseTime, Jobs
<1>3. ASSUME NEW d \in Ahead, SetNextBlockTimestamp(Last + d) PROVE TInv'
  <2>1. nextTimestamp' \in Int
    BY <1>0, <1>3, ConstantsOK, Numbers DEF SetNextBlockTimestamp, Constants
  <2> QED
    BY <2>1, <1>a, <1>0, <1>3 DEF TInv, TypeOK, Prefixes, SetNextBlockTimestamp, Jobs
<1>4. ASSUME NEW t \in Int, Mine(t) PROVE TInv'
  <2>1. MineBlock(t) /\ UNCHANGED <<now, snapshots>> /\ job' = NoJob
    BY <1>4 DEF Mine
  <2>2. Grows /\ offset' \in Int /\ nextTimestamp' = 0
    BY <1>0, <2>1, MineBlockGrows
  <2>3. Prefixes' /\ Len(times') > 0
    BY <2>1, <2>2, PrefixesGrow
  <2> QED
    BY <2>1, <2>2, <2>3, <1>a, <1>0 DEF TInv, TypeOK, Grows, Jobs
<1>5. ASSUME NEW count \in Counts, NEW interval \in Intervals,
             MineBlocks(count, interval)
      PROVE  TInv'
  <2>1. count \in Nat /\ interval \in Nat /\ Len(times) \in Nat
    BY <1>0, ConstantsOK, Numbers DEF Constants
  <2>2. job' \in Jobs
    BY <2>1, <1>5 DEF MineBlocks, Jobs
  <2> QED
    BY <2>2, <1>0, <1>5 DEF TInv, TypeOK, Prefixes, MineBlocks, Jobs
<1>6. CASE MineFirst
  BY <1>6, BatchType DEF MineFirst
<1>7. CASE MinePending \/ MineBeforeReservation \/ MineRest
  <2>1. Last + job.interval \in Int
    BY <1>0, JobTypes
  <2> QED
    BY <2>1, <1>7, BatchType DEF MinePending, MineBeforeReservation, MineRest
<1>8. CASE ReserveBlocks
  <2>1. UNCHANGED <<now, offset, nextTimestamp, snapshots>>
    BY <1>8 DEF ReserveBlocks
  <2>2. Grows
    BY <1>0, <1>8, ReserveBlocksGrows
  <2>3. Prefixes' /\ Len(times') > 0
    BY <2>1, <2>2, PrefixesGrow
  <2>4. job' \in Jobs
    <3>1. job \in Jobs /\ job' = [job EXCEPT !.left = 1]
      BY <1>0, <1>8 DEF TypeOK, ReserveBlocks, Jobs
    <3> QED
      BY <3>1 DEF Jobs
  <2> QED
    BY <2>1, <2>2, <2>3, <2>4, <1>0 DEF TInv, TypeOK, Grows, Jobs
<1>9. CASE MineFails
  BY <1>9, <1>a, <1>0 DEF TInv, TypeOK, Prefixes, MineFails, Jobs
<1>10. CASE Snapshot
  <2> DEFINE s == [date |-> now, length |-> Len(times), offset |-> offset,
                   nextTimestamp |-> nextTimestamp]
  <2>1. s \in Snapshots /\ s.length = Len(times)
    BY <1>0 DEF TypeOK, Snapshots
  <2>2. /\ snapshots' = Append(snapshots, s) /\ job' = NoJob
        /\ UNCHANGED <<now, offset, nextTimestamp, times>>
    BY <1>10 DEF Snapshot
  <2>3. snapshots \in Seq(Snapshots)
    BY <1>0 DEF TypeOK, Snapshots
  <2> HIDE DEF s
  <2>4. /\ snapshots' \in Seq(Snapshots)
        /\ Len(snapshots') = Len(snapshots) + 1
        /\ \A i \in 1..Len(snapshots) : snapshots'[i] = snapshots[i]
        /\ snapshots'[Len(snapshots) + 1] = s
    BY <2>1, <2>2, <2>3
  <2>5. Len(times) \in Nat /\ Len(times) > 0 /\ Len(snapshots) \in Nat
    BY <1>0, <2>3, Numbers
  <2>6. \A i \in 1..Len(snapshots') : snapshots'[i].length \in 1..Len(times)
    BY <2>1, <2>4, <2>5, <1>0 DEF Prefixes
  <2>7. \A i, j \in 1..Len(snapshots') :
          i < j => snapshots'[i].length <= snapshots'[j].length
    BY <2>1, <2>4, <2>5, <1>0 DEF Prefixes
  <2> QED
    BY <2>2, <2>4, <2>6, <2>7, <1>a, <1>0 DEF TInv, TypeOK, Prefixes, Snapshots, Jobs
<1>11. ASSUME NEW i \in 1..Len(snapshots), RemoveSnapshot(i) PROVE TInv'
  <2>1. /\ snapshots' = SubSeq(snapshots, 1, i - 1) /\ job' = NoJob
        /\ UNCHANGED <<now, offset, nextTimestamp, times>>
    BY <1>11 DEF RemoveSnapshot
  <2>2. snapshots \in Seq(Snapshots)
    BY <1>0 DEF TypeOK, Snapshots
  <2>3. /\ snapshots' \in Seq(Snapshots) /\ Len(snapshots') = i - 1
        /\ \A k \in 1..(i - 1) : snapshots'[k] = snapshots[k] /\ k \in 1..Len(snapshots)
    BY <2>1, <2>2
  <2> QED
    BY <2>1, <2>3, <1>a, <1>0 DEF TInv, TypeOK, Prefixes, Snapshots, Jobs
<1>12. ASSUME NEW i \in 1..Len(snapshots), Revert(i) PROVE TInv'
  <2> DEFINE s == snapshots[i]
  <2>0. snapshots \in Seq(Snapshots)
    BY <1>0 DEF TypeOK, Snapshots
  <2>1. snapshots \in Seq(Snapshots) /\ s \in Snapshots
    BY <2>0
  <2>2. s.length \in 1..Len(times) /\ Len(times) \in Nat /\ times \in Seq(Int)
    BY <1>0, Numbers DEF Prefixes, TypeOK
  <2>3. /\ offset' = s.offset + Ceil(s.date - now)
        /\ nextTimestamp' = s.nextTimestamp
        /\ times' = SubSeq(times, 1, s.length)
        /\ snapshots' = SubSeq(snapshots, 1, i - 1)
        /\ job' = NoJob /\ now' = now
    BY <1>12 DEF Revert
  <2>4. offset' \in Int /\ nextTimestamp' \in Int
    <3> HIDE DEF s
    <3>1. s.offset \in Int /\ s.nextTimestamp \in Int /\ s.date \in Int
      BY <2>1 DEF Snapshots
    <3>2. s.date - now \in Int
      BY <3>1, <1>0, Numbers
    <3>3. Ceil(s.date - now) \in Int
      BY <3>2, Rounding
    <3> QED
      BY <2>3, <3>1, <3>3
  <2>5. times' \in Seq(Int) /\ Len(times') = s.length /\ Len(times') > 0
    BY <2>2, <2>3
  <2>6. /\ snapshots' \in Seq(Snapshots) /\ Len(snapshots') = i - 1
        /\ \A k \in 1..(i - 1) : snapshots'[k] = snapshots[k] /\ k \in 1..Len(snapshots)
    BY <2>1, <2>3
  <2>7. \A k \in 1..(i - 1) : snapshots[k].length \in 1..s.length
    BY <1>0, <2>2, <2>6 DEF Prefixes
  <2> HIDE DEF s
  <2>8. Prefixes'
    BY <2>5, <2>6, <2>7, <1>0 DEF Prefixes
  <2> QED
    BY <2>3, <2>4, <2>5, <2>6, <2>8, <1>a, <1>0 DEF TInv, TypeOK, Snapshots, Jobs
<1>13. CASE UNCHANGED vars
  BY <1>13, <1>0 DEF TInv, TypeOK, Prefixes, vars
<1>14. \A d \in Ahead : Last + d \in Int
  BY <1>0, ConstantsOK, Numbers DEF Constants
<1> QED
  BY <1>1, <1>2, <1>3, <1>4, <1>5, <1>6, <1>7, <1>8, <1>9, <1>10, <1>11, <1>12,
     <1>13, <1>14 DEF Next

(* The types are right, and a snapshot is always of a prefix of the chain. *)
LEMMA Types == Spec => []TInv
BY TypeInit, TypeStep, PTL DEF Spec

(* Type correctness of the clock, for all inputs: the state of HardhatNode *)
(* (node.ts:503-623, 1031-1109) keeps its types.                           *)
THEOREM TypeCorrect == Spec => []TypeOK
<1>1. TInv => TypeOK
  BY DEF TInv
<1> QED
  BY <1>1, Types, PTL

-----------------------------------------------------------------------------
(* Time goes forward.                                                      *)

Positive == \A i \in 1..Len(times) : times[i] > 0

(* The timestamp set for the next block is later than the last block. *)
NextAhead == nextTimestamp # 0 => Later(Last, nextTimestamp)

(* A batch has a valid interval, and uses up the timestamp set for the     *)
(* next block with its first block.                                        *)
BatchOK ==
  /\ ~Idle => job.interval \in Intervals
  /\ job.stage \in {"pending", "rest"} => nextTimestamp = 0
  /\ job.stage = "first" => job.left = job.count
  /\ job.left <= job.count
  /\ job # NoJob => job.stage # "none"
  /\ job.stage = "none" => Idle

(* In every snapshot the clock is not behind the last block and the        *)
(* timestamp set for the next block is later: what makes a revert safe.    *)
SnapshotsOK ==
  \A i \in 1..Len(snapshots) :
    LET s == snapshots[i]
    IN  /\ s.date <= now
        /\ times[s.length] <= Ceil(s.date) + s.offset
        /\ s.nextTimestamp # 0 => Later(times[s.length], s.nextTimestamp)

CInv ==
  /\ TimestampsIncrease
  /\ Positive
  /\ ClockNotBehind
  /\ NextAhead
  /\ BatchOK
  /\ BatchIsExact
  /\ SnapshotsOK

LEMMA LaterTransitive ==
  ASSUME NEW a \in Int, NEW b \in Int, NEW c \in Int, Later(a, b), Later(b, c)
  PROVE  Later(a, c)
BY ConstantsOK DEF Later, Constants

(* A product grows with its first factor. *)
LEMMA Multiples ==
  ASSUME NEW c \in Nat, NEW a \in Nat, NEW b \in Nat, a < b
  PROVE  a * c <= b * c /\ (c > 0 => a * c < b * c)
<1>1. PICK d \in Nat : b = a + d /\ d > 0
  <2>1. b - a \in Nat /\ b = a + (b - a) /\ b - a > 0
    OBVIOUS
  <2> QED
    BY <2>1
<1>2. b * c = a * c + d * c
  BY <1>1
<1>3. d * c >= c
  BY <1>1
<1> QED
  BY <1>2, <1>3

(* New blocks that are later than the last one and than each other keep    *)
(* the chain in order.                                                     *)
LEMMA OrderGrows ==
  ASSUME TypeOK, TimestampsIncrease, Positive, Grows,
         \A i, j \in Len(times)..Len(times') : i < j => Later(times'[i], times'[j])
  PROVE  TimestampsIncrease' /\ Positive'
<1>1. /\ Len(times) \in Nat /\ Len(times) > 0 /\ Len(times') \in Nat
      /\ Len(times') >= Len(times)
      /\ \A i \in 1..Len(times') : times'[i] \in Int
      /\ \A i \in 1..Len(times) : times'[i] = times[i]
  BY Numbers DEF Grows
<1>2. ASSUME NEW i \in 1..Len(times'), NEW j \in 1..Len(times'), i < j
      PROVE  Later(times'[i], times'[j])
  <2>1. CASE j <= Len(times)
    BY <1>1, <1>2, <2>1 DEF TimestampsIncrease
  <2>2. CASE i >= Len(times)
    BY <1>1, <1>2, <2>2
  <2>3. CASE i < Len(times) /\ Len(times) < j
    <3>1. Later(times'[i], times'[Len(times)])
      BY <1>1, <2>3 DEF TimestampsIncrease
    <3>2. Later(times'[Len(times)], times'[j])
      BY <1>1, <2>3
    <3>3. times'[i] \in Int /\ times'[j] \in Int /\ times'[Len(times)] \in Int
      BY <1>1
    <3> QED
      BY <3>1, <3>2, <3>3, LaterTransitive
  <2> QED
    BY <1>1, <2>1, <2>2, <2>3
<1>3. ASSUME NEW j \in 1..Len(times') PROVE times'[j] > 0
  <2>1. CASE j <= Len(times)
    BY <1>1, <2>1 DEF Positive
  <2>2. CASE j > Len(times)
    <3>1. Later(times'[Len(times)], times'[j])
      BY <1>1, <2>2
    <3>2. times'[Len(times)] > 0 /\ times'[Len(times)] \in Int /\ times'[j] \in Int
      BY <1>1 DEF Positive
    <3> QED
      BY <3>1, <3>2, ConstantsOK DEF Later, Constants
  <2> QED
    BY <1>1, <2>1, <2>2
<1> QED
  BY <1>2, <1>3 DEF TimestampsIncrease, Positive

(* Snapshots stay valid while the chain grows and the wall clock goes on. *)
LEMMA SnapshotsGrow ==
  ASSUME TInv, SnapshotsOK, Grows, snapshots' = snapshots, now' \in Nat, now' >= now
  PROVE  SnapshotsOK'
<1> SUFFICES ASSUME NEW i \in 1..Len(snapshots)
             PROVE  LET s == snapshots[i]
                    IN  /\ s.date <= now'
                        /\ times'[s.length] <= Ceil(s.date) + s.offset
                        /\ s.nextTimestamp # 0 => Later(times'[s.length], s.nextTimestamp)
  BY DEF SnapshotsOK
<1> DEFINE s == snapshots[i]
<1>1. snapshots \in Seq(Snapshots)
  BY DEF TInv, TypeOK, Snapshots
<1>2. s \in Snapshots
  BY <1>1
<1>3. /\ s.date <= now /\ times[s.length] <= Ceil(s.date) + s.offset
      /\ s.nextTimestamp # 0 => Later(times[s.length], s.nextTimestamp)
  BY DEF SnapshotsOK
<1>4. times'[s.length] = times[s.length]
  BY DEF TInv, Prefixes, Grows
<1> HIDE DEF s
<1>5. s.date \in Nat /\ now \in Nat
  BY <1>2 DEF TInv, TypeOK, Snapshots
<1>6. s.date <= now'
  BY <1>3, <1>5
<1> QED
  BY <1>3, <1>4, <1>6 DEF s

(* mineBlock, given no timestamp or a later one, adds a later block and    *)
(* leaves the clock not behind it; a timestamp that is given is kept.      *)
LEMMA MineBlockLater ==
  ASSUME TypeOK, NextAhead, NEW t \in Int, MineBlock(t), now' = now,
         t = 0 => Last <= Clock, t # 0 => Later(Last, t)
  PROVE  /\ Later(Last, Last') /\ Last' \in Int
         /\ Last' <= Clock'
         /\ t # 0 => Last' = t
<1> DEFINE given == t # 0 \/ nextTimestamp # 0
           wanted == IF t # 0 THEN t ELSE IF nextTimestamp # 0 THEN nextTimestamp
                     ELSE Clock
           clashes == ~AllowSame /\ wanted = Last
           stamp == IF clashes THEN wanted + 1 ELSE wanted
           c == Ceil(now)
<1>1. c \in Int /\ Clock \in Int /\ Last \in Int /\ offset \in Int
      /\ nextTimestamp \in Int /\ Clock = c + offset
  BY Numbers DEF Clock
<1>2. wanted \in Int /\ stamp \in Int
  BY <1>1
<1>3. /\ times' = Append(times, stamp)
      /\ offset' = IF given THEN wanted - c
                   ELSE IF clashes THEN offset + 1 ELSE offset
  BY DEF MineBlock
<1>4. Clock' = c + offset'
  BY DEF Clock
<1>5. Last' = stamp
  <2> HIDE DEF stamp, wanted, clashes, given
  <2>1. times \in Seq(Int)
    BY DEF TypeOK
  <2> QED
    BY <2>1, <1>2, <1>3 DEF Last
<1>6. CASE given
  <2>1. Later(Last, wanted)
    BY <1>6 DEF NextAhead
  <2>2. ~clashes
    BY <2>1, <1>1, <1>2 DEF Later
  <2>3. stamp = wanted /\ offset' = wanted - c /\ (t # 0 => wanted = t)
    BY <2>2, <1>3, <1>6
  <2> HIDE DEF stamp, wanted, clashes, given, c
  <2>4. Clock' = wanted
    BY <2>3, <1>1, <1>2, <1>4
  <2> QED
    BY <2>1, <2>3, <2>4, <1>2, <1>5
<1>7. CASE ~given
  <2>1. wanted = Clock /\ Last <= wanted /\ t = 0
    BY <1>7
  <2> HIDE DEF wanted, given
  <2>2. Later(Last, stamp)
    BY <2>1, <1>1, <1>2, ConstantsOK DEF Later, Constants
  <2>3. CASE clashes
    <3>1. stamp = wanted + 1 /\ offset' = offset + 1
      BY <2>3, <1>3, <1>7
    <3> HIDE DEF stamp, clashes, c
    <3>2. Clock' = wanted + 1
      BY <3>1, <2>1, <1>1, <1>4
    <3> QED
      BY <2>1, <2>2, <3>1, <3>2, <1>2, <1>5
  <2>4. CASE ~clashes
    <3>1. stamp = wanted /\ offset' = offset
      BY <2>4, <1>3, <1>7
    <3> HIDE DEF stamp, clashes, c
    <3>2. Clock' = wanted
      BY <3>1, <2>1, <1>1, <1>4
    <3> QED
      BY <2>1, <2>2, <3>1, <3>2, <1>2, <1>5
  <2> QED
    BY <2>3, <2>4
<1> QED
  BY <1>6, <1>7

(* A block mined so keeps the order, the snapshots and the rest. *)
LEMMA MineBlockPreserves ==
  ASSUME TInv, CInv, NEW t \in Int, MineBlock(t), UNCHANGED <<now, snapshots>>,
         t = 0 => Last <= Clock, t # 0 => Later(Last, t)
  PROVE  /\ TimestampsIncrease' /\ Positive' /\ SnapshotsOK'
         /\ Last' <= Clock' /\ nextTimestamp' = 0
         /\ Grows /\ Len(times') = Len(times) + 1
         /\ Last' = times'[Len(times) + 1] /\ Last = times'[Len(times)]
         /\ t # 0 => Last' = t
<1>1. TypeOK /\ NextAhead /\ TimestampsIncrease /\ Positive /\ SnapshotsOK
  BY DEF TInv, CInv
<1>2. Later(Last, Last') /\ Last' <= Clock' /\ (t # 0 => Last' = t)
  BY <1>1, MineBlockLater
<1>3. Grows /\ Len(times') = Len(times) + 1 /\ nextTimestamp' = 0
  BY <1>1, MineBlockGrows
<1>4. Len(times) \in Nat /\ Len(times) > 0
  BY <1>1, Numbers
<1>5. Last' = times'[Len(times) + 1] /\ Last = times'[Len(times)]
  BY <1>3, <1>4 DEF Last, Grows
<1>6. \A i, j \in Len(times)..Len(times') : i < j => Later(times'[i], times'[j])
  <2>1. \A i, j \in Len(times)..Len(times') : i < j => i = Len(times) /\ j = Len(times) + 1
    BY <1>3, <1>4
  <2> QED
    BY <2>1, <1>2, <1>5
<1>7. TimestampsIncrease' /\ Positive'
  BY <1>1, <1>3, <1>6, OrderGrows
<1>8. SnapshotsOK'
  BY <1>1, <1>3, SnapshotsGrow DEF TypeOK
<1> QED
  BY <1>2, <1>3, <1>5, <1>7, <1>8

(* A request that is not a batch leaves none. *)
LEMMA NoBatch ==
  ASSUME job' = NoJob
  PROVE  BatchOK' /\ BatchIsExact' /\ Idle'
BY DEF NoJob, BatchOK, BatchIsExact, Idle

LEMMA ClockInit == Init => CInv
<1> SUFFICES ASSUME Init PROVE CInv
  OBVIOUS
<1>0. TypeOK
  BY TypeInit DEF TInv
<1>1. now \in Nat /\ now > 0 /\ nextTimestamp = 0 /\ job = NoJob /\ snapshots = << >>
  BY ConstantsOK DEF Init, Constants
<1>2. Len(times) = 1 /\ times[1] > 0 /\ times[1] <= Clock
  <2>1. CASE offset = 0 /\ times = <<Ceil(now)>>
    <3>1. Ceil(now) \in Int /\ Ceil(now) > 0
      BY <1>1, Rounding
    <3> QED
      BY <2>1, <3>1 DEF Clock
  <2>2. CASE \E date \in InitialDates : offset = Floor(date - now) /\ times = <<Floor(date)>>
    <3>1. PICK date \in InitialDates : offset = Floor(date - now) /\ times = <<Floor(date)>>
      BY <2>2
    <3>2. date \in Nat /\ date >= 1000
      BY ConstantsOK DEF Constants
    <3>3. Floor(date) > 0
      BY <3>2, Rounding
    <3>4. Floor(date) <= Ceil(now) + Floor(date - now)
      BY <3>2, <1>1, Rounding
    <3> QED
      BY <3>1, <3>3, <3>4 DEF Clock
  <2> QED
    BY <2>1, <2>2 DEF Init
<1>3. TimestampsIncrease /\ Positive /\ ClockNotBehind
  BY <1>2 DEF TimestampsIncrease, Positive, ClockNotBehind, Last
<1>4. NextAhead /\ SnapshotsOK
  BY <1>1 DEF NextAhead, SnapshotsOK
<1>5. BatchOK /\ BatchIsExact
  BY <1>1 DEF NoJob, BatchOK, BatchIsExact, Idle
<1> QED
  BY <1>3, <1>4, <1>5 DEF CInv

(* A block of a batch after the first: exactly an interval later. *)
LEMMA BatchBlock ==
  ASSUME TInv, CInv, Forward, ~Idle, job.stage \in {"pending", "rest"},
         NEW stage \in {"pending", "rest"},
         MineOfBatch(Last + job.interval, stage)
  PROVE  CInv'
<1> DEFINE t == Last + job.interval
<1>1. TypeOK /\ BatchOK /\ BatchIsExact /\ Positive
  BY DEF TInv, CInv
<1>2. /\ Last \in Int /\ Len(times) \in Nat /\ Len(times) > 0 /\ Last > 0
      /\ job.interval \in Nat /\ job.interval \in Intervals
  BY <1>1, Numbers, JobTypes DEF Positive, Last, BatchOK
<1>3. t \in Int /\ t # 0 /\ Later(Last, t)
  BY <1>2, ConstantsOK DEF Later, Forward, Constants
<1>4. MineBlock(t) /\ UNCHANGED <<now, snapshots>>
  BY DEF MineOfBatch
<1> HIDE DEF t
<1>5. /\ TimestampsIncrease' /\ Positive' /\ SnapshotsOK'
      /\ Last' <= Clock' /\ nextTimestamp' = 0
      /\ Grows /\ Len(times') = Len(times) + 1
      /\ Last' = times'[Len(times) + 1] /\ Last = times'[Len(times)]
      /\ Last' = t
  BY <1>3, <1>4, MineBlockPreserves
<1>6. /\ job \in Jobs /\ job.left - 1 \in Nat
      /\ job.left \in Nat /\ job.count \in Nat /\ job.first \in Nat
  BY <1>1, JobTypes DEF TypeOK, Jobs
<1>7. job' = [job EXCEPT !.left = job.left - 1, !.stage = stage]
  BY DEF MineOfBatch
<1>8. /\ job'.stage = stage /\ job'.left = job.left - 1 /\ job'.count = job.count
      /\ job'.first = job.first /\ job'.interval = job.interval
  BY <1>6, <1>7 DEF Jobs
<1>9. BatchOK'
  BY <1>1, <1>2, <1>5, <1>6, <1>8 DEF BatchOK
<1>10. BatchIsExact'
  <2>1. job # NoJob
    BY DEF NoJob
  <2>a. Len(times) = job.first + (job.count - job.left)
    BY <2>1, <1>1 DEF BatchIsExact
  <2>2. Len(times') = job.first + (job.count - (job.left - 1))
    BY <2>a, <1>2, <1>5, <1>6
  <2>3. ASSUME NEW k \in (job.first + 1)..(Len(times') - 1)
        PROVE  times'[k + 1] - times'[k] = job.interval
    <3>1. k \in Nat /\ k >= job.first + 1 /\ k <= Len(times) /\ k > 0
      BY <1>2, <1>5, <1>6
    <3>2. CASE k = Len(times)
      BY <3>2, <1>2, <1>5 DEF t
    <3>3. CASE k < Len(times)
      <4>1. k \in (job.first + 1)..(Len(times) - 1) /\ k \in 1..Len(times) /\ k + 1 \in 1..Len(times)
        BY <3>1, <3>3, <1>2, <1>6
      <4>2. times[k + 1] - times[k] = job.interval
        BY <4>1, <2>1, <1>1 DEF BatchIsExact
      <4> QED
        BY <4>1, <4>2, <1>5 DEF Grows
    <3> QED
      BY <3>1, <3>2, <3>3, <1>2
  <2> QED
    BY <2>2, <2>3, <1>8 DEF BatchIsExact
<1>11. NextAhead' /\ ClockNotBehind'
  BY <1>5 DEF NextAhead, ClockNotBehind
<1> QED
  BY <1>5, <1>9, <1>10, <1>11 DEF CInv

(* The first block of a batch. *)
LEMMA FirstBlock ==
  ASSUME TInv, CInv, MineFirst
  PROVE  CInv'
<1>1. TypeOK /\ BatchOK /\ BatchIsExact /\ ClockNotBehind
  BY DEF TInv, CInv
<1>2. /\ MineBlock(0) /\ UNCHANGED <<now, snapshots>> /\ ~Idle
      /\ job.stage = "first"
      /\ job' = [job EXCEPT !.left = job.left - 1, !.stage = "pending"]
  BY DEF MineFirst, MineOfBatch
<1>3. Last <= Clock
  BY <1>1, <1>2 DEF ClockNotBehind
<1>4. /\ TimestampsIncrease' /\ Positive' /\ SnapshotsOK'
      /\ Last' <= Clock' /\ nextTimestamp' = 0
      /\ Len(times') = Len(times) + 1
  BY <1>2, <1>3, MineBlockPreserves
<1>5. /\ job \in Jobs /\ job.left - 1 \in Nat
      /\ job.left \in Nat /\ job.count \in Nat /\ job.first \in Nat
  BY <1>1, <1>2, JobTypes DEF TypeOK, Jobs
<1>6. /\ job'.stage = "pending" /\ job'.left = job.left - 1 /\ job'.count = job.count
      /\ job'.first = job.first /\ job'.interval = job.interval
  BY <1>2, <1>5 DEF Jobs
<1>7. BatchOK'
  BY <1>1, <1>2, <1>4, <1>5, <1>6 DEF BatchOK
<1>8. BatchIsExact'
  <2>1. job # NoJob /\ job.left = job.count
    BY <1>1, <1>2 DEF NoJob, BatchOK
  <2>2. Len(times) = job.first
    BY <2>1, <1>1, <1>5 DEF BatchIsExact
  <2>3. Len(times') = job.first + 1 /\ job.count - (job.left - 1) = 1
    BY <2>1, <2>2, <1>4, <1>5
  <2>4. (job.first + 1)..(Len(times') - 1) = {}
    BY <2>3, <1>5
  <2> QED
    BY <2>3, <2>4, <1>5, <1>6 DEF BatchIsExact
<1>9. NextAhead' /\ ClockNotBehind'
  BY <1>4 DEF NextAhead, ClockNotBehind
<1> QED
  BY <1>4, <1>7, <1>8, <1>9 DEF CInv

(* The reserved blocks of a batch: each an interval after the one before. *)
LEMMA ReservedBlocks ==
  ASSUME TInv, CInv, Forward, ReserveBlocks
  PROVE  CInv'
<1> DEFINE n == job.left - 1
           len == Len(times)
           d == job.interval
<1>1. TypeOK /\ BatchOK /\ BatchIsExact /\ Positive /\ TimestampsIncrease /\ SnapshotsOK
  BY DEF TInv, CInv
<1>2. /\ Grows /\ Len(times') = len + n /\ job.left > 1
      /\ \A i \in 1..n : times'[len + i] = Last + i * d
  BY <1>1, ReserveBlocksGrows
<1>3. /\ job.stage = "rest" /\ job' = [job EXCEPT !.left = 1]
      /\ UNCHANGED <<now, offset, nextTimestamp, snapshots>>
  BY DEF ReserveBlocks
<1>4. /\ job \in Jobs /\ job.left \in Nat /\ job.count \in Nat /\ job.first \in Nat
      /\ job.interval \in Nat
  BY <1>1, JobTypes DEF TypeOK, Jobs
<1>5. ~Idle /\ job.interval \in Intervals
  BY <1>1, <1>2, <1>4 DEF Idle, BatchOK
<1>6. /\ job'.stage = "rest" /\ job'.left = 1 /\ job'.count = job.count
      /\ job'.first = job.first /\ job'.interval = job.interval
  BY <1>3, <1>4 DEF Jobs
<1>7. len \in Nat /\ len > 0 /\ Last \in Int /\ n \in Nat /\ n > 0 /\ d \in Nat
  BY <1>1, <1>2, <1>4, Numbers, SMTT(30)
<1>8. AllowSame \/ d > 0
  BY <1>5, <1>7 DEF Forward
<1>9. Last = times'[len]
  BY <1>2, <1>7 DEF Last, Grows
<1>a. n = job.left - 1
  OBVIOUS
<1> HIDE DEF n, len, d
<1>b. Len(times') = len + n
  BY <1>2
<1>10. \A i \in 0..n : times'[len + i] = Last + i * d
  <2>1. times'[len + 0] = Last + 0 * d
    BY <1>7, <1>9
  <2> QED
    BY <2>1, <1>2, <1>7
<1>11. \A a, b \in 0..n : a < b => Later(Last + a * d, Last + b * d)
  <2> SUFFICES ASSUME NEW a \in 0..n, NEW b \in 0..n, a < b
               PROVE  Later(Last + a * d, Last + b * d)
    OBVIOUS
  <2> DEFINE x == a * d
             y == b * d
  <2>1. x \in Int /\ y \in Int /\ x <= y /\ (d > 0 => x < y)
    BY <1>7, Multiples
  <2> HIDE DEF x, y
  <2>2. Later(Last + x, Last + y)
    BY <2>1, <1>7, <1>8, ConstantsOK DEF Later, Constants
  <2> QED
    BY <2>2 DEF x, y
<1>12. \A i, j \in len..Len(times') : i < j => Later(times'[i], times'[j])
  <2> SUFFICES ASSUME NEW i \in len..Len(times'), NEW j \in len..Len(times'), i < j
               PROVE  Later(times'[i], times'[j])
    OBVIOUS
  <2>1. i - len \in 0..n /\ j - len \in 0..n /\ i - len < j - len
        /\ len + (i - len) = i /\ len + (j - len) = j
    BY <1>2, <1>7
  <2>2. times'[i] = Last + (i - len) * d /\ times'[j] = Last + (j - len) * d
    BY <2>1, <1>10
  <2> QED
    BY <2>1, <2>2, <1>11
<1>13. TimestampsIncrease' /\ Positive'
  BY <1>1, <1>2, <1>12, OrderGrows DEF len
<1>14. SnapshotsOK'
  BY <1>1, <1>2, <1>3, SnapshotsGrow DEF TypeOK
<1>15. BatchOK'
  BY <1>1, <1>2, <1>3, <1>4, <1>5, <1>6 DEF BatchOK
<1>16. BatchIsExact'
  <2>1. job # NoJob
    BY <1>3 DEF NoJob
  <2>2. len = job.first + (job.count - job.left)
    BY <2>1, <1>1 DEF BatchIsExact, len
  <2>3. Len(times') = job.first + (job.count - 1)
    <3> DEFINE f == job.first
               c == job.count
               l == job.left
    <3>1. f \in Nat /\ c \in Nat /\ l \in Nat /\ len = f + (c - l) /\ n = l - 1
      BY <2>2, <1>4, <1>a
    <3> HIDE DEF f, c, l
    <3>2. len + n = f + (c - 1)
      BY <3>1
    <3> QED
      BY <3>2, <1>b DEF f, c
  <2>4. ASSUME NEW k \in (job.first + 1)..(Len(times') - 1)
        PROVE  times'[k + 1] - times'[k] = job.interval
    <3>1. k \in Nat /\ k > 0 /\ k + 1 <= Len(times') /\ Len(times') = len + n
      BY <1>2, <1>4, <1>7
    <3>2. CASE k < len
      <4>1. k \in (job.first + 1)..(Len(times) - 1) /\ k \in 1..Len(times) /\ k + 1 \in 1..Len(times)
        BY <3>1, <3>2, <1>7, <1>4 DEF len
      <4>2. times[k + 1] - times[k] = job.interval
        BY <4>1, <2>1, <1>1 DEF BatchIsExact
      <4> QED
        BY <4>1, <4>2, <1>2 DEF Grows
    <3>3. CASE k >= len
      <4>1. PICK i \in 0..n : k = len + i /\ i + 1 \in 0..n /\ k + 1 = len + (i + 1)
        <5>1. k - len \in 0..n /\ k = len + (k - len) /\ (k - len) + 1 \in 0..n
              /\ k + 1 = len + ((k - len) + 1)
          BY <3>1, <3>3, <1>7
        <5> QED
          BY <5>1
      <4>2. times'[k] = Last + i * d /\ times'[k + 1] = Last + (i + 1) * d
        BY <4>1, <1>10
      <4>3. (i + 1) * d = i * d + d /\ i * d \in Int
        BY <1>7
      <4> DEFINE z == i * d
      <4>4. times'[k] = Last + z /\ times'[k + 1] = Last + (z + d) /\ z \in Int
        BY <4>2, <4>3
      <4> HIDE DEF z
      <4> QED
        BY <4>4, <1>7 DEF d
    <3> QED
      BY <3>1, <3>2, <3>3, <1>7
  <2> QED
    BY <2>3, <2>4, <1>6 DEF BatchIsExact
<1>17. NextAhead'
  BY <1>1, <1>3 DEF NextAhead, BatchOK
<1>18. ClockNotBehind'
  BY <1>6 DEF ClockNotBehind, Idle
<1> QED
  BY <1>13, <1>14, <1>15, <1>16, <1>17, <1>18 DEF CInv

(* A revert: the clock of the snapshot is not behind its last block, and   *)
(* rounding up does not set the clock back further.                        *)
LEMMA RevertRestores ==
  ASSUME TInv, SnapshotsOK, NEW i \in 1..Len(snapshots), Revert(i)
  PROVE  LET s == snapshots[i]
             then == Ceil(s.date) + s.offset
         IN  /\ then \in Int
             /\ Clock' \in {then, then + 1}
             /\ Clock' <= Ceil(now) + s.offset
<1> DEFINE s == snapshots[i]
           c == Ceil(now)
           b == Ceil(s.date)
           e == Ceil(s.date - now)
           o == s.offset
<1>1. snapshots \in Seq(Snapshots) /\ TypeOK
  BY DEF TInv, TypeOK, Snapshots
<1>2. s \in Snapshots
  BY <1>1
<1>3. /\ offset' = o + e /\ now' = now
      /\ s.date <= now
  BY DEF Revert, SnapshotsOK
<1>4. s.date \in Int /\ s.offset \in Int /\ now \in Int
  <2> HIDE DEF s
  <2> QED
    BY <1>1, <1>2, Numbers DEF Snapshots
<1>5. Clock' = c + offset'
  BY <1>3 DEF Clock
<1>6. s.date - now \in Int /\ s.date - now <= 0
  <2> HIDE DEF s
  <2> QED
    BY <1>3, <1>4
<1>7. c \in Int /\ b \in Int /\ e \in Int /\ e <= 0
  BY <1>4, <1>6, Rounding
<1>8. c + e \in {b, b + 1}
  BY <1>4, Rounding
<1>o. o \in Int
  BY <1>4
<1> HIDE DEF s, c, b, e, o
<1>9. Clock' = c + (o + e)
  BY <1>3, <1>5
<1>10. /\ b + o \in Int
       /\ Clock' \in {b + o, b + o + 1}
       /\ Clock' <= c + o
  BY <1>o, <1>7, <1>8, <1>9
<1> QED
  BY <1>10 DEF s, b, c, o

(* Requests that leave the chain alone. *)
LEMMA ChainUnchanged ==
  ASSUME TInv, CInv, times' = times, snapshots' = snapshots, now' \in Nat, now' >= now
  PROVE  /\ TimestampsIncrease' /\ Positive' /\ SnapshotsOK' /\ Last' = Last
<1>1. TypeOK /\ TimestampsIncrease /\ Positive /\ SnapshotsOK
  BY DEF TInv, CInv
<1>2. Grows
  BY <1>1 DEF Grows, TypeOK
<1>3. SnapshotsOK'
  BY <1>1, <1>2, SnapshotsGrow
<1> QED
  BY <1>1, <1>3 DEF TimestampsIncrease, Positive, Last

LEMMA ClockStep == Forward /\ TInv /\ CInv /\ [Next]_vars => CInv'
<1> SUFFICES ASSUME Forward, TInv, CInv, [Next]_vars PROVE CInv'
  OBVIOUS
<1>0. /\ TypeOK /\ Prefixes /\ TimestampsIncrease /\ Positive /\ ClockNotBehind
      /\ NextAhead /\ BatchOK /\ BatchIsExact /\ SnapshotsOK
  BY DEF TInv, CInv
<1>a. /\ now \in Nat /\ Ceil(now) \in Int /\ offset \in Int /\ Clock \in Int
      /\ Last \in Int /\ nextTimestamp \in Int
      /\ Len(times) \in Nat /\ Len(times) > 0 /\ Clock = Ceil(now) + offset
  BY <1>0, Numbers DEF TypeOK, Clock
<1>b. Idle => Last <= Clock
  BY <1>0 DEF ClockNotBehind, Idle
<1>1. ASSUME NEW ms \in Steps, Tick(ms) PROVE CInv'
  <2>1. /\ now' \in Nat /\ now' >= now
        /\ UNCHANGED <<offset, nextTimestamp, times, job, snapshots>>
    BY <1>1, <1>a, ConstantsOK DEF Tick, Constants
  <2>2. TimestampsIncrease' /\ Positive' /\ SnapshotsOK' /\ Last' = Last
    BY <2>1, ChainUnchanged
  <2>3. Ceil(now') \in Int /\ Ceil(now) <= Ceil(now')
    BY <2>1, <1>a, Rounding
  <2>4. Clock' = Ceil(now') + offset
    BY <2>1 DEF Clock
  <2>5. Clock <= Clock' /\ Clock' \in Int
    <3> DEFINE x == Ceil(now)
               y == Ceil(now')
    <3>1. x \in Int /\ y \in Int /\ x <= y /\ Clock = x + offset /\ Clock' = y + offset
      BY <2>3, <2>4, <1>a
    <3> HIDE DEF x, y
    <3> QED
      BY <3>1, <1>a
  <2>6. ClockNotBehind'
    <3>1. ~(job.stage = "rest" /\ job.left = 1) => Last' <= Clock'
      BY <2>2, <2>5, <1>a, <1>0 DEF ClockNotBehind
    <3> QED
      BY <3>1, <2>1 DEF ClockNotBehind, Idle
  <2>7. NextAhead' /\ BatchOK' /\ BatchIsExact'
    BY <2>1, <2>2, <1>0 DEF NextAhead, BatchOK, BatchIsExact, Idle
  <2> QED
    BY <2>2, <2>6, <2>7 DEF CInv
<1>2. ASSUME NEW seconds \in Increments, IncreaseTime(seconds) PROVE CInv'
  <2>1. /\ Idle /\ job' = NoJob /\ offset' = offset + seconds
        /\ UNCHANGED <<now, nextTimestamp, times, snapshots>>
    BY <1>2 DEF IncreaseTime
  <2>2. TimestampsIncrease' /\ Positive' /\ SnapshotsOK' /\ Last' = Last
    BY <2>1, <1>a, ChainUnchanged
  <2>3. seconds \in Nat
    BY DEF Forward
  <2>4. Clock' = Ceil(now) + (offset + seconds)
    BY <2>1 DEF Clock
  <2>5. Last' <= Clock'
    BY <2>1, <2>2, <2>3, <2>4, <1>a, <1>b
  <2>6. ClockNotBehind' /\ NextAhead'
    BY <2>1, <2>2, <2>5, <1>0 DEF ClockNotBehind, NextAhead
  <2> QED
    BY <2>1, <2>2, <2>6, NoBatch DEF CInv
<1>3. ASSUME NEW d \in Ahead, SetNextBlockTimestamp(Last + d) PROVE CInv'
  <2>1. /\ Idle /\ job' = NoJob /\ nextTimestamp' = Last + d
        /\ (Last + d) - Last >= 0 /\ (AllowSame \/ (Last + d) - Last # 0)
        /\ UNCHANGED <<now, offset, times, snapshots>>
    BY <1>3 DEF SetNextBlockTimestamp
  <2>2. TimestampsIncrease' /\ Positive' /\ SnapshotsOK' /\ Last' = Last
    BY <2>1, <1>a, ChainUnchanged
  <2>3. d \in Int
    BY ConstantsOK DEF Constants
  <2>4. Later(Last, Last + d)
    BY <2>1, <2>3, <1>a, ConstantsOK DEF Later, Constants
  <2>5. NextAhead'
    BY <2>1, <2>2, <2>4 DEF NextAhead
  <2>6. ClockNotBehind'
    BY <2>1, <2>2, <1>b DEF ClockNotBehind, Clock
  <2> QED
    BY <2>1, <2>2, <2>5, <2>6, NoBatch DEF CInv
<1>4. ASSUME NEW t \in Int, Mine(t) PROVE CInv'
  <2>1. /\ Idle /\ job' = NoJob /\ MineBlock(t) /\ UNCHANGED <<now, snapshots>>
        /\ t = 0 \/ t - Last > 0
    BY <1>4 DEF Mine
  <2>2. t # 0 => Later(Last, t)
    BY <2>1, <1>a, ConstantsOK DEF Later, Constants
  <2>3. /\ TimestampsIncrease' /\ Positive' /\ SnapshotsOK'
        /\ Last' <= Clock' /\ nextTimestamp' = 0
    BY <2>1, <2>2, <1>b, MineBlockPreserves
  <2>4. ClockNotBehind' /\ NextAhead'
    BY <2>3 DEF ClockNotBehind, NextAhead
  <2> QED
    BY <2>1, <2>3, <2>4, NoBatch DEF CInv
<1>5. ASSUME NEW count \in Counts, NEW interval \in Intervals,
             MineBlocks(count, interval)
      PROVE  CInv'
  <2>1. /\ Idle /\ UNCHANGED <<now, offset, nextTimestamp, times, snapshots>>
        /\ job' = [stage |-> "first", first |-> Len(times), count |-> count,
                   left |-> count, interval |-> interval]
    BY <1>5 DEF MineBlocks
  <2>2. TimestampsIncrease' /\ Positive' /\ SnapshotsOK' /\ Last' = Last
    BY <2>1, <1>a, ChainUnchanged
  <2>3. count \in Nat
    BY ConstantsOK DEF Constants
  <2>4. /\ job'.stage = "first" /\ job'.first = Len(times) /\ job'.count = count
        /\ job'.left = count /\ job'.interval = interval
    BY <2>1
  <2>5. BatchOK'
    BY <2>1, <2>3, <2>4 DEF BatchOK
  <2>6. BatchIsExact'
    <3>1. Len(times) = Len(times) + (count - count)
      BY <2>3, <1>a
    <3>2. (Len(times) + 1)..(Len(times) - 1) = {}
      BY <1>a
    <3> QED
      BY <3>1, <3>2, <2>1, <2>4 DEF BatchIsExact
  <2>7. ClockNotBehind' /\ NextAhead'
    BY <2>1, <2>2, <1>b, <1>0 DEF ClockNotBehind, Clock, NextAhead
  <2> QED
    BY <2>2, <2>5, <2>6, <2>7 DEF CInv
<1>6. CASE MineFirst
  BY <1>6, FirstBlock
<1>7. CASE MinePending \/ MineBeforeReservation \/ MineRest
  BY <1>7, BatchBlock DEF MinePending, MineBeforeReservation, MineRest
<1>8. CASE ReserveBlocks
  BY <1>8, ReservedBlocks
<1>9. CASE MineFails
  <2>1. /\ job' = NoJob /\ job.stage # "rest"
        /\ UNCHANGED <<now, offset, nextTimestamp, times, snapshots>>
    BY <1>9 DEF MineFails
  <2>2. TimestampsIncrease' /\ Positive' /\ SnapshotsOK' /\ Last' = Last
    BY <2>1, <1>a, ChainUnchanged
  <2>3. ClockNotBehind' /\ NextAhead'
    BY <2>1, <2>2, <1>0 DEF ClockNotBehind, Clock, NextAhead
  <2> QED
    BY <2>1, <2>2, <2>3, NoBatch DEF CInv
<1>10. CASE Snapshot
  <2> DEFINE s == [date |-> now, length |-> Len(times), offset |-> offset,
                   nextTimestamp |-> nextTimestamp]
  <2>1. /\ Idle /\ job' = NoJob /\ snapshots' = Append(snapshots, s)
        /\ UNCHANGED <<now, offset, nextTimestamp, times>>
    BY <1>10 DEF Snapshot
  <2>2. snapshots \in Seq(Snapshots) /\ s \in Snapshots
    BY <1>0 DEF TypeOK, Snapshots
  <2>3. /\ s.date <= now /\ times[s.length] <= Ceil(s.date) + s.offset
        /\ s.nextTimestamp # 0 => Later(times[s.length], s.nextTimestamp)
    BY <2>1, <1>a, <1>b, <1>0 DEF Last, NextAhead
  <2> HIDE DEF s
  <2>4. /\ Len(snapshots') = Len(snapshots) + 1 /\ Len(snapshots) \in Nat
        /\ \A i \in 1..Len(snapshots) : snapshots'[i] = snapshots[i]
        /\ snapshots'[Len(snapshots) + 1] = s
    BY <2>1, <2>2
  <2>5. SnapshotsOK'
    <3> SUFFICES ASSUME NEW i \in 1..Len(snapshots')
                 PROVE  /\ snapshots'[i].date <= now
                        /\ times[snapshots'[i].length]
                             <= Ceil(snapshots'[i].date) + snapshots'[i].offset
                        /\ snapshots'[i].nextTimestamp # 0 =>
                             Later(times[snapshots'[i].length], snapshots'[i].nextTimestamp)
      BY <2>1 DEF SnapshotsOK
    <3>1. CASE i \in 1..Len(snapshots)
      BY <3>1, <2>4, <1>0 DEF SnapshotsOK
    <3>2. CASE i = Len(snapshots) + 1
      BY <3>2, <2>3, <2>4
    <3> QED
      BY <3>1, <3>2, <2>4
  <2>6. TimestampsIncrease' /\ Positive' /\ Last' = Last
    BY <2>1, <1>0 DEF TimestampsIncrease, Positive, Last
  <2>7. ClockNotBehind' /\ NextAhead'
    BY <2>1, <2>6, <1>b, <1>0 DEF ClockNotBehind, Clock, NextAhead
  <2> QED
    BY <2>1, <2>5, <2>6, <2>7, NoBatch DEF CInv
<1>11. ASSUME NEW i \in 1..Len(snapshots), RemoveSnapshot(i) PROVE CInv'
  <2>1. /\ Idle /\ snapshots' = SubSeq(snapshots, 1, i - 1) /\ job' = NoJob
        /\ UNCHANGED <<now, offset, nextTimestamp, times>>
    BY <1>11 DEF RemoveSnapshot
  <2>2. snapshots \in Seq(Snapshots)
    BY <1>0 DEF TypeOK, Snapshots
  <2>3. /\ Len(snapshots') = i - 1
        /\ \A k \in 1..(i - 1) : snapshots'[k] = snapshots[k] /\ k \in 1..Len(snapshots)
    BY <2>1, <2>2
  <2>4. SnapshotsOK'
    BY <2>1, <2>3, <1>0 DEF SnapshotsOK
  <2>5. TimestampsIncrease' /\ Positive' /\ Last' = Last
    BY <2>1, <1>0 DEF TimestampsIncrease, Positive, Last
  <2>6. ClockNotBehind' /\ NextAhead'
    BY <2>1, <2>5, <1>b, <1>0 DEF ClockNotBehind, Clock, NextAhead
  <2> QED
    BY <2>1, <2>4, <2>5, <2>6, NoBatch DEF CInv
<1>12. ASSUME NEW i \in 1..Len(snapshots), Revert(i) PROVE CInv'
  <2> DEFINE s == snapshots[i]
             then == Ceil(s.date) + s.offset
             m == s.length
  <2>1. /\ nextTimestamp' = s.nextTimestamp
        /\ times' = SubSeq(times, 1, m)
        /\ snapshots' = SubSeq(snapshots, 1, i - 1)
        /\ job' = NoJob /\ now' = now
    BY <1>12 DEF Revert
  <2>2. then \in Int /\ Clock' \in {then, then + 1}
    BY <1>0, <1>12, RevertRestores
  <2>3. m \in 1..Len(times)
    BY <1>0 DEF Prefixes
  <2>4. /\ times[m] <= then
        /\ s.nextTimestamp # 0 => Later(times[m], s.nextTimestamp)
    BY <1>0 DEF SnapshotsOK
  <2>5. snapshots \in Seq(Snapshots) /\ times \in Seq(Int)
    BY <1>0 DEF TypeOK, Snapshots
  <2>6. /\ Len(snapshots') = i - 1
        /\ \A k \in 1..(i - 1) : /\ snapshots'[k] = snapshots[k]
                                 /\ k \in 1..Len(snapshots) /\ k < i
    BY <2>1, <2>5
  <2>7. \A k \in 1..(i - 1) : snapshots[k].length \in 1..m
    BY <1>0, <2>3, <2>6 DEF Prefixes
  <2> HIDE DEF s, then, m
  <2>8. Len(times') = m /\ \A k \in 1..m : times'[k] = times[k] /\ k \in 1..Len(times)
    BY <2>1, <2>3, <2>5, <1>a
  <2>9. Last' = times[m] /\ times[m] \in Int
    BY <2>3, <2>5, <2>8, <1>a DEF Last
  <2>10. TimestampsIncrease' /\ Positive'
    BY <2>8, <1>0 DEF TimestampsIncrease, Positive
  <2>11. SnapshotsOK'
    <3> SUFFICES ASSUME NEW k \in 1..(i - 1)
                 PROVE  /\ snapshots[k].date <= now
                        /\ times'[snapshots[k].length]
                             <= Ceil(snapshots[k].date) + snapshots[k].offset
                        /\ snapshots[k].nextTimestamp # 0 =>
                             Later(times'[snapshots[k].length], snapshots[k].nextTimestamp)
      BY <2>1, <2>6 DEF SnapshotsOK
    <3>1. times'[snapshots[k].length] = times[snapshots[k].length]
      BY <2>7, <2>8
    <3> QED
      BY <3>1, <2>6, <1>0 DEF SnapshotsOK
  <2>12. Last' <= Clock'
    BY <2>2, <2>4, <2>9
  <2>13. ClockNotBehind' /\ NextAhead'
    BY <2>1, <2>4, <2>9, <2>12 DEF ClockNotBehind, NextAhead
  <2> QED
    BY <2>1, <2>10, <2>11, <2>13, NoBatch DEF CInv
<1>13. CASE UNCHANGED vars
  <2>1. UNCHANGED <<now, offset, nextTimestamp, times, job, snapshots>>
    BY <1>13 DEF vars
  <2>2. TimestampsIncrease' /\ Positive' /\ SnapshotsOK' /\ Last' = Last
    BY <2>1, <1>a, ChainUnchanged
  <2>3. ClockNotBehind' /\ NextAhead' /\ BatchOK' /\ BatchIsExact'
    BY <2>1, <2>2, <1>0 DEF ClockNotBehind, Clock, NextAhead, BatchOK, BatchIsExact, Idle
  <2> QED
    BY <2>2, <2>3 DEF CInv
<1>14. \A d \in Ahead : Last + d \in Int
  BY <1>a, ConstantsOK DEF Constants
<1> QED
  BY <1>1, <1>2, <1>3, <1>4, <1>5, <1>6, <1>7, <1>8, <1>9, <1>10, <1>11, <1>12,
     <1>13, <1>14 DEF Next

LEMMA TimeGoesForward ==
  ASSUME Forward
  PROVE  Spec => [](TInv /\ CInv)
<1>1. Init => TInv /\ CInv
  BY TypeInit, ClockInit
<1>2. TInv /\ CInv /\ [Next]_vars => (TInv /\ CInv)'
  BY TypeStep, ClockStep
<1> QED
  BY <1>1, <1>2, PTL DEF Spec

(* Every block is later than the blocks before it, for every mix of wall   *)
(* clock, time increases, chosen timestamps, batches, failures and reverts *)
(* (node.ts:503-623), if increases are not negative and intervals are      *)
(* positive or equal timestamps are allowed.                               *)
THEOREM BlocksAreLater ==
  ASSUME Forward
  PROVE  Spec => []TimestampsIncrease
<1>1. CInv => TimestampsIncrease
  BY DEF CInv
<1> QED
  BY <1>1, TimeGoesForward, PTL

(* The clock is never left behind the last block, so one second is always  *)
(* enough on a clash (node.ts:508-514).                                    *)
THEOREM ClockKeepsUp ==
  ASSUME Forward
  PROVE  Spec => []ClockNotBehind
<1>1. CInv => ClockNotBehind
  BY DEF CInv
<1> QED
  BY <1>1, TimeGoesForward, PTL

(* hardhat_mine adds the blocks it was asked for, exactly an interval      *)
(* apart (node.ts:552-623), whatever the wall clock does meanwhile.        *)
THEOREM BatchesAreExact ==
  ASSUME Forward
  PROVE  Spec => []BatchIsExact
<1>1. CInv => BatchIsExact
  BY DEF CInv
<1> QED
  BY <1>1, TimeGoesForward, PTL

(* A revert restores the clock of the snapshot up to one second and never  *)
(* sets it ahead (node.ts:1065-1088).                                      *)
THEOREM RevertsRestoreClock ==
  ASSUME Forward
  PROVE  Spec => RevertRestoresClock
<1>1. TInv /\ CInv /\ [Next]_vars =>
        [\A i \in 1..Len(snapshots) :
           Revert(i) =>
             LET s == snapshots[i]
                 then == Ceil(s.date) + s.offset
             IN  /\ Clock' \in {then, then + 1}
                 /\ Clock' <= Ceil(now) + s.offset]_vars
  BY RevertRestores DEF CInv
<1> QED
  BY <1>1, TimeGoesForward, PTL DEF Spec, RevertRestoresClock

=============================================================================
