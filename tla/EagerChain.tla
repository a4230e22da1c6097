----------------------------- MODULE EagerChain -----------------------------
(***************************************************************************)
(* What a blockchain with reserved blocks promises to its readers: a chain *)
(* in which every block, mined one by one or by the thousand, has existed  *)
(* with a fixed header from the moment it was added.                       *)
(***************************************************************************)
EXTENDS Integers

CONSTANTS Timestamps, Intervals, Counts, Roots, Fees, Difficulties

VARIABLES
  chain,    \* the header of every block number below height
  height    \* the number of blocks

chainVars == <<chain, height>>

Header == [timestamp : Nat, root : Roots, fee : Fees, td : Nat]

(* The chain h of n headers followed by count headers, the i-th next(i). *)
Extended(h, n, count, next(_)) ==
  [i \in 0..(n + count - 1) |-> IF i < n THEN h[i] ELSE next(i - n + 1)]

Start ==
  /\ height = 1
  /\ chain \in [{0} -> Header]

(* One mined block *)
Mine(header) ==
  /\ chain' = Extended(chain, height, 1, LAMBDA i : header)
  /\ height' = height + 1

(* count empty blocks, interval seconds apart, that change nothing else *)
MineRun(count, interval, root) ==
  LET last == chain[height - 1]
  IN  /\ chain' = Extended(chain, height, count,
                    LAMBDA i : [timestamp |-> last.timestamp + interval * i,
                                root |-> root, fee |-> last.fee, td |-> last.td])
      /\ height' = height + count

(* Back to a chain of n blocks *)
Truncate(n) ==
  /\ chain' = [i \in 0..(n - 1) |-> chain[i]]
  /\ height' = n

Step ==
  \/ \E timestamp \in Timestamps, root \in Roots, fee \in Fees, difficulty \in Difficulties :
       Mine([timestamp |-> timestamp, root |-> root, fee |-> fee,
             td |-> chain[height - 1].td + difficulty])
  \/ \E count \in Counts, interval \in Intervals, root \in Roots :
       MineRun(count, interval, root)
  \/ \E n \in 1..height : Truncate(n)

Eager == Start /\ [][Step]_chainVars
=============================================================================
