----------------------------- MODULE Semaphore ------------------------------
(***************************************************************************)
(* The semaphore that serialises the requests of Hardhat Network and the   *)
(* compiler downloads: vendor/await-semaphore.  acquire() queues a task    *)
(* and looks for a permit on the next tick of the event loop; a release    *)
(* callback looks for a waiting task at once.                              *)
(***************************************************************************)
EXTENDS Integers, Sequences, FiniteSets

CONSTANTS
  Callers,    \* the calls of acquire() that may be outstanding
  Permits,    \* the count given to the constructor
  MaxTicks    \* bound on the queued calls of _sched

ASSUME CallersAssumption == IsFiniteSet(Callers)
ASSUME PermitsAssumption == Permits \in Nat \ {0}
ASSUME MaxTicksAssumption == MaxTicks \in Nat

VARIABLES
  count,      \* Semaphore.count
  tasks,      \* Semaphore._tasks, as the callers that wait
  ticks,      \* calls of _sched that process.nextTick has queued
  holders     \* the callers that have a release callback they did not call

vars == <<count, tasks, ticks, holders>>

Waiting == {tasks[i] : i \in DOMAIN tasks}

TypeOK ==
  /\ count \in Nat
  /\ tasks \in Seq(Callers)
  /\ ticks \in Nat
  /\ holders \subseteq Callers

-----------------------------------------------------------------------------

Init ==
  /\ count = Permits
  /\ tasks = <<>>
  /\ ticks = 0
  /\ holders = {}

(* acquire *)
Acquire(c) ==
  /\ c \notin Waiting \cup holders
  /\ tasks' = Append(tasks, c)
  /\ ticks' = ticks + 1
  /\ UNCHANGED <<count, holders>>

(* Mutant: serves the last caller first. *)
SchedLast(free, owners) ==
  IF free > 0 /\ tasks # <<>>
    THEN /\ count' = free - 1
         /\ tasks' = SubSeq(tasks, 1, Len(tasks) - 1)
         /\ holders' = owners \cup {tasks[Len(tasks)]}
    ELSE count' = free /\ holders' = owners /\ UNCHANGED tasks

(* _sched, with the count and the holders it finds *)
Sched(free, owners) ==
  IF free > 0 /\ tasks # <<>>
    THEN /\ count' = free - 1
         /\ tasks' = Tail(tasks)
         /\ holders' = owners \cup {Head(tasks)}
    ELSE count' = free /\ holders' = owners /\ UNCHANGED tasks

(* A call of _sched that acquire() queued *)
Tick ==
  /\ ticks > 0
  /\ ticks' = ticks - 1
  /\ Sched(count, holders)

(* Mutant: the first call of release does not look for a waiting task. *)
ReleaseSilently(c) ==
  \/ /\ c \in holders
     /\ count' = count + 1
     /\ holders' = holders \ {c}
     /\ UNCHANGED <<ticks, tasks>>
  \/ /\ c \notin holders
     /\ UNCHANGED vars

(* The release callback: only its first call has an effect. *)
Release(c) ==
  \/ /\ c \in holders
     /\ Sched(count + 1, holders \ {c})
     /\ UNCHANGED ticks
  \/ /\ c \notin holders
     /\ UNCHANGED vars

Next ==
  \/ Tick
  \/ \E c \in Callers : (ticks < MaxTicks /\ Acquire(c)) \/ Release(c)

(* The event loop runs what is queued for the next tick, and every caller  *)
(* releases, as request() does in its finally block.                       *)
Fairness == WF_vars(Tick) /\ \A c \in Callers : WF_vars(Release(c))

Spec == Init /\ [][Next]_vars

LiveSpec == Spec /\ Fairness

-----------------------------------------------------------------------------

(* No permit is lost or made up, whatever the order of acquires, ticks,    *)
(* releases and repeated releases: with one permit (Mutex) two requests    *)
(* are never inside.                                                       *)
PermitsConserved == count + Cardinality(holders) = Permits

(* No lost wakeup: while a permit is free and a caller waits, a call of    *)
(* _sched is on its way for each pair of them, although ticks may find     *)
(* nothing to do and releases wake callers without a tick.                 *)
NoLostWakeup == ticks >= count \/ ticks >= Len(tasks)

FairLockInstance == INSTANCE Lock WITH line <- tasks, inside <- holders

(* The semaphore is a fair lock: first come, first served, at most Permits *)
(* holders, and nobody waits for a permit that stays free.                 *)
IsFairLock == FairLockInstance!FairLock

=============================================================================
