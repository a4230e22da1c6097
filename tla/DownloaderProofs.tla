-------------------------- MODULE DownloaderProofs --------------------------
(***************************************************************************)
(* Proofs about the semaphore, for any number of callers and permits:      *)
(* permits are conserved and no wakeup is lost.  And about the compilers   *)
(* on disk, for any number of jobs, versions and failures: what the mutex  *)
(* of each platform protects.                                              *)
(***************************************************************************)
EXTENDS Downloader, FiniteSetTheorems, SequenceTheorems, TLAPS

-----------------------------------------------------------------------------
(* The semaphore *)

(* A caller is queued once, and not while it has a permit: what makes the  *)
(* set of holders grow by one when a task is taken from the queue.         *)
OneTaskPerCaller ==
  /\ \A i, j \in DOMAIN tasks : tasks[i] = tasks[j] => i = j
  /\ \A i \in DOMAIN tasks : tasks[i] \notin holders

SemaphoreInv ==
  /\ TypeOK
  /\ PermitsConserved
  /\ NoLostWakeup
  /\ OneTaskPerCaller

(* Taking a caller out of a finite set, or putting one in, changes its     *)
(* size by one.                                                            *)
LEMMA HoldersFinite ==
  ASSUME NEW S \in SUBSET Callers
  PROVE  /\ IsFiniteSet(S) /\ Cardinality(S) \in Nat
         /\ \A c \in S : Cardinality(S \ {c}) = Cardinality(S) - 1
         /\ \A c : c \notin S => Cardinality(S \cup {c}) = Cardinality(S) + 1
<1>1. IsFiniteSet(S)
  BY CallersAssumption, FS_Subset
<1>2. Cardinality(S) \in Nat
  BY <1>1, FS_CardinalityType
<1>3. ASSUME NEW c \in S PROVE Cardinality(S \ {c}) = Cardinality(S) - 1
  BY <1>1, FS_RemoveElement
<1>4. ASSUME NEW c, c \notin S PROVE Cardinality(S \cup {c}) = Cardinality(S) + 1
  BY <1>1, <1>4, FS_AddElement
<1> QED
  BY <1>1, <1>2, <1>3, <1>4

(* The queue without its head: shorter by one, with the later tasks. *)
LEMMA QueueTail ==
  ASSUME tasks \in Seq(Callers), tasks # <<>>
  PROVE  /\ Head(tasks) = tasks[1] /\ 1 \in DOMAIN tasks /\ Head(tasks) \in Callers
         /\ Tail(tasks) \in Seq(Callers)
         /\ Len(Tail(tasks)) = Len(tasks) - 1
         /\ \A i \in DOMAIN Tail(tasks) :
              i \in Nat /\ i + 1 \in DOMAIN tasks /\ i + 1 # 1 /\ Tail(tasks)[i] = tasks[i + 1]
OBVIOUS

(* _sched with a permit more or less: the effect shared by a tick and a    *)
(* release.  free and owners are the count and the holders it finds.       *)
LEMMA SchedPreserves ==
  ASSUME SemaphoreInv, NEW free \in Nat, NEW owners \in SUBSET holders,
         free + Cardinality(owners) = Permits,
         Sched(free, owners)
  PROVE  /\ count' \in Nat /\ tasks' \in Seq(Callers) /\ holders' \subseteq Callers
         /\ PermitsConserved'
         /\ OneTaskPerCaller'
         /\ \/ tasks # <<>> /\ free > 0 /\ count' = free - 1 /\ Len(tasks') = Len(tasks) - 1
            \/ (tasks = <<>> \/ free = 0) /\ count' = free /\ tasks' = tasks
<1>1. /\ tasks \in Seq(Callers) /\ owners \in SUBSET Callers /\ holders \subseteq Callers
      /\ OneTaskPerCaller
  BY DEF SemaphoreInv, TypeOK
<1>2. CASE free > 0 /\ tasks # <<>>
  <2>1. /\ count' = free - 1 /\ tasks' = Tail(tasks)
        /\ holders' = owners \cup {tasks[1]}
    BY <1>1, <1>2, QueueTail DEF Sched
  <2>2. tasks[1] \in Callers /\ tasks[1] \notin owners
    BY <1>1, <1>2, QueueTail DEF OneTaskPerCaller
  <2>3. Cardinality(holders') = Cardinality(owners) + 1 /\ Cardinality(owners) \in Nat
    BY <1>1, <2>1, <2>2, HoldersFinite
  <2>4. PermitsConserved'
    BY <1>2, <2>1, <2>3, PermitsAssumption DEF PermitsConserved
  <2>5. OneTaskPerCaller'
    <3>1. \A i \in DOMAIN tasks' :
            i \in Nat /\ i + 1 \in DOMAIN tasks /\ i + 1 # 1 /\ tasks'[i] = tasks[i + 1]
      BY <1>1, <1>2, <2>1, QueueTail
    <3>2. 1 \in DOMAIN tasks
      BY <1>1, <1>2, QueueTail
    <3>3. ASSUME NEW i \in DOMAIN tasks', NEW j \in DOMAIN tasks', tasks'[i] = tasks'[j]
          PROVE  i = j
      <4>1. i + 1 = j + 1
        BY <3>1, <3>3, <1>1 DEF OneTaskPerCaller
      <4> QED
        BY <4>1, <3>1
    <3>4. ASSUME NEW i \in DOMAIN tasks' PROVE tasks'[i] \notin holders'
      <4>1. tasks[i + 1] \notin owners /\ tasks[i + 1] # tasks[1]
        BY <3>1, <3>2, <1>1 DEF OneTaskPerCaller
      <4> QED
        BY <4>1, <3>1, <2>1
    <3> QED
      BY <3>3, <3>4 DEF OneTaskPerCaller
  <2>6. tasks' \in Seq(Callers) /\ Len(tasks') = Len(tasks) - 1
    BY <1>1, <1>2, <2>1, QueueTail
  <2>7. count' \in Nat /\ holders' \subseteq Callers
    BY <1>1, <1>2, <2>1, <2>2
  <2> QED
    BY <1>2, <2>1, <2>4, <2>5, <2>6, <2>7
<1>3. CASE ~(free > 0 /\ tasks # <<>>)
  <2>1. count' = free /\ holders' = owners /\ tasks' = tasks
    BY <1>3 DEF Sched
  <2>2. PermitsConserved' /\ OneTaskPerCaller'
    BY <1>1, <2>1 DEF PermitsConserved, OneTaskPerCaller
  <2> QED
    BY <1>1, <1>3, <2>1, <2>2
<1> QED
  BY <1>2, <1>3

(* The invariant is inductive. *)
THEOREM SemaphoreInvariance == Spec => []SemaphoreInv
<1>1. Init => SemaphoreInv
  <2> SUFFICES ASSUME Init PROVE SemaphoreInv
    OBVIOUS
  <2>1. Cardinality({}) = 0
    BY FS_EmptySet
  <2>2. TypeOK /\ PermitsConserved
    BY <2>1, PermitsAssumption DEF Init, TypeOK, PermitsConserved
  <2>3. NoLostWakeup /\ OneTaskPerCaller
    BY DEF Init, NoLostWakeup, OneTaskPerCaller
  <2> QED
    BY <2>2, <2>3 DEF SemaphoreInv
<1>2. SemaphoreInv /\ [Next]_vars => SemaphoreInv'
  <2> SUFFICES ASSUME SemaphoreInv, [Next]_vars PROVE SemaphoreInv'
    OBVIOUS
  <2>1. /\ count \in Nat /\ tasks \in Seq(Callers) /\ ticks \in Nat
        /\ holders \in SUBSET Callers /\ Len(tasks) \in Nat
        /\ count + Cardinality(holders) = Permits /\ Cardinality(holders) \in Nat
        /\ ticks >= count \/ ticks >= Len(tasks)
    BY HoldersFinite DEF SemaphoreInv, TypeOK, PermitsConserved, NoLostWakeup
  <2>2. CASE Tick
    <3>1. ticks > 0 /\ ticks' = ticks - 1 /\ Sched(count, holders)
      BY <2>2 DEF Tick
    <3>2. /\ count' \in Nat /\ tasks' \in Seq(Callers) /\ holders' \subseteq Callers
          /\ PermitsConserved' /\ OneTaskPerCaller'
          /\ \/ tasks # <<>> /\ count > 0 /\ count' = count - 1 /\ Len(tasks') = Len(tasks) - 1
             \/ (tasks = <<>> \/ count = 0) /\ count' = count /\ tasks' = tasks
      BY <2>1, <3>1, SchedPreserves
    <3>3. tasks = <<>> => Len(tasks) = 0
      OBVIOUS
    <3>4. NoLostWakeup'
      BY <2>1, <3>1, <3>2, <3>3 DEF NoLostWakeup
    <3> QED
      BY <2>1, <3>1, <3>2, <3>4 DEF SemaphoreInv, TypeOK
  <2>3. ASSUME NEW c \in Callers, Acquire(c) PROVE SemaphoreInv'
    <3>1. /\ c \notin holders /\ \A i \in DOMAIN tasks : tasks[i] # c
          /\ tasks' = Append(tasks, c) /\ ticks' = ticks + 1
          /\ count' = count /\ holders' = holders
      BY <2>3 DEF Acquire, Waiting
    <3>2. /\ tasks' \in Seq(Callers) /\ Len(tasks') = Len(tasks) + 1
          /\ DOMAIN tasks' = DOMAIN tasks \cup {Len(tasks) + 1}
          /\ Len(tasks) + 1 \notin DOMAIN tasks
          /\ tasks'[Len(tasks) + 1] = c
          /\ \A i \in DOMAIN tasks : tasks'[i] = tasks[i]
      BY <2>1, <3>1
    <3>3. OneTaskPerCaller'
      BY <3>1, <3>2 DEF SemaphoreInv, OneTaskPerCaller
    <3>4. NoLostWakeup' /\ PermitsConserved'
      BY <2>1, <3>1, <3>2 DEF NoLostWakeup, PermitsConserved
    <3> QED
      BY <2>1, <3>1, <3>2, <3>3, <3>4 DEF SemaphoreInv, TypeOK
  <2>4. ASSUME NEW c \in Callers, Release(c) PROVE SemaphoreInv'
    <3>1. CASE c \in holders
      <4>1. ticks' = ticks /\ Sched(count + 1, holders \ {c})
        BY <2>4, <3>1 DEF Release
      <4> DEFINE free == count + 1
                 owners == holders \ {c}
      <4>2. /\ free \in Nat /\ owners \in SUBSET holders
            /\ free + Cardinality(owners) = Permits
        BY <2>1, <3>1, HoldersFinite
      <4>3. Sched(free, owners)
        BY <4>1
      <4> HIDE DEF free, owners
      <4>4. /\ count' \in Nat /\ tasks' \in Seq(Callers) /\ holders' \subseteq Callers
            /\ PermitsConserved' /\ OneTaskPerCaller'
            /\ \/ /\ tasks # <<>> /\ free > 0 /\ count' = free - 1
                  /\ Len(tasks') = Len(tasks) - 1
               \/ (tasks = <<>> \/ free = 0) /\ count' = free /\ tasks' = tasks
        BY <4>2, <4>3, SchedPreserves
      <4>5. tasks = <<>> => Len(tasks) = 0
        OBVIOUS
      <4>6. NoLostWakeup'
        BY <2>1, <4>1, <4>4, <4>5 DEF NoLostWakeup, free
      <4> QED
        BY <2>1, <4>1, <4>4, <4>6 DEF SemaphoreInv, TypeOK
    <3>2. CASE c \notin holders
      <4>1. UNCHANGED vars
        BY <2>4, <3>2 DEF Release
      <4> QED
        BY <4>1 DEF SemaphoreInv, TypeOK, PermitsConserved, NoLostWakeup, OneTaskPerCaller, vars
    <3> QED
      BY <3>1, <3>2
  <2>5. CASE UNCHANGED vars
    BY <2>5 DEF SemaphoreInv, TypeOK, PermitsConserved, NoLostWakeup, OneTaskPerCaller, vars
  <2> QED
    BY <2>2, <2>3, <2>4, <2>5 DEF Next
<1> QED
  BY <1>1, <1>2, PTL DEF Spec

(* The semaphore keeps its types, the count of permits included: it is     *)
(* never negative.                                                         *)
THEOREM SemaphoreTypeCorrect == Spec => []TypeOK
BY SemaphoreInvariance, PTL DEF SemaphoreInv

(* No sequence of acquires, ticks and releases loses or makes up a permit. *)
THEOREM PermitsAreConserved == Spec => []PermitsConserved
BY SemaphoreInvariance, PTL DEF SemaphoreInv

(* While a permit is free and a caller waits, a call of _sched is queued.  *)
THEOREM WakeupsAreNotLost == Spec => []NoLostWakeup
BY SemaphoreInvariance, PTL DEF SemaphoreInv

(* The safety part of IsFairLock: callers get their permits in the order   *)
(* in which they asked, and never more of them than there are permits,     *)
(* although a release serves the next caller before a tick that was queued *)
(* earlier does.                                                           *)
THEOREM SemaphoreIsLock ==
  Spec => FairLockInstance!Start /\ [][FairLockInstance!Move]_(FairLockInstance!lockVars)
<1>1. Init => FairLockInstance!Start
  BY DEF Init, FairLockInstance!Start
<1>2. SemaphoreInv /\ [Next]_vars => [FairLockInstance!Move]_(FairLockInstance!lockVars)
  <2> SUFFICES ASSUME SemaphoreInv, [Next]_vars
               PROVE  [FairLockInstance!Move]_(FairLockInstance!lockVars)
    OBVIOUS
  <2>1. /\ count \in Nat /\ holders \in SUBSET Callers /\ tasks \in Seq(Callers)
        /\ count + Cardinality(holders) = Permits /\ Cardinality(holders) \in Nat
    BY HoldersFinite DEF SemaphoreInv, TypeOK, PermitsConserved
  <2>2. CASE Tick
    <3>1. Sched(count, holders)
      BY <2>2 DEF Tick
    <3>2. CASE count > 0 /\ tasks # <<>>
      <4>1. tasks' = Tail(tasks) /\ holders' = holders \cup {Head(tasks)}
        BY <3>1, <3>2 DEF Sched
      <4>2. Cardinality(holders) < Permits
        <5>1. \A a, b \in Nat : a > 0 /\ a + b = Permits => b < Permits
          BY PermitsAssumption
        <5>2. count > 0
          BY <3>2
        <5> QED
          BY <5>1, <5>2, <2>1
      <4>3. FairLockInstance!Cardinality(holders) = Cardinality(holders)
        BY DEF FairLockInstance!Cardinality, Cardinality
      <4>4. FairLockInstance!Enter
        BY <3>2, <4>1, <4>2, <4>3 DEF FairLockInstance!Enter
      <4> QED
        BY <4>4 DEF FairLockInstance!Move
    <3>3. CASE ~(count > 0 /\ tasks # <<>>)
      <4>1. tasks' = tasks /\ holders' = holders
        BY <3>1, <3>3 DEF Sched
      <4> QED
        BY <4>1 DEF FairLockInstance!lockVars
    <3> QED
      BY <3>2, <3>3
  <2>3. ASSUME NEW c \in Callers, Acquire(c)
        PROVE  FairLockInstance!Move
    <3>1. FairLockInstance!Ask(c)
      BY <2>3 DEF Acquire, FairLockInstance!Ask
    <3> QED
      BY <3>1 DEF FairLockInstance!Move
  <2>4. ASSUME NEW c \in Callers, Release(c)
        PROVE  [FairLockInstance!Move]_(FairLockInstance!lockVars)
    <3>1. CASE c \in holders /\ tasks # <<>>
      <4>1. Sched(count + 1, holders \ {c}) /\ count + 1 > 0
        BY <2>1, <2>4, <3>1 DEF Release
      <4>2. tasks' = Tail(tasks) /\ holders' = (holders \ {c}) \cup {Head(tasks)}
        BY <3>1, <4>1 DEF Sched
      <4>3. FairLockInstance!HandOver(c)
        BY <3>1, <4>2 DEF FairLockInstance!HandOver
      <4> QED
        BY <4>3 DEF FairLockInstance!Move
    <3>2. CASE c \in holders /\ tasks = <<>>
      <4>1. tasks' = tasks /\ holders' = holders \ {c}
        BY <2>4, <3>2 DEF Release, Sched
      <4>2. FairLockInstance!Leave(c)
        BY <3>2, <4>1 DEF FairLockInstance!Leave
      <4> QED
        BY <4>2 DEF FairLockInstance!Move
    <3>3. CASE c \notin holders
      BY <2>4, <3>3 DEF Release, vars, FairLockInstance!lockVars
    <3> QED
      BY <3>1, <3>2, <3>3
  <2>5. CASE UNCHANGED vars
    BY <2>5 DEF vars, FairLockInstance!lockVars
  <2> QED
    BY <2>2, <2>3, <2>4, <2>5 DEF Next
<1> QED
  BY <1>1, <1>2, SemaphoreInvariance, PTL DEF Spec

-----------------------------------------------------------------------------
(* The mutex of one platform: ct is its count, ts its queue, hs its holders *)

OneEntryEach(ts, hs) ==
  /\ ts \in Seq(Jobs)
  /\ \A i, k \in DOMAIN ts : ts[i] = ts[k] => i = k
  /\ \A i \in DOMAIN ts : ts[i] \notin hs

AtMostOne(ct, hs) == (ct = 1 /\ hs = {}) \/ (ct = 0 /\ \E c \in Jobs : hs = {c})

MutexOK(ct, ts, hs) == AtMostOne(ct, hs) /\ OneEntryEach(ts, hs)

(* The head and the tail of a queue *)
LEMMA QueueFacts ==
  ASSUME NEW ts \in Seq(Jobs), ts # <<>>
  PROVE  /\ 1 \in DOMAIN ts /\ Head(ts) = ts[1] /\ Head(ts) \in Jobs
         /\ Tail(ts) \in Seq(Jobs)
         /\ \A i \in DOMAIN Tail(ts) :
              i \in Nat /\ i + 1 \in DOMAIN ts /\ i + 1 # 1 /\ Tail(ts)[i] = ts[i + 1]
OBVIOUS

(* _sched, with the permits and the holders it finds *)
Scheduled(free, owners, ts, ct1, ts1, hs1) ==
  IF free > 0 /\ ts # <<>>
    THEN ct1 = free - 1 /\ ts1 = Tail(ts) /\ hs1 = owners \cup {Head(ts)}
    ELSE ct1 = free /\ hs1 = owners /\ ts1 = ts

(* _sched admits the first of the queue, if it can. *)
LEMMA SchedKeeps ==
  ASSUME NEW free, NEW owners, NEW ts, NEW ct1, NEW ts1, NEW hs1,
         MutexOK(free, ts, owners), Scheduled(free, owners, ts, ct1, ts1, hs1)
  PROVE  /\ MutexOK(ct1, ts1, hs1)
         /\ \A c \in hs1 : c \in owners \/ \E i \in DOMAIN ts : c = ts[i]
         /\ \A i \in DOMAIN ts1 : \E k \in DOMAIN ts : ts1[i] = ts[k]
         /\ owners \subseteq hs1
<1> USE DEF MutexOK, Scheduled
<1>1. CASE free > 0 /\ ts # <<>>
  <2>1. ct1 = free - 1 /\ ts1 = Tail(ts) /\ hs1 = owners \cup {Head(ts)}
    BY <1>1
  <2>2. free = 1 /\ owners = {}
    BY <1>1 DEF AtMostOne
  <2>3. ts \in Seq(Jobs)
    BY DEF OneEntryEach
  <2>4. /\ 1 \in DOMAIN ts /\ Head(ts) = ts[1] /\ Head(ts) \in Jobs
        /\ Tail(ts) \in Seq(Jobs)
        /\ \A i \in DOMAIN Tail(ts) :
             i \in Nat /\ i + 1 \in DOMAIN ts /\ i + 1 # 1 /\ Tail(ts)[i] = ts[i + 1]
    BY <1>1, <2>3, QueueFacts
  <2>5. ct1 = 0 /\ hs1 = {ts[1]} /\ ts[1] \in Jobs
    BY <2>1, <2>2, <2>4
  <2>6. ASSUME NEW i \in DOMAIN ts1, NEW k \in DOMAIN ts1, ts1[i] = ts1[k] PROVE i = k
    <3>1. i + 1 = k + 1 /\ i \in Nat /\ k \in Nat
      BY <2>1, <2>4, <2>6 DEF OneEntryEach
    <3> QED
      BY <3>1
  <2>7. ASSUME NEW i \in DOMAIN ts1 PROVE ts1[i] \notin hs1
    <3>1. ts1[i] = ts[i + 1] /\ i + 1 \in DOMAIN ts /\ i + 1 # 1
      BY <2>1, <2>4
    <3>2. ts[i + 1] # ts[1]
      BY <2>4, <3>1 DEF OneEntryEach
    <3> QED
      BY <2>5, <3>1, <3>2
  <2>8. OneEntryEach(ts1, hs1)
    BY <2>1, <2>4, <2>6, <2>7 DEF OneEntryEach
  <2>9. AtMostOne(ct1, hs1)
    BY <2>5 DEF AtMostOne
  <2> QED
    BY <2>1, <2>2, <2>4, <2>5, <2>8, <2>9
<1>2. CASE ~(free > 0 /\ ts # <<>>)
  BY <1>2
<1> QED
  BY <1>1, <1>2

(* Giving the permit back *)
LEMMA ReleaseKeeps ==
  ASSUME NEW ct, NEW hs, NEW ts, NEW c, MutexOK(ct, ts, hs), c \in hs
  PROVE  MutexOK(ct + 1, ts, hs \ {c}) /\ hs \ {c} = {} /\ ct = 0
<1>1. ct = 0 /\ hs = {c}
  BY DEF MutexOK, AtMostOne
<1> QED
  BY <1>1 DEF MutexOK, AtMostOne, OneEntryEach

(* Joining the queue *)
LEMMA AcquireKeeps ==
  ASSUME NEW ct, NEW hs, NEW ts, NEW c \in Jobs, MutexOK(ct, ts, hs),
         c \notin hs, \A i \in DOMAIN ts : ts[i] # c
  PROVE  /\ MutexOK(ct, Append(ts, c), hs)
         /\ \A i \in DOMAIN Append(ts, c) :
              Append(ts, c)[i] = c \/ \E k \in DOMAIN ts : Append(ts, c)[i] = ts[k]
<1>1. ts \in Seq(Jobs)
  BY DEF MutexOK, OneEntryEach
<1>2. /\ Append(ts, c) \in Seq(Jobs)
      /\ DOMAIN Append(ts, c) = DOMAIN ts \cup {Len(ts) + 1}
      /\ Len(ts) + 1 \notin DOMAIN ts
      /\ Append(ts, c)[Len(ts) + 1] = c
      /\ \A i \in DOMAIN ts : Append(ts, c)[i] = ts[i]
  BY <1>1
<1>3. OneEntryEach(Append(ts, c), hs)
  BY <1>2 DEF MutexOK, OneEntryEach
<1> QED
  BY <1>2, <1>3 DEF MutexOK

-----------------------------------------------------------------------------
(* The inductive invariant *)

CountOf(p) == IF p = "native" THEN count ELSE wasmCount
TasksOf(p) == IF p = "native" THEN tasks ELSE wasmTasks
TicksOf(p) == IF p = "native" THEN ticks ELSE wasmTicks
HoldersOf(p) == IF p = "native" THEN holders ELSE wasmHolders

(* Each platform's mutex admits one job. *)
LocksOK ==
  \A p \in Platforms : MutexOK(CountOf(p), TasksOf(p), HoldersOf(p)) /\ TicksOf(p) \in Nat

(* The jobs that wait for a mutex or hold it are of its platform, and a    *)
(* job is inside only while it holds it.                                   *)
PlacesOK ==
  /\ \A p \in Platforms :
       /\ \A i \in DOMAIN TasksOf(p) :
            at[TasksOf(p)[i]] = "queued" /\ platform[TasksOf(p)[i]] = p
       /\ \A j \in HoldersOf(p) : at[j] \in Inside \cup {"queued"} /\ platform[j] = p
  /\ \A j \in Jobs : at[j] \in Inside => j \in HoldersOf(platform[j])

(* What a job has done so far inside the mutex is still there. *)
WorkOK ==
  \A j \in Jobs :
    /\ at[j] = "prepare" => file[Build(j)] = "good"
    /\ at[j] = "check" =>
         /\ platform[j] = "native" /\ file[Build(j)] = "good"
         /\ os = "linux" => Build(j) \in executable
         /\ IsZipped(Build(j)) => Build(j) \in extracted

Writing(b) == \E j \in Jobs : at[j] \in {"verify", "prepare", "check"} /\ Build(j) = b
Trying(b) == \E j \in Jobs : at[j] = "check" /\ Build(j) = b

Settled(b) ==
  BinaryExists(b) =>
    /\ BinaryGood(b)
    /\ b[1] = "native" => NativeSolcWorks(b) \/ b \in notWorking

(* A compiler that nobody is replacing is verified and tried; so is one    *)
(* that was unpacked, also while its zip file is replaced.                 *)
DiskOK ==
  ~crashed => \A b \in Builds :
    /\ ~Writing(b) => Settled(b)
    /\ IsZipped(b) /\ b \in extracted /\ ~Trying(b) => b[2] \in Runnable \/ b \in notWorking

FilesTypeOK ==
  /\ os \in {"linux", "win32"}
  /\ published \subseteq Versions
  /\ list \in [Platforms -> CompilerList]
  /\ file \in [Builds -> {"none", "good", "corrupt"}]
  /\ executable \subseteq Builds /\ extracted \subseteq Builds /\ notWorking \subseteq Builds
  /\ at \in [Jobs -> Places]
  /\ platform \in [Jobs -> Platforms]
  /\ faults \in Nat
  /\ crashed \in BOOLEAN

IInv ==
  /\ FilesTypeOK /\ LocksOK /\ PlacesOK /\ WorkOK /\ DiskOK /\ WorkingCompilersNotMarked

-----------------------------------------------------------------------------
(* Steps of the mutexes *)

(* Two jobs are never inside the mutex of the same platform. *)
LEMMA OneInside ==
  ASSUME FilesTypeOK, LocksOK, PlacesOK, NEW j \in Jobs, NEW k \in Jobs,
         at[j] \in Inside, at[k] \in Inside, platform[j] = platform[k]
  PROVE  j = k
<1>1. PICK p \in Platforms : p = platform[j]
  BY DEF FilesTypeOK
<1>2. j \in HoldersOf(p) /\ k \in HoldersOf(p)
  BY <1>1 DEF PlacesOK
<1>3. AtMostOne(CountOf(p), HoldersOf(p))
  BY DEF LocksOK, MutexOK
<1> QED
  BY <1>2, <1>3 DEF AtMostOne

(* The release callback of the mutex of platform p *)
LEMMA UnlockIs ==
  ASSUME NEW j \in Jobs, NEW p \in Platforms, platform[j] = p, j \in HoldersOf(p), Unlock(j)
  PROVE  /\ Scheduled(CountOf(p) + 1, HoldersOf(p) \ {j}, TasksOf(p),
                      CountOf(p)', TasksOf(p)', HoldersOf(p)')
         /\ TicksOf(p)' = TicksOf(p)
         /\ \A q \in Platforms : q # p =>
              /\ CountOf(q)' = CountOf(q) /\ TasksOf(q)' = TasksOf(q)
              /\ HoldersOf(q)' = HoldersOf(q) /\ TicksOf(q)' = TicksOf(q)
<1> USE DEF CountOf, TasksOf, HoldersOf, TicksOf
<1>1. CASE p = "native"
  <2>1. Release(j) /\ UNCHANGED wasmVars /\ j \in holders
    BY <1>1 DEF Unlock
  <2>2. Sched(count + 1, holders \ {j}) /\ ticks' = ticks
    BY <2>1 DEF Release
  <2>3. Scheduled(count + 1, holders \ {j}, tasks, count', tasks', holders')
    BY <2>2 DEF Sched, Scheduled
  <2>4. \A q \in Platforms : q # p => q = "wasm"
    BY <1>1 DEF Platforms
  <2> QED
    BY <1>1, <2>1, <2>2, <2>3, <2>4 DEF wasmVars
<1>2. CASE p = "wasm"
  <2>1. WasmMutex!Release(j) /\ UNCHANGED vars /\ j \in wasmHolders
    BY <1>2 DEF Unlock
  <2>2. WasmMutex!Sched(wasmCount + 1, wasmHolders \ {j}) /\ wasmTicks' = wasmTicks
    BY <2>1 DEF WasmMutex!Release
  <2>3. Scheduled(wasmCount + 1, wasmHolders \ {j}, wasmTasks,
                  wasmCount', wasmTasks', wasmHolders')
    BY <2>2 DEF WasmMutex!Sched, Scheduled
  <2>4. \A q \in Platforms : q # p => q = "native"
    BY <1>2 DEF Platforms
  <2> QED
    BY <1>2, <2>1, <2>2, <2>3, <2>4 DEF vars
<1> QED
  BY <1>1, <1>2 DEF Platforms

(* A job leaves the mutex, with or without an error. *)
LEMMA UnlockStep ==
  ASSUME FilesTypeOK, LocksOK, PlacesOK, NEW j \in Jobs, at[j] \in Inside, Unlock(j),
         NEW place \in Places \ (Inside \cup {"queued"}), Go(j, place), platform' = platform
  PROVE  LocksOK' /\ PlacesOK'
<1>1. PICK p \in Platforms : p = platform[j]
  BY DEF FilesTypeOK
<1>2. j \in HoldersOf(p) /\ \A q \in Platforms : MutexOK(CountOf(q), TasksOf(q), HoldersOf(q))
  BY <1>1 DEF PlacesOK, LocksOK
<1> DEFINE free == CountOf(p) + 1
           owners == HoldersOf(p) \ {j}
<1>3. MutexOK(free, TasksOf(p), owners) /\ owners = {}
  BY <1>2, ReleaseKeeps
<1>4. /\ Scheduled(free, owners, TasksOf(p), CountOf(p)', TasksOf(p)', HoldersOf(p)')
      /\ TicksOf(p)' = TicksOf(p)
      /\ \A q \in Platforms : q # p =>
           /\ CountOf(q)' = CountOf(q) /\ TasksOf(q)' = TasksOf(q)
           /\ HoldersOf(q)' = HoldersOf(q) /\ TicksOf(q)' = TicksOf(q)
  BY <1>1, <1>2, UnlockIs
<1> HIDE DEF free, owners
<1>5. /\ MutexOK(CountOf(p)', TasksOf(p)', HoldersOf(p)')
      /\ \A c \in HoldersOf(p)' : c \in owners \/ \E i \in DOMAIN TasksOf(p) : c = TasksOf(p)[i]
      /\ \A i \in DOMAIN TasksOf(p)' : \E k \in DOMAIN TasksOf(p) :
           TasksOf(p)'[i] = TasksOf(p)[k]
  BY <1>3, <1>4, SchedKeeps
<1>6. LocksOK'
  <2> SUFFICES ASSUME NEW q \in Platforms
               PROVE  MutexOK(CountOf(q)', TasksOf(q)', HoldersOf(q)') /\ TicksOf(q)' \in Nat
    BY DEF LocksOK
  <2>1. CASE q = p
    BY <1>4, <1>5, <2>1 DEF LocksOK
  <2>2. CASE q # p
    BY <1>4, <2>2 DEF LocksOK
  <2> QED
    BY <2>1, <2>2
<1>7. /\ at' = [at EXCEPT ![j] = place] /\ at \in [Jobs -> Places]
      /\ place \notin Inside \cup {"queued"} /\ at[j] # "queued"
  BY DEF Go, FilesTypeOK, Inside, Unfinished
<1>8. ASSUME NEW q \in Platforms, NEW i \in DOMAIN TasksOf(q)'
      PROVE  at'[TasksOf(q)'[i]] = "queued" /\ platform[TasksOf(q)'[i]] = q
  <2>1. PICK k \in DOMAIN TasksOf(q) : TasksOf(q)'[i] = TasksOf(q)[k]
    BY <1>4, <1>5, <1>8
  <2>2. at[TasksOf(q)[k]] = "queued" /\ platform[TasksOf(q)[k]] = q
    BY DEF PlacesOK
  <2>3. TasksOf(q)[k] # j
    BY <1>7, <2>2
  <2>4. TasksOf(q)[k] \in Jobs
    BY <1>2 DEF MutexOK, OneEntryEach
  <2> QED
    BY <1>7, <2>1, <2>2, <2>3, <2>4
<1>9. ASSUME NEW q \in Platforms, NEW c \in HoldersOf(q)'
      PROVE  at'[c] \in Inside \cup {"queued"} /\ platform[c] = q
  <2>1. CASE q = p
    <3>1. PICK i \in DOMAIN TasksOf(p) : c = TasksOf(p)[i]
      BY <1>3, <1>5, <1>9, <2>1
    <3>2. at[c] = "queued" /\ platform[c] = p /\ c \in Jobs
      BY <1>2, <3>1 DEF PlacesOK, MutexOK, OneEntryEach
    <3> QED
      BY <1>7, <2>1, <3>2
  <2>2. CASE q # p
    <3>1. c \in HoldersOf(q)
      BY <1>4, <1>9, <2>2
    <3>2. at[c] \in Inside \cup {"queued"} /\ platform[c] = q
      BY <3>1 DEF PlacesOK
    <3>3. c \in Jobs /\ c # j
      BY <1>1, <1>2, <2>2, <3>1, <3>2 DEF MutexOK, AtMostOne
    <3> QED
      BY <1>7, <3>2, <3>3
  <2> QED
    BY <2>1, <2>2
<1>10. ASSUME NEW k \in Jobs, at'[k] \in Inside PROVE k \in HoldersOf(platform[k])'
  <2>1. k # j /\ at[k] \in Inside
    BY <1>7, <1>10
  <2>2. platform[k] # p
    BY <1>1, <2>1, OneInside
  <2>3. PICK q \in Platforms : q = platform[k]
    BY DEF FilesTypeOK
  <2>4. k \in HoldersOf(q)
    BY <2>1, <2>3 DEF PlacesOK
  <2>5. HoldersOf(q)' = HoldersOf(q)
    BY <1>4, <2>2, <2>3
  <2>6. HoldersOf(platform[k])' = HoldersOf(q)'
    BY <2>3 DEF HoldersOf
  <2> QED
    BY <2>4, <2>5, <2>6
<1>11. PlacesOK'
  BY <1>8, <1>9, <1>10 DEF PlacesOK
<1> QED
  BY <1>6, <1>11

(* acquire of the mutex of platform p *)
LEMMA LockIs ==
  ASSUME NEW j \in Jobs, NEW p \in Platforms, platform[j] = p, Lock(j)
  PROVE  /\ j \notin HoldersOf(p) /\ \A i \in DOMAIN TasksOf(p) : TasksOf(p)[i] # j
         /\ TasksOf(p)' = Append(TasksOf(p), j) /\ TicksOf(p)' = TicksOf(p) + 1
         /\ CountOf(p)' = CountOf(p) /\ HoldersOf(p)' = HoldersOf(p)
         /\ \A q \in Platforms : q # p =>
              /\ CountOf(q)' = CountOf(q) /\ TasksOf(q)' = TasksOf(q)
              /\ HoldersOf(q)' = HoldersOf(q) /\ TicksOf(q)' = TicksOf(q)
<1> USE DEF CountOf, TasksOf, HoldersOf, TicksOf
<1>1. CASE p = "native"
  <2>1. Acquire(j) /\ UNCHANGED wasmVars
    BY <1>1 DEF Lock
  <2>2. \A q \in Platforms : q # p => q = "wasm"
    BY <1>1 DEF Platforms
  <2> QED
    BY <1>1, <2>1, <2>2 DEF wasmVars, Acquire, Waiting
<1>2. CASE p = "wasm"
  <2>1. WasmMutex!Acquire(j) /\ UNCHANGED vars
    BY <1>2 DEF Lock
  <2>2. \A q \in Platforms : q # p => q = "native"
    BY <1>2 DEF Platforms
  <2> QED
    BY <1>2, <2>1, <2>2 DEF vars, WasmMutex!Acquire, WasmMutex!Waiting
<1> QED
  BY <1>1, <1>2 DEF Platforms

(* A job starts to wait for the mutex. *)
LEMMA LockStep ==
  ASSUME FilesTypeOK, LocksOK, PlacesOK, NEW j \in Jobs, at[j] = "new", Lock(j),
         Go(j, "queued"), platform' = platform
  PROVE  LocksOK' /\ PlacesOK'
<1>1. PICK p \in Platforms : p = platform[j]
  BY DEF FilesTypeOK
<1>2. \A q \in Platforms : MutexOK(CountOf(q), TasksOf(q), HoldersOf(q))
  BY DEF LocksOK
<1>3. /\ j \notin HoldersOf(p) /\ \A i \in DOMAIN TasksOf(p) : TasksOf(p)[i] # j
      /\ TasksOf(p)' = Append(TasksOf(p), j) /\ TicksOf(p)' = TicksOf(p) + 1
      /\ CountOf(p)' = CountOf(p)
      /\ \A q \in Platforms : HoldersOf(q)' = HoldersOf(q)
      /\ \A q \in Platforms : q # p =>
           /\ CountOf(q)' = CountOf(q) /\ TasksOf(q)' = TasksOf(q) /\ TicksOf(q)' = TicksOf(q)
  BY <1>1, LockIs
<1>4. /\ MutexOK(CountOf(p), Append(TasksOf(p), j), HoldersOf(p))
      /\ \A i \in DOMAIN Append(TasksOf(p), j) :
           \/ Append(TasksOf(p), j)[i] = j
           \/ \E k \in DOMAIN TasksOf(p) : Append(TasksOf(p), j)[i] = TasksOf(p)[k]
  BY <1>2, <1>3, AcquireKeeps
<1>5. LocksOK'
  <2> SUFFICES ASSUME NEW q \in Platforms
               PROVE  MutexOK(CountOf(q)', TasksOf(q)', HoldersOf(q)') /\ TicksOf(q)' \in Nat
    BY DEF LocksOK
  <2>1. TicksOf(q) \in Nat
    BY DEF LocksOK
  <2>2. CASE q = p
    <3>1. MutexOK(CountOf(p)', TasksOf(p)', HoldersOf(p)')
      BY <1>3, <1>4
    <3>2. TicksOf(p)' \in Nat
      BY <1>3, <2>1, <2>2
    <3> QED
      BY <2>2, <3>1, <3>2
  <2>3. CASE q # p
    BY <1>2, <1>3, <2>1, <2>3
  <2> QED
    BY <2>2, <2>3
<1>6. /\ at' = [at EXCEPT ![j] = "queued"] /\ at \in [Jobs -> Places]
      /\ at[j] \notin Inside \cup {"queued"} /\ "queued" \notin Inside
  BY DEF Go, FilesTypeOK, Inside, Unfinished
<1>7. ASSUME NEW q \in Platforms, NEW i \in DOMAIN TasksOf(q)'
      PROVE  at'[TasksOf(q)'[i]] = "queued" /\ platform[TasksOf(q)'[i]] = q
  <2>1. ASSUME NEW k \in DOMAIN TasksOf(q), TasksOf(q)'[i] = TasksOf(q)[k]
        PROVE  at'[TasksOf(q)'[i]] = "queued" /\ platform[TasksOf(q)'[i]] = q
    <3>1. at[TasksOf(q)[k]] = "queued" /\ platform[TasksOf(q)[k]] = q
      BY DEF PlacesOK
    <3>2. TasksOf(q)[k] \in Jobs
      BY <1>2 DEF MutexOK, OneEntryEach
    <3> QED
      BY <1>6, <2>1, <3>1, <3>2
  <2>2. CASE q = p /\ TasksOf(q)'[i] = j
    BY <1>1, <1>6, <2>2
  <2>3. \/ \E k \in DOMAIN TasksOf(q) : TasksOf(q)'[i] = TasksOf(q)[k]
        \/ q = p /\ TasksOf(q)'[i] = j
    <3>1. CASE q = p
      <4>1. TasksOf(q)' = Append(TasksOf(p), j) /\ TasksOf(q) = TasksOf(p)
        BY <1>3, <3>1
      <4> QED
        BY <1>4, <3>1, <4>1
    <3>2. CASE q # p
      BY <1>3, <3>2
    <3> QED
      BY <3>1, <3>2
  <2> QED
    BY <2>1, <2>2, <2>3
<1>8. ASSUME NEW q \in Platforms, NEW c \in HoldersOf(q)'
      PROVE  at'[c] \in Inside \cup {"queued"} /\ platform[c] = q
  <2>1. c \in HoldersOf(q)
    BY <1>3
  <2>2. at[c] \in Inside \cup {"queued"} /\ platform[c] = q
    BY <2>1 DEF PlacesOK
  <2>3. c \in Jobs
    BY <1>2, <2>1 DEF MutexOK, AtMostOne
  <2> QED
    BY <1>6, <2>2, <2>3
<1>9. ASSUME NEW k \in Jobs, at'[k] \in Inside PROVE k \in HoldersOf(platform[k])'
  <2>1. at[k] \in Inside
    BY <1>6, <1>9
  <2>2. PICK q \in Platforms : q = platform[k]
    BY DEF FilesTypeOK
  <2>3. k \in HoldersOf(q)
    BY <2>1, <2>2 DEF PlacesOK
  <2>4. HoldersOf(platform[k])' = HoldersOf(q)'
    BY <2>2 DEF HoldersOf
  <2> QED
    BY <1>3, <2>3, <2>4
<1>10. PlacesOK'
  BY <1>7, <1>8, <1>9 DEF PlacesOK
<1> QED
  BY <1>5, <1>10

(* A job goes on without touching a mutex, inside or outside. *)
LEMMA MoveStep ==
  ASSUME FilesTypeOK, LocksOK, PlacesOK, NEW j \in Jobs, UNCHANGED mutexes,
         NEW place \in Places, Go(j, place),
         \A k \in Jobs : k # j => platform'[k] = platform[k],
         \/ /\ at[j] \in Inside \cup {"queued"} /\ j \in HoldersOf(platform[j])
            /\ place \in Inside /\ platform'[j] = platform[j]
         \/ at[j] \notin Inside \cup {"queued"} /\ place \notin Inside
  PROVE  LocksOK' /\ PlacesOK'
<1>1. \A q \in Platforms : /\ MutexOK(CountOf(q), TasksOf(q), HoldersOf(q))
                           /\ TicksOf(q) \in Nat
  BY DEF LocksOK
<1>2. \A q : /\ CountOf(q)' = CountOf(q) /\ TasksOf(q)' = TasksOf(q)
             /\ HoldersOf(q)' = HoldersOf(q) /\ TicksOf(q)' = TicksOf(q)
  BY DEF mutexes, vars, wasmVars, CountOf, TasksOf, HoldersOf, TicksOf
<1>3. LocksOK'
  BY <1>1, <1>2 DEF LocksOK
<1>4. at' = [at EXCEPT ![j] = place] /\ at \in [Jobs -> Places]
  BY DEF Go, FilesTypeOK
<1>5. ASSUME NEW q \in Platforms, NEW i \in DOMAIN TasksOf(q)
      PROVE  at'[TasksOf(q)[i]] = "queued" /\ platform'[TasksOf(q)[i]] = q
  <2>1. /\ at[TasksOf(q)[i]] = "queued" /\ platform[TasksOf(q)[i]] = q
        /\ TasksOf(q)[i] \in Jobs /\ TasksOf(q)[i] \notin HoldersOf(q)
    BY <1>1 DEF PlacesOK, MutexOK, OneEntryEach
  <2>2. TasksOf(q)[i] # j
    BY <2>1
  <2> QED
    BY <1>4, <2>1, <2>2
<1>6. ASSUME NEW q \in Platforms, NEW c \in HoldersOf(q)
      PROVE  at'[c] \in Inside \cup {"queued"} /\ platform'[c] = q
  <2>1. at[c] \in Inside \cup {"queued"} /\ platform[c] = q
    BY <1>6 DEF PlacesOK
  <2>2. c \in Jobs
    BY <1>1, <1>6 DEF MutexOK, AtMostOne
  <2>3. c = j => place \in Inside /\ platform'[j] = platform[j]
    BY <2>1
  <2> QED
    BY <1>4, <2>1, <2>2, <2>3
<1>7. ASSUME NEW k \in Jobs, at'[k] \in Inside PROVE k \in HoldersOf(platform[k])'
  <2>1. k \in HoldersOf(platform[k]) /\ platform'[k] = platform[k]
    BY <1>4, <1>7 DEF PlacesOK
  <2>2. PICK q \in Platforms : q = platform[k]
    BY DEF FilesTypeOK
  <2>3. HoldersOf(platform[k])' = HoldersOf(q)'
    BY <2>1, <2>2 DEF HoldersOf
  <2> QED
    BY <1>2, <2>1, <2>2, <2>3
<1>8. PlacesOK'
  BY <1>2, <1>5, <1>6, <1>7 DEF PlacesOK
<1> QED
  BY <1>3, <1>8

(* A call of _sched that acquire queued *)
LEMMA TickIs ==
  ASSUME MutexTick, LocksOK
  PROVE  \E p \in Platforms :
           /\ Scheduled(CountOf(p), HoldersOf(p), TasksOf(p),
                        CountOf(p)', TasksOf(p)', HoldersOf(p)')
           /\ TicksOf(p)' \in Nat
           /\ \A q \in Platforms : q # p =>
                /\ CountOf(q)' = CountOf(q) /\ TasksOf(q)' = TasksOf(q)
                /\ HoldersOf(q)' = HoldersOf(q) /\ TicksOf(q)' = TicksOf(q)
<1> USE DEF CountOf, TasksOf, HoldersOf, TicksOf
<1>0. "native" \in Platforms /\ "wasm" \in Platforms /\ ticks \in Nat /\ wasmTicks \in Nat
  BY DEF Platforms, LocksOK
<1>1. CASE Tick /\ UNCHANGED wasmVars
  <2>1. Sched(count, holders) /\ ticks' \in Nat
    BY <1>0, <1>1 DEF Tick
  <2>2. Scheduled(count, holders, tasks, count', tasks', holders')
    BY <2>1 DEF Sched, Scheduled
  <2>3. \A q \in Platforms : q # "native" => q = "wasm"
    BY DEF Platforms
  <2> USE <1>0
  <2> WITNESS "native" \in Platforms
  <2> QED
    BY <1>1, <2>1, <2>2, <2>3 DEF wasmVars
<1>2. CASE WasmMutex!Tick /\ UNCHANGED vars
  <2>1. WasmMutex!Sched(wasmCount, wasmHolders) /\ wasmTicks' \in Nat
    BY <1>0, <1>2 DEF WasmMutex!Tick
  <2>2. Scheduled(wasmCount, wasmHolders, wasmTasks, wasmCount', wasmTasks', wasmHolders')
    BY <2>1 DEF WasmMutex!Sched, Scheduled
  <2>3. \A q \in Platforms : q # "wasm" => q = "native"
    BY DEF Platforms
  <2> USE <1>0
  <2> WITNESS "wasm" \in Platforms
  <2> QED
    BY <1>2, <2>1, <2>2, <2>3 DEF vars
<1> QED
  BY <1>1, <1>2 DEF MutexTick

(* The first of a queue gets the mutex. *)
LEMMA TickStep ==
  ASSUME FilesTypeOK, LocksOK, PlacesOK, MutexTick
  PROVE  LocksOK' /\ PlacesOK'
<1>0. at' = at /\ platform' = platform
  BY DEF MutexTick
<1>1. \A q \in Platforms : /\ MutexOK(CountOf(q), TasksOf(q), HoldersOf(q))
                           /\ TicksOf(q) \in Nat
  BY DEF LocksOK
<1>2. PICK p \in Platforms :
        /\ Scheduled(CountOf(p), HoldersOf(p), TasksOf(p),
                     CountOf(p)', TasksOf(p)', HoldersOf(p)')
        /\ TicksOf(p)' \in Nat
        /\ \A q \in Platforms : q # p =>
             /\ CountOf(q)' = CountOf(q) /\ TasksOf(q)' = TasksOf(q)
             /\ HoldersOf(q)' = HoldersOf(q) /\ TicksOf(q)' = TicksOf(q)
  BY TickIs
<1>3. /\ MutexOK(CountOf(p)', TasksOf(p)', HoldersOf(p)')
      /\ \A c \in HoldersOf(p)' :
           c \in HoldersOf(p) \/ \E i \in DOMAIN TasksOf(p) : c = TasksOf(p)[i]
      /\ \A i \in DOMAIN TasksOf(p)' : \E k \in DOMAIN TasksOf(p) :
           TasksOf(p)'[i] = TasksOf(p)[k]
      /\ HoldersOf(p) \subseteq HoldersOf(p)'
  BY <1>1, <1>2, SchedKeeps
<1>4. LocksOK'
  BY <1>1, <1>2, <1>3 DEF LocksOK
<1>5. ASSUME NEW q \in Platforms, NEW i \in DOMAIN TasksOf(q)'
      PROVE  at'[TasksOf(q)'[i]] = "queued" /\ platform[TasksOf(q)'[i]] = q
  BY <1>0, <1>2, <1>3, <1>5 DEF PlacesOK
<1>6. ASSUME NEW q \in Platforms, NEW c \in HoldersOf(q)'
      PROVE  at'[c] \in Inside \cup {"queued"} /\ platform[c] = q
  BY <1>0, <1>2, <1>3, <1>6 DEF PlacesOK
<1>7. ASSUME NEW k \in Jobs, at'[k] \in Inside PROVE k \in HoldersOf(platform[k])'
  <2>1. PICK q \in Platforms : q = platform[k]
    BY DEF FilesTypeOK
  <2>2. k \in HoldersOf(q)
    BY <1>0, <1>7, <2>1 DEF PlacesOK
  <2>3. HoldersOf(platform[k])' = HoldersOf(q)'
    BY <1>0, <2>1 DEF HoldersOf
  <2> QED
    BY <1>2, <1>3, <2>2, <2>3
<1>8. PlacesOK'
  BY <1>0, <1>5, <1>6, <1>7 DEF PlacesOK
<1> QED
  BY <1>4, <1>8

(* A new process *)
LEMMA AllNewStep ==
  ASSUME AllNew
  PROVE  LocksOK' /\ PlacesOK' /\ at' \in [Jobs -> Places] /\ platform' \in [Jobs -> Platforms]
         /\ \A j \in Jobs : at'[j] = "new"
<1>1. \A q : /\ CountOf(q)' = 1 /\ TasksOf(q)' = <<>> /\ HoldersOf(q)' = {} /\ TicksOf(q)' = 0
  BY DEF AllNew, CountOf, TasksOf, HoldersOf, TicksOf
<1>2. MutexOK(1, <<>>, {})
  BY DEF MutexOK, AtMostOne, OneEntryEach
<1>3. LocksOK'
  BY <1>1, <1>2, SMTT(30) DEF LocksOK
<1>4. at' = [j \in Jobs |-> "new"] /\ platform' = [j \in Jobs |-> "native"]
  BY DEF AllNew
<1>5. PlacesOK'
  BY <1>1, <1>4 DEF PlacesOK, Inside, Unfinished
<1> QED
  BY <1>3, <1>4, <1>5 DEF Places, Platforms

-----------------------------------------------------------------------------
(* Steps and the files *)

(* A step of job j moves no other job. *)
LEMMA OnlyMoves ==
  ASSUME FilesTypeOK, NEW j \in Jobs, NEW place \in Places, Go(j, place),
         \A k \in Jobs : k # j => platform'[k] = platform[k]
  PROVE  /\ at'[j] = place /\ at' \in [Jobs -> Places]
         /\ \A k \in Jobs : k # j => at'[k] = at[k] /\ Build(k)' = Build(k)
<1>1. at' = [at EXCEPT ![j] = place] /\ at \in [Jobs -> Places]
  BY DEF Go, FilesTypeOK
<1> QED
  BY <1>1 DEF Build

(* The build of a job *)
LEMMA BuildOf ==
  ASSUME FilesTypeOK, NEW j \in Jobs
  PROVE  Build(j) \in Builds /\ Build(j)[1] = platform[j]
BY DEF FilesTypeOK, Build, Builds, Versions

(* Nobody else works on the build of a job that is inside. *)
LEMMA NobodyElse ==
  ASSUME FilesTypeOK, LocksOK, PlacesOK, NEW j \in Jobs, at[j] \in Inside,
         NEW k \in Jobs, at[k] \in Inside, Build(k) = Build(j)
  PROVE  k = j
<1>1. platform[k] = platform[j]
  BY BuildOf
<1> QED
  BY <1>1, OneInside

(* A step of a job that writes to no compiler, and leaves no work undone *)
LEMMA FilesKept ==
  ASSUME FilesTypeOK, WorkOK, DiskOK, WorkingCompilersNotMarked, NEW j \in Jobs,
         NEW place \in Places \ {"prepare", "check"}, Go(j, place),
         \A k \in Jobs : k # j => platform'[k] = platform[k],
         at[j] \notin {"verify", "prepare", "check"},
         UNCHANGED <<os, file, executable, extracted, notWorking, crashed>>
  PROVE  WorkOK' /\ DiskOK' /\ WorkingCompilersNotMarked'
<1>1. /\ at'[j] = place
      /\ \A k \in Jobs : k # j => at'[k] = at[k] /\ Build(k)' = Build(k)
  BY OnlyMoves
<1>2. WorkOK'
  <2> SUFFICES ASSUME NEW k \in Jobs
               PROVE  /\ at'[k] = "prepare" => file'[Build(k)'] = "good"
                      /\ at'[k] = "check" =>
                           /\ platform'[k] = "native" /\ file'[Build(k)'] = "good"
                           /\ os' = "linux" => Build(k)' \in executable'
                           /\ IsZipped(Build(k))' => Build(k)' \in extracted'
    BY DEF WorkOK
  <2>1. CASE k = j
    BY <1>1, <2>1
  <2>2. CASE k # j
    <3>1. at'[k] = at[k] /\ Build(k)' = Build(k) /\ platform'[k] = platform[k]
      BY <1>1, <2>2
    <3>2. IsZipped(Build(k))' = IsZipped(Build(k))
      BY <3>1 DEF IsZipped
    <3> QED
      BY <3>1, <3>2 DEF WorkOK
  <2> QED
    BY <2>1, <2>2
<1>3. ASSUME NEW b \in Builds
      PROVE  /\ Writing(b) => Writing(b)'
             /\ Trying(b) => Trying(b)'
             /\ IsZipped(b)' = IsZipped(b)
             /\ Settled(b)' = Settled(b)
  <2>1. Writing(b) => Writing(b)'
    BY <1>1 DEF Writing
  <2>2. Trying(b) => Trying(b)'
    BY <1>1 DEF Trying
  <2>3. IsZipped(b)' = IsZipped(b) /\ Settled(b)' = Settled(b)
    BY DEF IsZipped, Settled, BinaryExists, BinaryGood, NativeSolcWorks
  <2> QED
    BY <2>1, <2>2, <2>3
<1>4. DiskOK'
  BY <1>3 DEF DiskOK
<1> QED
  BY <1>2, <1>4 DEF WorkingCompilersNotMarked

(* A step of a job inside the mutex, which changes the files of its build  *)
(* b only: what has to hold of b afterwards                                *)
LEMMA WriteOne ==
  ASSUME FilesTypeOK, LocksOK, PlacesOK, WorkOK, DiskOK,
         NEW j \in Jobs, at[j] \in Inside, NEW place \in Places, Go(j, place),
         platform' = platform, os' = os, crashed' = crashed,
         NEW b \in Builds, b = Build(j),
         \A c \in Builds : c # b =>
           /\ file'[c] = file[c] /\ (c \in executable' <=> c \in executable)
           /\ (c \in extracted' <=> c \in extracted) /\ (c \in notWorking' <=> c \in notWorking),
         place \in {"prepare", "check"} => file'[b] = "good",
         place = "check" =>
           /\ platform[j] = "native"
           /\ os = "linux" => b \in executable'
           /\ IsZipped(b) => b \in extracted',
         ~crashed /\ place \notin {"verify", "prepare", "check"} => Settled(b)',
         ~crashed /\ IsZipped(b) /\ b \in extracted' /\ place # "check" =>
           b[2] \in Runnable \/ b \in notWorking'
  PROVE  WorkOK' /\ DiskOK'
<1>1. /\ at'[j] = place
      /\ \A k \in Jobs : k # j => at'[k] = at[k] /\ Build(k)' = Build(k)
  BY OnlyMoves
<1>2. \A k \in Jobs : Build(k)' = Build(k)
  BY DEF Build
<1>3. \A c : IsZipped(c)' = IsZipped(c)
  BY DEF IsZipped
<1>4. \A k \in Jobs : k # j /\ at[k] \in {"verify", "prepare", "check"} => Build(k) # b
  BY NobodyElse DEF Inside, Unfinished
<1>5. WorkOK'
  <2>0. ASSUME NEW k \in Jobs PROVE Build(k)' = Build(k) /\ IsZipped(Build(k))' = IsZipped(Build(k))
    BY <1>2 DEF IsZipped
  <2> SUFFICES ASSUME NEW k \in Jobs
               PROVE  /\ at'[k] = "prepare" => file'[Build(k)] = "good"
                      /\ at'[k] = "check" =>
                           /\ platform[k] = "native" /\ file'[Build(k)] = "good"
                           /\ os = "linux" => Build(k) \in executable'
                           /\ IsZipped(Build(k)) => Build(k) \in extracted'
    BY <2>0 DEF WorkOK
  <2>1. CASE k = j
    BY <1>1, <2>1
  <2>2. CASE k # j /\ at[k] \in {"prepare", "check"}
    <3>1. Build(k) \in Builds /\ Build(k) # b
      BY <1>4, <2>2, BuildOf
    <3> QED
      BY <1>1, <2>2, <3>1 DEF WorkOK
  <2>3. CASE k # j /\ at[k] \notin {"prepare", "check"}
    BY <1>1, <2>3
  <2> QED
    BY <2>1, <2>2, <2>3
<1>6. ASSUME NEW c \in Builds, c # b, ~crashed
      PROVE  /\ ~Writing(c)' => Settled(c)'
             /\ IsZipped(c) /\ c \in extracted' /\ ~Trying(c)' =>
                  c[2] \in Runnable \/ c \in notWorking'
  <2>1. Writing(c) => Writing(c)'
    BY <1>1, <1>2, <1>6 DEF Writing
  <2>2. Trying(c) => Trying(c)'
    BY <1>1, <1>2, <1>6 DEF Trying
  <2>3. Settled(c) => Settled(c)'
    BY <1>3, <1>6 DEF Settled, BinaryExists, BinaryGood, NativeSolcWorks
  <2> QED
    BY <1>6, <2>1, <2>2, <2>3 DEF DiskOK
<1>7. ASSUME ~crashed
      PROVE  /\ ~Writing(b)' => Settled(b)'
             /\ IsZipped(b) /\ b \in extracted' /\ ~Trying(b)' =>
                  b[2] \in Runnable \/ b \in notWorking'
  <2>1. place \in {"verify", "prepare", "check"} => Writing(b)'
    BY <1>1, <1>2 DEF Writing
  <2>2. place = "check" => Trying(b)'
    BY <1>1, <1>2 DEF Trying
  <2> QED
    BY <1>7, <2>1, <2>2
<1>8. DiskOK'
  BY <1>3, <1>6, <1>7 DEF DiskOK
<1> QED
  BY <1>5, <1>8

(* _downloadCompiler: whatever arrives is replaced before it is verified. *)
LEMMA DownloadStep ==
  ASSUME IInv, NEW j \in Jobs, DownloadCompiler(j)
  PROVE  IInv'
<1> USE DEF IInv
<1>1. PICK b \in Builds : b = Build(j)
  BY BuildOf
<1>2. /\ at[j] = "download" /\ Go(j, "verify")
      /\ file' = [file EXCEPT ![b] = "good"] \/ file' = [file EXCEPT ![b] = "corrupt"]
      /\ faults' \in Nat
      /\ executable' = executable \ {b}
      /\ UNCHANGED <<outside, list, extracted, notWorking, mutexes, platform, crashed>>
  BY <1>1 DEF DownloadCompiler, FilesTypeOK
<1>3. at[j] \in Inside /\ "verify" \in Places /\ "verify" \in Inside
  BY <1>2 DEF Inside, Unfinished, Places
<1>4. LocksOK' /\ PlacesOK'
  <2>1. j \in HoldersOf(platform[j])
    BY <1>3 DEF PlacesOK
  <2> QED
    BY <1>2, <1>3, <2>1, MoveStep
<1>5. WorkOK' /\ DiskOK'
  <2>1. /\ \A c \in Builds : c # b =>
             /\ file'[c] = file[c] /\ (c \in executable' <=> c \in executable)
             /\ (c \in extracted' <=> c \in extracted) /\ (c \in notWorking' <=> c \in notWorking)
    BY <1>2 DEF FilesTypeOK
  <2>2. ~Trying(b)
    <3>1. ASSUME NEW k \in Jobs, at[k] = "check", Build(k) = b PROVE FALSE
      <4>1. k = j
        BY <1>1, <1>3, <3>1, NobodyElse DEF Inside, Unfinished
      <4> QED
        BY <1>2, <3>1, <4>1
    <3> QED
      BY <3>1 DEF Trying
  <2>3. ~crashed /\ IsZipped(b) /\ b \in extracted' => b[2] \in Runnable \/ b \in notWorking'
    BY <1>2, <2>2 DEF DiskOK
  <2>4. platform' = platform /\ os' = os /\ crashed' = crashed
    BY <1>2 DEF outside
  <2> QED
    BY <1>1, <1>2, <1>3, <2>1, <2>3, <2>4, WriteOne
<1>6. FilesTypeOK'
  <2>1. at' \in [Jobs -> Places]
    BY <1>2, <1>3 DEF Go, FilesTypeOK
  <2> QED
    BY <1>2, <2>1 DEF FilesTypeOK, outside
<1>7. WorkingCompilersNotMarked'
  BY <1>2 DEF WorkingCompilersNotMarked
<1> QED
  BY <1>4, <1>5, <1>6, <1>7

(* A compiler that is being downloaded or verified is not being tried. *)
LEMMA NotTried ==
  ASSUME IInv, NEW j \in Jobs, at[j] \in Inside, at[j] # "check"
  PROVE  \A b \in Builds : b = Build(j) => ~Trying(b)
<1>1. ASSUME NEW k \in Jobs, at[k] = "check", Build(k) = Build(j) PROVE FALSE
  <2>1. k = j
    BY <1>1, NobodyElse DEF Inside, Unfinished, IInv
  <2> QED
    BY <1>1, <2>1
<1> QED
  BY <1>1 DEF Trying

(* _verifyCompilerDownload: a file with the wrong checksum does not stay. *)
LEMMA VerifyStep ==
  ASSUME IInv, NEW j \in Jobs, VerifyCompilerDownload(j)
  PROVE  IInv'
<1> USE DEF IInv
<1>1. PICK b \in Builds : b = Build(j)
  BY BuildOf
<1>2. /\ at[j] = "verify"
      /\ UNCHANGED <<outside, list, executable, extracted, notWorking, platform, faults, crashed>>
  BY DEF VerifyCompilerDownload
<1>3. /\ at[j] \in Inside /\ {"prepare", "failed"} \subseteq Places
      /\ "prepare" \in Inside /\ "failed" \notin Inside \cup {"queued"}
  BY <1>2 DEF Inside, Unfinished, Places
<1>4. platform' = platform /\ os' = os /\ crashed' = crashed
  BY <1>2 DEF outside
<1>5. ~crashed /\ IsZipped(b) /\ b \in extracted' => b[2] \in Runnable \/ b \in notWorking'
  <2>1. ~Trying(b)
    BY <1>1, <1>2, <1>3, NotTried
  <2> QED
    BY <1>2, <2>1 DEF DiskOK
<1>6. WorkingCompilersNotMarked'
  BY <1>2 DEF WorkingCompilersNotMarked
<1>7. CASE file[b] = "good"
  <2>1. Go(j, "prepare") /\ UNCHANGED <<file, mutexes>>
    BY <1>1, <1>7 DEF VerifyCompilerDownload
  <2>2. LocksOK' /\ PlacesOK'
    <3>1. j \in HoldersOf(platform[j])
      BY <1>3 DEF PlacesOK
    <3> QED
      BY <1>3, <1>4, <2>1, <3>1, MoveStep
  <2>3. WorkOK' /\ DiskOK'
    <3>1. \A c \in Builds : c # b =>
            /\ file'[c] = file[c] /\ (c \in executable' <=> c \in executable)
            /\ (c \in extracted' <=> c \in extracted) /\ (c \in notWorking' <=> c \in notWorking)
      BY <1>2, <2>1
    <3>2. file'[b] = "good"
      BY <1>7, <2>1
    <3> QED
      BY <1>1, <1>3, <1>4, <1>5, <2>1, <3>1, <3>2, WriteOne
  <2>4. FilesTypeOK'
    <3>1. at' \in [Jobs -> Places]
      BY <1>3, <2>1 DEF Go, FilesTypeOK
    <3> QED
      BY <1>2, <2>1, <3>1 DEF FilesTypeOK, outside
  <2> QED
    BY <1>6, <2>2, <2>3, <2>4
<1>8. CASE file[b] # "good"
  <2>1. Unlock(j) /\ Go(j, "failed") /\ file' = [file EXCEPT ![b] = "none"]
    BY <1>1, <1>8 DEF VerifyCompilerDownload, Throw
  <2>2. LocksOK' /\ PlacesOK'
    BY <1>3, <1>4, <2>1, UnlockStep
  <2>3. WorkOK' /\ DiskOK'
    <3>1. \A c \in Builds : c # b =>
            /\ file'[c] = file[c] /\ (c \in executable' <=> c \in executable)
            /\ (c \in extracted' <=> c \in extracted) /\ (c \in notWorking' <=> c \in notWorking)
      BY <1>2, <2>1 DEF FilesTypeOK
    <3>2. file'[b] = "none"
      BY <2>1 DEF FilesTypeOK
    <3>3. IsZipped(b)' = IsZipped(b) /\ (IsZipped(b) => os # "linux")
      BY <1>4 DEF IsZipped
    <3>4. ~crashed => Settled(b)'
      <4>1. CASE IsZipped(b)
        BY <1>4, <1>5, <3>3, <4>1
        DEF Settled, BinaryExists, BinaryGood, NativeSolcWorks
      <4>2. CASE ~IsZipped(b)
        BY <3>2, <3>3, <4>2 DEF Settled, BinaryExists
      <4> QED
        BY <4>1, <4>2
    <3> QED
      BY <1>1, <1>3, <1>4, <1>5, <2>1, <3>1, <3>4, WriteOne
  <2>4. FilesTypeOK'
    <3>1. at' \in [Jobs -> Places]
      BY <1>3, <2>1 DEF Go, FilesTypeOK
    <3>2. file' \in [Builds -> {"none", "good", "corrupt"}]
      BY <2>1 DEF FilesTypeOK
    <3> QED
      BY <1>2, <3>1, <3>2 DEF FilesTypeOK, outside
  <2> QED
    BY <1>6, <2>2, <2>3, <2>4
<1> QED
  BY <1>7, <1>8

(* _postProcessCompilerDownload *)
LEMMA PostProcessStep ==
  ASSUME IInv, NEW j \in Jobs, PostProcessCompilerDownload(j)
  PROVE  IInv'
<1> USE DEF IInv
<1>1. PICK b \in Builds : b = Build(j) /\ b[1] = platform[j]
  BY BuildOf
<1>2. /\ at[j] = "prepare"
      /\ UNCHANGED <<outside, list, file, notWorking, platform, faults, crashed>>
  BY DEF PostProcessCompilerDownload
<1>3. /\ at[j] \in Inside /\ {"get", "check"} \subseteq Places
      /\ "check" \in Inside /\ "get" \notin Inside \cup {"queued"}
  BY <1>2 DEF Inside, Unfinished, Places
<1>4. platform' = platform /\ os' = os /\ crashed' = crashed
  BY <1>2 DEF outside
<1>5. file[b] = "good" /\ file'[b] = "good"
  BY <1>1, <1>2 DEF WorkOK
<1>6. WorkingCompilersNotMarked'
  BY <1>2 DEF WorkingCompilersNotMarked
<1>7. CASE platform[j] = "wasm"
  <2>1. Go(j, "get") /\ Unlock(j) /\ executable' = executable /\ extracted' = extracted
    BY <1>7 DEF PostProcessCompilerDownload
  <2>2. LocksOK' /\ PlacesOK'
    BY <1>3, <1>4, <2>1, UnlockStep
  <2>3. WorkOK' /\ DiskOK'
    <3>1. \A c \in Builds : c # b =>
            /\ file'[c] = file[c] /\ (c \in executable' <=> c \in executable)
            /\ (c \in extracted' <=> c \in extracted) /\ (c \in notWorking' <=> c \in notWorking)
      BY <1>2, <2>1
    <3>2. ~IsZipped(b) /\ ~IsZipped(b)' /\ b[1] # "native"
      BY <1>1, <1>7 DEF IsZipped
    <3>3. Settled(b)'
      BY <1>5, <3>2 DEF Settled, BinaryGood
    <3> QED
      BY <1>1, <1>3, <1>4, <2>1, <3>1, <3>2, <3>3, WriteOne
  <2>4. FilesTypeOK'
    <3>1. at' \in [Jobs -> Places]
      BY <1>3, <2>1 DEF Go, FilesTypeOK
    <3> QED
      BY <1>2, <2>1, <3>1 DEF FilesTypeOK, outside
  <2> QED
    BY <1>6, <2>2, <2>3, <2>4
<1>8. CASE platform[j] # "wasm"
  <2>1. /\ executable' = Prepared(b)[1] /\ extracted' = Prepared(b)[2]
        /\ Go(j, "check") /\ UNCHANGED mutexes
    BY <1>1, <1>8 DEF PostProcessCompilerDownload
  <2>2. /\ executable' = (IF os = "linux" THEN executable \cup {b} ELSE executable)
        /\ extracted' = (IF IsZipped(b) THEN extracted \cup {b} ELSE extracted)
    BY <2>1 DEF Prepared
  <2>3. LocksOK' /\ PlacesOK'
    <3>1. j \in HoldersOf(platform[j])
      BY <1>3 DEF PlacesOK
    <3> QED
      BY <1>3, <1>4, <2>1, <3>1, MoveStep
  <2>4. WorkOK' /\ DiskOK'
    <3>1. \A c \in Builds : c # b =>
            /\ file'[c] = file[c] /\ (c \in executable' <=> c \in executable)
            /\ (c \in extracted' <=> c \in extracted) /\ (c \in notWorking' <=> c \in notWorking)
      BY <1>2, <2>2
    <3>2. platform[j] = "native"
      BY <1>8 DEF FilesTypeOK, Platforms
    <3>3. (os = "linux" => b \in executable') /\ (IsZipped(b) => b \in extracted')
      BY <2>2
    <3> QED
      BY <1>1, <1>3, <1>4, <1>5, <2>1, <3>1, <3>2, <3>3, WriteOne
  <2>5. FilesTypeOK'
    <3>1. at' \in [Jobs -> Places]
      BY <1>3, <2>1 DEF Go, FilesTypeOK
    <3>2. executable' \subseteq Builds /\ extracted' \subseteq Builds
      BY <2>2 DEF FilesTypeOK
    <3> QED
      BY <1>2, <3>1, <3>2 DEF FilesTypeOK, outside
  <2> QED
    BY <1>6, <2>3, <2>4, <2>5
<1> QED
  BY <1>7, <1>8

(* Unzipping fails: what an earlier download unpacked was tried. *)
LEMMA UnzipFailsStep ==
  ASSUME IInv, NEW j \in Jobs, UnzipFails(j)
  PROVE  IInv'
<1> USE DEF IInv
<1>1. PICK b \in Builds : b = Build(j) /\ b[1] = platform[j]
  BY BuildOf
<1>2. /\ at[j] = "prepare" /\ IsZipped(b) /\ faults' = faults + 1
      /\ Unlock(j) /\ Go(j, "failed")
      /\ UNCHANGED <<outside, files, platform, crashed>>
  BY <1>1 DEF UnzipFails, Throw
<1>3. at[j] \in Inside /\ "failed" \in Places /\ "failed" \notin Inside \cup {"queued"}
  BY <1>2 DEF Inside, Unfinished, Places
<1>4. /\ platform' = platform /\ os' = os /\ published' = published /\ crashed' = crashed
      /\ list' = list /\ file' = file /\ executable' = executable
      /\ extracted' = extracted /\ notWorking' = notWorking
  BY <1>2 DEF outside, files
<1>5. LocksOK' /\ PlacesOK'
  BY <1>2, <1>3, <1>4, UnlockStep
<1>6. ~crashed /\ b \in extracted => b[2] \in Runnable \/ b \in notWorking
  <2>1. ~Trying(b)
    BY <1>1, <1>2, <1>3, NotTried
  <2> QED
    BY <1>2, <2>1 DEF DiskOK
<1>7. os = "win32"
  BY <1>2 DEF IsZipped
<1>8. ~crashed => Settled(b)'
  <2>1. IsZipped(b)'
    BY <1>2, <1>4 DEF IsZipped
  <2> QED
    BY <1>4, <1>6, <1>7, <2>1 DEF Settled, BinaryExists, BinaryGood, NativeSolcWorks
<1>9. WorkOK' /\ DiskOK'
  BY <1>1, <1>2, <1>3, <1>4, <1>6, <1>8, WriteOne
<1>10. FilesTypeOK'
  <2>1. at' \in [Jobs -> Places]
    BY <1>2, <1>3 DEF Go, FilesTypeOK
  <2> QED
    BY <1>2, <1>4, <2>1 DEF FilesTypeOK
<1>11. WorkingCompilersNotMarked'
  BY <1>4 DEF WorkingCompilersNotMarked
<1> QED
  BY <1>5, <1>9, <1>10, <1>11

(* _checkNativeSolc: only a compiler that this machine cannot run is       *)
(* marked, since it is whole and executable by now.                        *)
LEMMA CheckStep ==
  ASSUME IInv, NEW j \in Jobs, CheckNativeSolc(j)
  PROVE  IInv'
<1> USE DEF IInv
<1>1. PICK b \in Builds : b = Build(j)
  BY BuildOf
<1>2. /\ at[j] = "check" /\ Go(j, "get") /\ Unlock(j)
      /\ notWorking' = (IF NativeSolcWorks(b) THEN notWorking ELSE notWorking \cup {b})
      /\ UNCHANGED <<outside, list, file, executable, extracted, platform, faults, crashed>>
  BY <1>1 DEF CheckNativeSolc
<1>3. at[j] \in Inside /\ "get" \in Places /\ "get" \notin Inside \cup {"queued"}
  BY <1>2 DEF Inside, Unfinished, Places
<1>4. platform' = platform /\ os' = os /\ crashed' = crashed
  BY <1>2 DEF outside
<1>5. /\ file[b] = "good" /\ (os = "linux" => b \in executable)
      /\ (IsZipped(b) => b \in extracted)
  BY <1>1, <1>2 DEF WorkOK
<1>6. BinaryGood(b)
  BY <1>5 DEF BinaryGood
<1>7. NativeSolcWorks(b) <=> b[2] \in Runnable
  BY <1>5, <1>6 DEF NativeSolcWorks
<1>8. b[2] \in Runnable \/ b \in notWorking'
  BY <1>2, <1>7
<1>9. LocksOK' /\ PlacesOK'
  BY <1>2, <1>3, <1>4, UnlockStep
<1>10. Settled(b)'
  <2>1. BinaryGood(b)' /\ (NativeSolcWorks(b)' <=> NativeSolcWorks(b))
    BY <1>2, <1>4, <1>6 DEF BinaryGood, NativeSolcWorks, IsZipped
  <2> QED
    BY <1>7, <1>8, <2>1 DEF Settled
<1>11. WorkOK' /\ DiskOK'
  <2>1. \A c \in Builds : c # b =>
          /\ file'[c] = file[c] /\ (c \in executable' <=> c \in executable)
          /\ (c \in extracted' <=> c \in extracted) /\ (c \in notWorking' <=> c \in notWorking)
    BY <1>2
  <2> QED
    BY <1>1, <1>2, <1>3, <1>4, <1>8, <1>10, <2>1, WriteOne
<1>12. WorkingCompilersNotMarked'
  BY <1>2, <1>7 DEF WorkingCompilersNotMarked
<1>13. FilesTypeOK'
  <2>1. at' \in [Jobs -> Places]
    BY <1>2, <1>3 DEF Go, FilesTypeOK
  <2>2. notWorking' \subseteq Builds
    BY <1>2 DEF FilesTypeOK
  <2> QED
    BY <1>2, <2>1, <2>2 DEF FilesTypeOK, outside
<1> QED
  BY <1>9, <1>11, <1>12, <1>13

(* The steps that write to no compiler *)
LEMMA OtherJobSteps ==
  ASSUME IInv, NEW j \in Jobs,
         \/ IsCompilerDownloaded(j) \/ Enter(j) \/ Lookup(j) \/ DownloadCompilerList(j)
         \/ DownloadBrokenList(j) \/ DownloadFails(j) \/ GetCompiler(j) \/ RunCompiler(j)
  PROVE  IInv'
<1> USE DEF IInv
<1>0. /\ {"new", "queued", "get", "using", "done", "failed"} \subseteq Places
      /\ Inside \subseteq Places
      /\ {"new", "get", "using", "done", "failed"} \cap (Inside \cup {"queued"}) = {}
      /\ {"lookup", "fetchList", "download"} \subseteq Inside
  BY DEF Places, Inside, Unfinished
<1>1. ASSUME NEW place \in Places \ {"prepare", "check"}, Go(j, place),
             at[j] \notin {"verify", "prepare", "check"},
             \A k \in Jobs : k # j => platform'[k] = platform[k],
             platform' \in [Jobs -> Platforms], faults' \in Nat,
             list' \in [Platforms -> CompilerList],
             UNCHANGED <<outside, file, executable, extracted, notWorking, crashed>>,
             LocksOK', PlacesOK'
      PROVE  IInv'
  <2>1. UNCHANGED <<os, file, executable, extracted, notWorking, crashed>>
    BY <1>1 DEF outside
  <2>2. WorkOK' /\ DiskOK' /\ WorkingCompilersNotMarked'
    BY <1>1, <2>1, FilesKept
  <2>3. at' \in [Jobs -> Places]
    BY <1>1 DEF Go, FilesTypeOK
  <2>4. FilesTypeOK'
    BY <1>1, <2>3 DEF FilesTypeOK, outside
  <2> QED
    BY <1>1, <2>2, <2>4
<1>2. faults \in Nat /\ list \in [Platforms -> CompilerList] /\ platform \in [Jobs -> Platforms]
  BY DEF FilesTypeOK
<1>3. CASE IsCompilerDownloaded(j)
  <2>1. at[j] = "new" /\ UNCHANGED <<outside, files, platform, faults, crashed>>
    BY <1>3 DEF IsCompilerDownloaded
  <2>2. ASSUME NEW place \in {"get", "failed"}, Go(j, place), UNCHANGED mutexes
        PROVE  IInv'
    <3>1. LocksOK' /\ PlacesOK'
      BY <1>0, <2>1, <2>2, MoveStep
    <3>2. place \in Places \ {"prepare", "check"}
      BY <1>0
    <3> QED
      BY <1>1, <1>2, <2>1, <2>2, <3>1, <3>2 DEF files
  <2>3. CASE Go(j, "queued") /\ Lock(j)
    <3>1. LocksOK' /\ PlacesOK'
      BY <2>1, <2>3, LockStep
    <3> QED
      BY <1>0, <1>1, <1>2, <2>1, <2>3, <3>1 DEF files
  <2> QED
    BY <1>3, <2>2, <2>3 DEF IsCompilerDownloaded
<1>4. CASE Enter(j)
  <2>1. /\ at[j] = "queued" /\ Has(j) /\ Go(j, "lookup")
        /\ UNCHANGED <<outside, files, mutexes, platform, faults, crashed>>
    BY <1>4 DEF Enter
  <2>2. j \in HoldersOf(platform[j])
    BY <2>1 DEF Has, HoldersOf
  <2>3. LocksOK' /\ PlacesOK'
    BY <1>0, <2>1, <2>2, MoveStep
  <2> QED
    BY <1>0, <1>1, <1>2, <2>1, <2>3 DEF files
<1>5. CASE Lookup(j)
  <2>1. at[j] = "lookup" /\ UNCHANGED <<outside, files, platform, faults, crashed>>
    BY <1>5 DEF Lookup
  <2>2. at[j] \in Inside /\ j \in HoldersOf(platform[j])
    BY <1>0, <2>1 DEF PlacesOK
  <2>3. ASSUME NEW place \in {"download", "fetchList"}, Go(j, place), UNCHANGED mutexes
        PROVE  IInv'
    <3>1. place \in Inside /\ place \in Places \ {"prepare", "check"}
      BY <1>0
    <3>2. LocksOK' /\ PlacesOK'
      BY <2>1, <2>2, <2>3, <3>1, MoveStep
    <3> QED
      BY <1>1, <1>2, <2>1, <2>3, <3>1, <3>2 DEF files
  <2>4. CASE Throw(j)
    <3>1. Unlock(j) /\ Go(j, "failed")
      BY <2>4 DEF Throw
    <3>2. LocksOK' /\ PlacesOK'
      BY <1>0, <2>1, <2>2, <3>1, UnlockStep
    <3> QED
      BY <1>0, <1>1, <1>2, <2>1, <3>1, <3>2 DEF files
  <2> QED
    BY <1>5, <2>3, <2>4 DEF Lookup
<1>6. CASE DownloadCompilerList(j)
  <2>1. /\ at[j] = "fetchList"
        /\ list' = [list EXCEPT ![platform[j]] =
                      [fresh |-> TRUE, readable |-> TRUE, versions |-> published]]
        /\ UNCHANGED <<outside, file, executable, extracted, notWorking, platform, faults, crashed>>
    BY <1>6 DEF DownloadCompilerList
  <2>2. at[j] \in Inside /\ j \in HoldersOf(platform[j])
    BY <1>0, <2>1 DEF PlacesOK
  <2>3. list' \in [Platforms -> CompilerList]
    <3>1. [fresh |-> TRUE, readable |-> TRUE, versions |-> published] \in CompilerList
      BY DEF CompilerList, FilesTypeOK
    <3> QED
      BY <1>2, <2>1, <3>1
  <2>4. CASE Go(j, "download") /\ UNCHANGED mutexes
    <3>1. LocksOK' /\ PlacesOK'
      BY <1>0, <2>1, <2>2, <2>4, MoveStep
    <3> QED
      BY <1>0, <1>1, <1>2, <2>1, <2>3, <2>4, <3>1
  <2>5. CASE Throw(j)
    <3>1. Unlock(j) /\ Go(j, "failed")
      BY <2>5 DEF Throw
    <3>2. LocksOK' /\ PlacesOK'
      BY <1>0, <2>1, <2>2, <3>1, UnlockStep
    <3> QED
      BY <1>0, <1>1, <1>2, <2>1, <2>3, <3>1, <3>2
  <2> QED
    BY <1>6, <2>4, <2>5 DEF DownloadCompilerList
<1>7. CASE DownloadFails(j)
  <2>1. /\ at[j] \in {"fetchList", "download"} /\ faults' = faults + 1
        /\ Unlock(j) /\ Go(j, "failed")
        /\ UNCHANGED <<outside, files, platform, crashed>>
    BY <1>7 DEF DownloadFails, Throw
  <2>2. at[j] \in Inside /\ faults' \in Nat
    BY <1>0, <1>2, <2>1
  <2>3. LocksOK' /\ PlacesOK'
    BY <1>0, <2>1, <2>2, UnlockStep
  <2> QED
    BY <1>0, <1>1, <1>2, <2>1, <2>2, <2>3 DEF files
<1>7a. CASE DownloadBrokenList(j)
  <2>1. /\ at[j] = "fetchList" /\ faults' = faults + 1
        /\ list' = [list EXCEPT ![platform[j]] = BrokenList]
        /\ Unlock(j) /\ Go(j, "failed")
        /\ UNCHANGED <<outside, file, executable, extracted, notWorking, platform, crashed>>
    BY <1>7a DEF DownloadBrokenList, Throw
  <2>2. at[j] \in Inside /\ faults' \in Nat
    BY <1>0, <1>2, <2>1
  <2>3. list' \in [Platforms -> CompilerList]
    BY <1>2, <2>1 DEF BrokenList, CompilerList
  <2>4. LocksOK' /\ PlacesOK'
    BY <1>0, <2>1, <2>2, UnlockStep
  <2> QED
    BY <1>0, <1>1, <1>2, <2>1, <2>2, <2>3, <2>4
<1>8. CASE GetCompiler(j)
  <2>1. at[j] = "get" /\ UNCHANGED <<outside, files, mutexes, faults, crashed>>
    BY <1>8 DEF GetCompiler
  <2>2. PICK place \in {"failed", "using", "new"} : Go(j, place)
    BY <1>8 DEF GetCompiler
  <2>3. platform' = platform \/ platform' = [platform EXCEPT ![j] = "wasm"]
    BY <1>8 DEF GetCompiler
  <2>4. /\ platform' \in [Jobs -> Platforms]
        /\ \A k \in Jobs : k # j => platform'[k] = platform[k]
    BY <1>2, <2>3 DEF Platforms
  <2>5. LocksOK' /\ PlacesOK'
    BY <1>0, <2>1, <2>2, <2>4, MoveStep
  <2> QED
    BY <1>0, <1>1, <1>2, <2>1, <2>2, <2>4, <2>5 DEF files
<1>9. CASE RunCompiler(j)
  <2>1. at[j] = "using" /\ UNCHANGED <<outside, files, mutexes, platform, faults, crashed>>
    BY <1>9 DEF RunCompiler
  <2>2. PICK place \in {"done", "failed"} : Go(j, place)
    BY <1>9 DEF RunCompiler
  <2>3. LocksOK' /\ PlacesOK'
    BY <1>0, <2>1, <2>2, MoveStep
  <2> QED
    BY <1>0, <1>1, <1>2, <2>1, <2>2, <2>3 DEF files
<1> QED
  BY <1>3, <1>4, <1>5, <1>6, <1>7, <1>7a, <1>8, <1>9

(* A new process finds the files as the old one left them: settled, unless *)
(* it died between a download and the end of the trial run.                *)
LEMMA NewProcess ==
  ASSUME IInv, AllNew, UNCHANGED <<os, file, executable, extracted, notWorking>>,
         ~crashed' => ~crashed /\ \A j \in Jobs : at[j] \notin Unfinished
  PROVE  WorkOK' /\ DiskOK' /\ WorkingCompilersNotMarked'
<1> USE DEF IInv
<1>1. \A j \in Jobs : at'[j] = "new"
  BY AllNewStep
<1>2. WorkOK'
  BY <1>1 DEF WorkOK
<1>3. DiskOK'
  <2> SUFFICES ASSUME ~crashed', NEW b \in Builds
               PROVE  /\ Settled(b)'
                      /\ IsZipped(b)' /\ b \in extracted' =>
                           b[2] \in Runnable \/ b \in notWorking'
    BY DEF DiskOK
  <2>1. ~Writing(b) /\ ~Trying(b)
    BY DEF Writing, Trying, Inside, Unfinished
  <2>2. /\ Settled(b)
        /\ IsZipped(b) /\ b \in extracted => b[2] \in Runnable \/ b \in notWorking
    BY <2>1 DEF DiskOK
  <2>3. IsZipped(b)' = IsZipped(b) /\ Settled(b)' = Settled(b)
    BY DEF IsZipped, Settled, BinaryExists, BinaryGood, NativeSolcWorks
  <2> QED
    BY <2>2, <2>3
<1> QED
  BY <1>2, <1>3 DEF WorkingCompilersNotMarked

(* The process dies. *)
LEMMA CrashStep ==
  ASSUME IInv, Crash
  PROVE  IInv'
<1>1. /\ AllNew /\ faults' = faults + 1 /\ UNCHANGED <<outside, files>>
      /\ crashed' = (crashed \/ \E j \in Jobs : at[j] \in Unfinished)
  BY DEF Crash
<1>2. UNCHANGED <<os, file, executable, extracted, notWorking>>
  BY <1>1 DEF outside, files
<1>3. ~crashed' => ~crashed /\ \A j \in Jobs : at[j] \notin Unfinished
  BY <1>1
<1>4. WorkOK' /\ DiskOK' /\ WorkingCompilersNotMarked'
  BY <1>1, <1>2, <1>3, NewProcess
<1>5. /\ LocksOK' /\ PlacesOK' /\ at' \in [Jobs -> Places]
      /\ platform' \in [Jobs -> Platforms]
  BY <1>1, AllNewStep
<1>6. FilesTypeOK'
  <2>1. crashed' \in BOOLEAN
    BY <1>1 DEF IInv, FilesTypeOK
  <2>2. /\ os' = os /\ published' = published /\ list' = list /\ file' = file
        /\ executable' = executable /\ extracted' = extracted /\ notWorking' = notWorking
        /\ faults' = faults + 1
    BY <1>1 DEF outside, files
  <2> QED
    BY <1>5, <2>1, <2>2 DEF IInv, FilesTypeOK
<1> QED
  BY <1>4, <1>5, <1>6 DEF IInv

(* Another run of the task *)
LEMMA NextRunStep ==
  ASSUME IInv, NextRun
  PROVE  IInv'
<1>1. AllNew /\ Ended /\ os' = os /\ published' = published /\ faults' = faults
  BY DEF NextRun, outside
<1>2. \A j \in Jobs : at[j] \notin Unfinished
  BY <1>1 DEF Ended, Inside, Unfinished
<1>3. /\ LocksOK' /\ PlacesOK' /\ at' \in [Jobs -> Places]
      /\ platform' \in [Jobs -> Platforms] /\ \A j \in Jobs : at'[j] = "new"
  BY <1>1, AllNewStep
<1>4. ASSUME UNCHANGED <<file, executable, extracted, notWorking, crashed>>,
             list' \in [Platforms -> CompilerList]
      PROVE  IInv'
  <2>1. WorkOK' /\ DiskOK' /\ WorkingCompilersNotMarked'
    BY <1>1, <1>2, <1>4, NewProcess
  <2>2. FilesTypeOK'
    BY <1>1, <1>3, <1>4 DEF IInv, FilesTypeOK
  <2> QED
    BY <1>3, <2>1, <2>2 DEF IInv
<1>5. CASE UNCHANGED <<files, crashed>>
  BY <1>4, <1>5 DEF files, IInv, FilesTypeOK
<1>6. CASE /\ list' = [p \in Platforms |-> [list[p] EXCEPT !.fresh = FALSE]]
           /\ UNCHANGED <<file, executable, extracted, notWorking, crashed>>
  <2>1. list \in [Platforms -> CompilerList]
    BY DEF IInv, FilesTypeOK
  <2>2. list' \in [Platforms -> CompilerList]
    BY <1>6, <2>1 DEF CompilerList
  <2> QED
    BY <1>4, <1>6, <2>2
<1>7. CASE /\ list' = [p \in Platforms |-> NoList]
           /\ file' = [b \in Builds |-> "none"]
           /\ executable' = {} /\ extracted' = {} /\ notWorking' = {}
           /\ crashed' = FALSE
  <2>1. WorkOK'
    BY <1>3 DEF WorkOK
  <2>2. DiskOK'
    BY <1>7 DEF DiskOK, Settled, BinaryExists
  <2>3. list' \in [Platforms -> CompilerList]
    BY <1>7 DEF NoList, CompilerList
  <2>4. crashed' \in BOOLEAN
    BY <1>7
  <2>5. FilesTypeOK'
    BY <1>1, <1>3, <1>7, <2>3, <2>4 DEF IInv, FilesTypeOK
  <2> QED
    BY <1>3, <1>7, <2>1, <2>2, <2>5 DEF IInv, WorkingCompilersNotMarked
<1> QED
  BY <1>5, <1>6, <1>7 DEF NextRun

(* Nothing of the disk or of the jobs changes. *)
LEMMA QuietStep ==
  ASSUME IInv, UNCHANGED <<os, files, at, platform, faults, crashed>>,
         published' \subseteq Versions, LocksOK', PlacesOK'
  PROVE  IInv'
<1>1. FilesTypeOK'
  BY DEF IInv, FilesTypeOK, files
<1>2. WorkOK'
  BY DEF IInv, WorkOK, files, Build, IsZipped
<1>3. ASSUME NEW b PROVE /\ Writing(b)' = Writing(b) /\ Trying(b)' = Trying(b)
                         /\ Settled(b)' = Settled(b) /\ IsZipped(b)' = IsZipped(b)
  BY DEF Writing, Trying, Settled, BinaryExists, BinaryGood, NativeSolcWorks, IsZipped,
         Build, files
<1>4. DiskOK'
  BY <1>3 DEF IInv, DiskOK, files
<1> QED
  BY <1>1, <1>2, <1>4 DEF IInv, WorkingCompilersNotMarked, files

-----------------------------------------------------------------------------
(* The theorems *)

(* Before the first run *)
LEMMA InitHolds ==
  ASSUME Permits = 1, DownloaderInit
  PROVE  IInv
<1>1. \A q : /\ CountOf(q) = 1 /\ TasksOf(q) = <<>> /\ HoldersOf(q) = {} /\ TicksOf(q) = 0
  BY DEF DownloaderInit, Init, WasmMutex!Init, CountOf, TasksOf, HoldersOf, TicksOf
<1>2. MutexOK(1, <<>>, {})
  BY DEF MutexOK, AtMostOne, OneEntryEach
<1>3. LocksOK
  <2> SUFFICES ASSUME NEW q \in Platforms
               PROVE  MutexOK(CountOf(q), TasksOf(q), HoldersOf(q)) /\ TicksOf(q) \in Nat
    BY DEF LocksOK
  <2>1. CountOf(q) = 1 /\ TasksOf(q) = <<>> /\ HoldersOf(q) = {} /\ TicksOf(q) = 0
    BY <1>1
  <2> QED
    BY <1>2, <2>1
<1>4. /\ at = [j \in Jobs |-> "new"] /\ platform = [j \in Jobs |-> "native"]
      /\ list = [p \in Platforms |-> NoList] /\ file = [b \in Builds |-> "none"]
      /\ executable = {} /\ extracted = {} /\ notWorking = {} /\ faults = 0
      /\ os \in {"linux", "win32"} /\ published = Published \cap Versions
  BY DEF DownloaderInit
<1>5. PlacesOK
  BY <1>1, <1>4 DEF PlacesOK, Inside, Unfinished
<1>6. WorkOK
  BY <1>4 DEF WorkOK
<1>7. DiskOK
  BY <1>4 DEF DiskOK, Settled, BinaryExists
<1>8. crashed \in BOOLEAN
  BY DEF DownloaderInit
<1>9. list \in [Platforms -> CompilerList]
  BY <1>4 DEF NoList, CompilerList
<1>10. FilesTypeOK
  BY <1>4, <1>8, <1>9 DEF FilesTypeOK, Places, Platforms
<1> QED
  BY <1>3, <1>4, <1>5, <1>6, <1>7, <1>10 DEF IInv, WorkingCompilersNotMarked

(* Every step keeps the invariant. *)
LEMMA NextHolds ==
  ASSUME IInv, [DownloaderNext]_downloaderVars
  PROVE  IInv'
<1>1. ASSUME NEW j \in Jobs, JobStep(j) PROVE IInv'
  BY <1>1, OtherJobSteps, DownloadStep, VerifyStep, PostProcessStep, UnzipFailsStep, CheckStep
     DEF JobStep
<1>2. CASE MutexTick
  <2>1. LocksOK' /\ PlacesOK'
    BY <1>2, TickStep DEF IInv
  <2>2. UNCHANGED <<os, files, at, platform, faults, crashed>> /\ published' \subseteq Versions
    BY <1>2 DEF MutexTick, outside, IInv, FilesTypeOK
  <2> QED
    BY <2>1, <2>2, QuietStep
<1>3. CASE Crash
  BY <1>3, CrashStep
<1>4. CASE NextRun
  BY <1>4, NextRunStep
<1>5. ASSUME UNCHANGED <<mutexes, os, files, at, platform, faults, crashed>>,
             published' \subseteq Versions
      PROVE  IInv'
  <2>1. \A q : /\ CountOf(q)' = CountOf(q) /\ TasksOf(q)' = TasksOf(q)
               /\ HoldersOf(q)' = HoldersOf(q) /\ TicksOf(q)' = TicksOf(q)
    BY <1>5 DEF mutexes, vars, wasmVars, CountOf, TasksOf, HoldersOf, TicksOf
  <2>2. LocksOK'
    BY <2>1 DEF IInv, LocksOK
  <2>3. PlacesOK'
    <3>1. \A j \in Jobs : HoldersOf(platform[j])' = HoldersOf(platform[j])
      BY <1>5 DEF HoldersOf, mutexes, vars, wasmVars
    <3> QED
      BY <1>5, <2>1, <3>1 DEF IInv, PlacesOK
  <2> QED
    BY <1>5, <2>2, <2>3, QuietStep
<1>6. CASE Publish
  BY <1>5, <1>6 DEF Publish
<1>7. CASE UNCHANGED downloaderVars
  BY <1>5, <1>7 DEF downloaderVars, outside, IInv, FilesTypeOK
<1> QED
  BY <1>1, <1>2, <1>3, <1>4, <1>6, <1>7 DEF DownloaderNext

(* The mutexes, the places of the jobs and the compilers on disk agree. *)
THEOREM Invariance ==
  ASSUME Permits = 1
  PROVE  DownloaderSpec => []IInv
<1>1. DownloaderInit => IInv
  BY InitHolds
<1>2. IInv /\ [DownloaderNext]_downloaderVars => IInv'
  BY NextHolds
<1> QED
  BY <1>1, <1>2, PTL DEF DownloaderSpec

(* The downloader keeps its types: the mutexes, the files and the jobs. *)
THEOREM TypeCorrect ==
  ASSUME Permits = 1
  PROVE  DownloaderSpec => []DownloaderTypeOK
<1>1. IInv => DownloaderTypeOK
  <2> SUFFICES ASSUME IInv PROVE DownloaderTypeOK
    OBVIOUS
  <2>1. \A p \in Platforms : /\ CountOf(p) \in Nat /\ TasksOf(p) \in Seq(Callers)
                            /\ HoldersOf(p) \subseteq Callers /\ TicksOf(p) \in Nat
    BY DEF IInv, LocksOK, MutexOK, AtMostOne, OneEntryEach, Jobs
  <2>2. "native" \in Platforms /\ "wasm" \in Platforms
    BY DEF Platforms
  <2>3. TypeOK
    BY <2>1, <2>2 DEF TypeOK, CountOf, TasksOf, HoldersOf, TicksOf
  <2>4. WasmMutex!TypeOK
    BY <2>1, <2>2 DEF WasmMutex!TypeOK, CountOf, TasksOf, HoldersOf, TicksOf
  <2> QED
    BY <2>3, <2>4 DEF IInv, FilesTypeOK, DownloaderTypeOK
<1> QED
  BY <1>1, Invariance, PTL

(* While no job has a new download to verify, what is there was verified,  *)
(* and made executable and tried when it is native: downloadCompiler holds *)
(* the mutex from the download to the trial run, and _verifyCompilerDownload *)
(* removes what has the wrong checksum.  For any number of jobs.           *)
THEOREM CompilersVerified ==
  ASSUME Permits = 1
  PROVE  DownloaderSpec => []RestingCompilersVerified
<1>1. IInv => RestingCompilersVerified
  <2> SUFFICES ASSUME IInv, ~crashed, NEW b \in Builds, Resting(b), BinaryExists(b)
               PROVE  /\ BinaryGood(b)
                      /\ b[1] = "native" => NativeSolcWorks(b) \/ b \in notWorking
    BY DEF RestingCompilersVerified
  <2>1. ~Writing(b)
    BY DEF Writing, Resting, Inside, Unfinished
  <2> QED
    BY <2>1 DEF IInv, DiskOK, Settled
<1> QED
  BY <1>1, Invariance, PTL

(* Only compilers that the machine cannot run get a .does.not.work file,   *)
(* whatever failed, crashed or ran at the same time before                 *)
(* _checkNativeSolc.                                                       *)
THEOREM WorkingCompilersStay ==
  ASSUME Permits = 1
  PROVE  DownloaderSpec => []WorkingCompilersNotMarked
<1>1. IInv => WorkingCompilersNotMarked
  BY DEF IInv
<1> QED
  BY <1>1, Invariance, PTL
=============================================================================
