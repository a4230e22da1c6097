------------------------------ MODULE Provider ------------------------------
(***************************************************************************)
(* HardhatNetworkProvider: requests of several clients and of the mining   *)
(* timers go through one mutex; the node and its modules are made by the   *)
(* first request, and again by hardhat_reset.                              *)
(*                                                                         *)
(* A request is one of: any handler that changes neither node nor timer    *)
(* ("other"), evm_setIntervalMining ("setInterval"), hardhat_reset         *)
(* ("reset"), a request with params as an object ("object"), and the       *)
(* hardhat_intervalMine of a timer ("intervalMine").                       *)
(***************************************************************************)
EXTENDS Integers, Sequences, FiniteSets, MiningTimer

CONSTANTS
  Clients,          \* who calls request()
  Forks,            \* fork configurations; NoFork means a local network
  NoFork,
  Reachable,        \* the configurations that a node can be made with
  InitialFork,      \* the configuration that the provider is made with
  IntervalMining,   \* the block time of the configuration
  Kinds,            \* the kinds of requests that clients make
  MaxResets,        \* bound on the number of resets
  MaxChanges,       \* bound on the number of evm_setIntervalMining
  MaxTicks          \* bound on the queued calls of _sched

ASSUME ForksAssumption ==
  NoFork \in Forks /\ InitialFork \in Forks /\ Reachable \subseteq Forks /\ NoFork \in Reachable
ASSUME IntervalMiningAssumption == IntervalMining \in BlockTimes
ASSUME KindsAssumption == Kinds \subseteq {"other", "setInterval", "reset", "object"}
ASSUME BoundsAssumption ==
  /\ MaxResets \in Nat /\ MaxChanges \in Nat /\ MaxTicks \in Nat \ {0}
  /\ Slots = 1..(MaxChanges + 1)

(* A timer belongs to the node it was made with.  The loop of a timer      *)
(* calls request() too.                                                    *)
Nodes == 1..(MaxResets + 1)
Loops == Nodes \X Slots
Callers == Clients \cup Loops

ASSUME ClientsAssumption == IsFiniteSet(Clients) /\ Clients \cap Loops = {}

Request == [kind : {"none", "other", "object", "intervalMine"}]
             \cup [kind : {"setInterval"}, blockTime : BlockTimes]
             \cup [kind : {"reset"}, fork : Forks]

None == [kind |-> "none"]

VARIABLES
  count, tasks, ticks, holders,   \* _mutex
  node,         \* _node: the number of the node, or 0 for undefined
  timers,       \* the mining timers of the nodes made so far
  forkConfig,   \* _config.forkConfig
  request,      \* the request of each caller
  pc,           \* where each request is
  resets,       \* resets asked for
  changes       \* interval changes asked for

mutexVars == <<count, tasks, ticks, holders>>
vars == <<mutexVars, node, timers, forkConfig, request, pc, resets, changes>>

Mutex == INSTANCE Semaphore
  WITH Permits <- 1

Stages == {"idle", "waiting", "init", "process", "reinit", "finish", "returned", "lost"}

TypeOK ==
  /\ Mutex!TypeOK
  /\ node \in {0} \cup Nodes
  /\ timers \in Seq(Timer) /\ Len(timers) <= MaxResets + 1
  /\ forkConfig \in Forks
  /\ request \in [Callers -> Request]
  /\ pc \in [Callers -> Stages]
  /\ resets \in 0..MaxResets
  /\ changes \in 0..MaxChanges

-----------------------------------------------------------------------------

Init ==
  /\ Mutex!Init
  /\ node = 0
  /\ timers = <<>>
  /\ forkConfig = InitialFork
  /\ request = [c \in Callers |-> None]
  /\ pc = [c \in Callers |-> "idle"]
  /\ resets = 0
  /\ changes = 0

Goto(c, stage) == pc' = [pc EXCEPT ![c] = stage]

(* A client calls request(): it asks for the mutex. *)
Call(c, r) ==
  /\ pc[c] = "idle"
  /\ Mutex!Acquire(c)
  /\ request' = [request EXCEPT ![c] = r]
  /\ Goto(c, "waiting")
  /\ resets' = resets + (IF r.kind = "reset" THEN 1 ELSE 0)
  /\ changes' = changes + (IF r.kind = "setInterval" THEN 1 ELSE 0)
  /\ UNCHANGED <<node, timers, forkConfig>>

(* The timeout of a mining timer fires.  Unless the timer was stopped, its *)
(* loop calls request({ method: "hardhat_intervalMine" }).                 *)
Fire(t, s) ==
  /\ t \in DOMAIN timers
  /\ timers[t].loops[s] = "armed"
  /\ timers' = [timers EXCEPT ![t] = Loop(timers[t], s)]
  /\ \/ /\ timers[t].state = "STOP"
        /\ UNCHANGED <<mutexVars, request, pc>>
     \/ /\ timers[t].state = "RUNNING"
        /\ Mutex!Acquire(<<t, s>>)
        /\ request' = [request EXCEPT ![<<t, s>>] = [kind |-> "intervalMine"]]
        /\ Goto(<<t, s>>, "waiting")
  /\ UNCHANGED <<node, forkConfig, resets, changes>>

(* The event loop runs a _sched of the mutex. *)
Tick ==
  /\ Mutex!Tick
  /\ UNCHANGED <<node, timers, forkConfig, request, pc, resets, changes>>

(* request() has the mutex.  Params that are an object make it throw       *)
(* before its try block, so it never releases; otherwise _send calls       *)
(* _init, which returns at once when there is a node.                      *)
Enter(c) ==
  /\ c \in holders /\ pc[c] = "waiting"
  /\ Goto(c, IF request[c].kind = "object" THEN "lost"
             ELSE IF node # 0 THEN "process" ELSE "init")
  /\ UNCHANGED <<mutexVars, node, timers, forkConfig, request, resets, changes>>

(* _init makes a node, its modules and its timer, and starts the timer. *)
MakeNode(c) ==
  /\ pc[c] \in {"init", "reinit"}
  /\ forkConfig \in Reachable
  /\ node' = Len(timers) + 1
  /\ timers' = Append(timers, Start(NewTimer(IntervalMining), 1))
  /\ Goto(c, IF pc[c] = "init" THEN "process" ELSE "finish")
  /\ UNCHANGED <<mutexVars, forkConfig, request, resets, changes>>

(* HardhatNode.create fails, as it does for any fork whose node does not   *)
(* answer: _init throws, and the request fails.                            *)
FailToMakeNode(c) ==
  /\ pc[c] \in {"init", "reinit"}
  /\ forkConfig # NoFork
  /\ Goto(c, "finish")
  /\ UNCHANGED <<mutexVars, node, timers, forkConfig, request, resets, changes>>

(* A handler that leaves node and timers alone: hardhat_intervalMine, and  *)
(* every method that is not an action of its own.                          *)
Process(c) ==
  /\ pc[c] = "process"
  /\ request[c].kind \in {"other", "intervalMine"}
  /\ Goto(c, "finish")
  /\ UNCHANGED <<mutexVars, node, timers, forkConfig, request, resets, changes>>

(* evm_setIntervalMining *)
SetIntervalMining(c) ==
  /\ pc[c] = "process"
  /\ request[c].kind = "setInterval"
  /\ LET s == CHOOSE s \in FreeSlots(Stop(timers[node])) : TRUE
     IN  timers' = [timers EXCEPT ![node] =
                      SetBlockTime(timers[node], request[c].blockTime, s)]
  /\ Goto(c, "finish")
  /\ UNCHANGED <<mutexVars, node, forkConfig, request, resets, changes>>

(* Mutant: leaves the timer of the old node running. *)
ResetKeepTimer(c) ==
  /\ pc[c] = "process"
  /\ request[c].kind = "reset"
  /\ forkConfig' = request[c].fork
  /\ node' = 0
  /\ Goto(c, "reinit")
  /\ UNCHANGED <<mutexVars, timers, request, resets, changes>>

(* hardhat_reset: _reset up to its call of _init *)
Reset(c) ==
  /\ pc[c] = "process"
  /\ request[c].kind = "reset"
  /\ forkConfig' = request[c].fork
  /\ node' = 0
  /\ timers' = [timers EXCEPT ![node] = Stop(timers[node])]
  /\ Goto(c, "reinit")
  /\ UNCHANGED <<mutexVars, request, resets, changes>>

(* The finally block of request(): the mutex is released. *)
Finish(c) ==
  /\ pc[c] = "finish"
  /\ c \in holders
  /\ Mutex!Release(c)
  /\ Goto(c, IF c \in Clients THEN "idle" ELSE "returned")
  /\ request' = [request EXCEPT ![c] = None]
  /\ UNCHANGED <<node, timers, forkConfig, resets, changes>>

(* The loop of a timer goes on after its await, some microtasks after the  *)
(* request has released the mutex.                                         *)
LoopContinues(t, s) ==
  /\ pc[<<t, s>>] = "returned"
  /\ timers' = [timers EXCEPT ![t] = LoopAgain(timers[t], s)]
  /\ Goto(<<t, s>>, "idle")
  /\ UNCHANGED <<mutexVars, node, forkConfig, request, resets, changes>>

(* A step of the request that has the mutex *)
Advance(c) ==
  \/ Enter(c) \/ MakeNode(c) \/ FailToMakeNode(c) \/ Process(c)
  \/ SetIntervalMining(c) \/ Reset(c) \/ Finish(c)

Next ==
  \/ \E c \in Clients :
     /\ ticks < MaxTicks
     /\ \/ \E kind \in Kinds \cap {"other", "object"} : Call(c, [kind |-> kind])
        \/ /\ "setInterval" \in Kinds /\ changes < MaxChanges
           /\ \E blockTime \in BlockTimes :
                Call(c, [kind |-> "setInterval", blockTime |-> blockTime])
        \/ /\ "reset" \in Kinds /\ resets < MaxResets
           /\ \E fork \in Forks : Call(c, [kind |-> "reset", fork |-> fork])
  \/ \E loop \in Loops :
       \/ ticks < MaxTicks /\ Fire(loop[1], loop[2])
       \/ LoopContinues(loop[1], loop[2])
  \/ Tick
  \/ \E c \in Callers : Advance(c)

Spec == Init /\ [][Next]_vars

(* The event loop runs the queued callbacks, expired timeouts and the      *)
(* continuation of every await; handlers and the creation of a node end.   *)
Fairness ==
  /\ WF_vars(Tick)
  /\ \A c \in Callers : WF_vars(Advance(c))
  /\ \A loop \in Loops :
       WF_vars(Fire(loop[1], loop[2])) /\ WF_vars(LoopContinues(loop[1], loop[2]))

LiveSpec == Spec /\ Fairness

-----------------------------------------------------------------------------

(* Of all the timers made so far only the one of the current node runs:    *)
(* hardhat_reset, failed or not, does not leave an old network mining.     *)
OnlyCurrentTimerRuns ==
  \A t \in DOMAIN timers : timers[t].state = "RUNNING" => t = node

(* Every request is answered, with a result or an error, whatever the      *)
(* other clients and the timers ask for.                                   *)
EveryRequestAnswered == \A c \in Clients : pc[c] = "waiting" ~> pc[c] \in {"idle", "lost"}

(* While interval mining stays enabled, blocks keep being mined. *)
IntervalMiningGoesOn ==
  []((\E t \in DOMAIN timers : timers[t].state = "RUNNING") ~>
     ((\E c \in Loops : pc[c] = "process") \/ \A t \in DOMAIN timers : timers[t].state = "STOP"))

(* The mutex around the handlers is a fair lock: requests are served in    *)
(* the order in which they came, one at a time, and a free mutex does not  *)
(* stay free while a request waits.                                        *)
MutexIsFair == Mutex!IsFairLock
=============================================================================
