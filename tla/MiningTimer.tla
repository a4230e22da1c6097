---------------------------- MODULE MiningTimer -----------------------------
(***************************************************************************)
(* The timer of interval mining: MiningTimer.ts.  A timer is a value; its  *)
(* methods are operators that give the timer after the call.  Each pending *)
(* setTimeout, and each _loop that awaits the mining function, occupies a  *)
(* slot.  A block time is 0 (disabled) or a positive number; how long a    *)
(* timeout lasts is left open, so ranges and random delays are covered.    *)
(***************************************************************************)
EXTENDS Naturals

CONSTANTS
  BlockTimes,   \* the block times that may be set
  Slots         \* timeouts and loops of one timer

ASSUME BlockTimesAssumption == BlockTimes \subseteq Nat
ASSUME SlotsAssumption == Slots \subseteq Nat \ {0}

(* _timeout before the first setTimeout *)
NoTimeout == 0

Timer ==
  [state : {"STOP", "RUNNING"}, blockTime : BlockTimes,
   loops : [Slots -> {"off", "armed", "mining"}], timeout : Slots \cup {NoTimeout}]

NewTimer(blockTime) ==
  [state |-> "STOP", blockTime |-> blockTime,
   loops |-> [s \in Slots |-> "off"], timeout |-> NoTimeout]

FreeSlots(timer) == {s \in Slots : timer.loops[s] = "off"}

(* this._timeout = setTimeout(...) *)
SetTimeout(timer, s) == [timer EXCEPT !.loops[s] = "armed", !.timeout = s]

(* clearTimeout(this._timeout): no effect once it has fired *)
ClearTimeout(timer) ==
  IF timer.timeout # NoTimeout /\ timer.loops[timer.timeout] = "armed"
    THEN [timer EXCEPT !.loops[timer.timeout] = "off"]
    ELSE timer

(* enabled *)
Enabled(timer) == timer.blockTime # 0

(* start *)
Start(timer, s) ==
  IF timer.state = "RUNNING" \/ ~Enabled(timer)
    THEN timer
    ELSE [SetTimeout(timer, s) EXCEPT !.state = "RUNNING"]

(* stop *)
Stop(timer) ==
  IF timer.state = "STOP" THEN timer ELSE [ClearTimeout(timer) EXCEPT !.state = "STOP"]

(* setBlockTime *)
SetBlockTime(timer, blockTime, s) ==
  IF blockTime = 0
    THEN Stop(timer)
    ELSE Start(Stop([timer EXCEPT !.blockTime = blockTime]), s)

(* The timeout of slot s fires and _loop starts: it calls the mining       *)
(* function, unless the timer was stopped.                                 *)
Loop(timer, s) ==
  [timer EXCEPT !.loops[s] = IF timer.state = "STOP" THEN "off" ELSE "mining"]

(* Mutant: sets no timeout. *)
LoopOnce(timer, s) == [timer EXCEPT !.loops[s] = "off"]

(* The mining function has returned, and _loop sets the next timeout. *)
LoopAgain(timer, s) == SetTimeout(timer, s)
=============================================================================
