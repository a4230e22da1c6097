----------------------------- MODULE EagerState -----------------------------
(***************************************************************************)
(* What the EVM and the node expect of a state manager: a world state that *)
(* holds every account in full, state roots that stand for world states    *)
(* for good, nested checkpoints, and reads in the state of another block.  *)
(* Module ForkState shows that the state manager of a forked network,      *)
(* which keeps only what was changed and asks the remote node for the      *)
(* rest, implements this.                                                  *)
(***************************************************************************)
EXTENDS Naturals, Sequences

CONSTANTS
  Accounts,     \* addresses
  Slots,        \* storage slots
  Values,       \* numbers; a code is one too, 0 is the empty code
  ForkBlock,    \* the number of the block that is forked
  Remote        \* Remote[n] is the world state of the remote chain at block n

VARIABLES
  world,        \* the current world state
  root,         \* the current state root
  worlds,       \* worlds[r] is what the state root r stands for
  checkpoints,  \* the world states to which revert() goes back
  call          \* the last call

eagerVars == <<world, root, worlds, checkpoints, call>>

Empty == [info |-> 0, code |-> 0, storage |-> [k \in Slots |-> 0]]

(* The calls that write; info stands for nonce and balance together. *)
Calls ==
  [op : {"info", "code"}, account : Accounts, value : Values]
    \cup [op : {"slot"}, account : Accounts, slot : Slots, value : Values]
    \cup [op : {"clear", "delete"}, account : Accounts]

Written(acc, c) ==
  CASE c.op = "info" -> [acc EXCEPT !.info = c.value]
    [] c.op = "code" -> [acc EXCEPT !.code = c.value]
    [] c.op = "slot" -> [acc EXCEPT !.storage[c.slot] = c.value]
    [] c.op = "clear" -> [acc EXCEPT !.storage = Empty.storage]
    [] c.op = "delete" -> Empty

Write ==
  /\ call' \in Calls
  /\ world' = [world EXCEPT ![call'.account] = Written(@, call')]
  /\ UNCHANGED <<root, worlds, checkpoints>>

NoWrite == call' = [op |-> "none"]

(* The root is one that stands for the current state. *)
Root ==
  /\ worlds' = worlds \/ worlds' = Append(worlds, world)
  /\ root' \in DOMAIN worlds' /\ worlds'[root'] = world
  /\ UNCHANGED world

GetRoot == NoWrite /\ Root /\ UNCHANGED checkpoints

Checkpoint == NoWrite /\ Root /\ checkpoints' = Append(checkpoints, world)

Commit ==
  /\ NoWrite
  /\ checkpoints # <<>>
  /\ checkpoints' = SubSeq(checkpoints, 1, Len(checkpoints) - 1)
  /\ UNCHANGED <<world, root, worlds>>

Revert ==
  /\ NoWrite
  /\ checkpoints # <<>>
  /\ world' = checkpoints[Len(checkpoints)]
  /\ checkpoints' = SubSeq(checkpoints, 1, Len(checkpoints) - 1)
  /\ root' \in DOMAIN worlds /\ worlds[root'] = world'
  /\ UNCHANGED worlds

SetRoot ==
  /\ NoWrite
  /\ root' \in DOMAIN worlds /\ world' = worlds[root']
  /\ UNCHANGED <<worlds, checkpoints>>

(* A read of block n before the fork starts. *)
EnterBlock ==
  /\ NoWrite
  /\ checkpoints = <<>>
  /\ \E n \in 0..(ForkBlock - 1) : world' = Remote[n]
  /\ worlds' = Append(worlds, world')
  /\ root' = Len(worlds')
  /\ UNCHANGED checkpoints

EagerInit ==
  /\ world = Remote[ForkBlock]
  /\ root = 1
  /\ worlds = <<world>>
  /\ checkpoints = <<>>
  /\ call = [op |-> "none"]

EagerNext == Write \/ GetRoot \/ Checkpoint \/ Commit \/ Revert \/ SetRoot \/ EnterBlock

EagerSpec == EagerInit /\ [][EagerNext]_eagerVars
=============================================================================
