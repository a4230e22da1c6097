----------------------------- MODULE NodeState -----------------------------
(***************************************************************************)
(* The world state of a Hardhat Network node (provider/node.ts): the state *)
(* root of the state manager, the roots in the block headers, the states   *)
(* that cheat codes leave on a block after it was mined ("irregular        *)
(* states"), snapshots, and the contexts in which reads of other blocks    *)
(* and of the pending block run.                                           *)
(*                                                                         *)
(* A world state is a model value that stands for its root.  The map of    *)
(* irregular states is an object that the node and its snapshots refer to, *)
(* so it is a reference into `maps`: whether a map is shared or copied is  *)
(* what the code has to get right.  Module SnapshotStore says what the     *)
(* whole promises to its clients.                                          *)
(***************************************************************************)
EXTENDS Integers, Sequences, FiniteSets, FiniteSetsExt, Functions

CONSTANTS
  Roots,          \* the world states
  Genesis,        \* the state of the first block
  MaxBlock,       \* bound on the number of the latest block
  MaxSnapshotId,  \* bound on the snapshot ids
  NoContext       \* no read is running

ASSUME GenesisAssumption == Genesis \in Roots
ASSUME NodeBounds == MaxBlock \in Nat /\ MaxSnapshotId \in Nat

VARIABLES
  headers,        \* the state root in the header of block n is headers[n + 1]
  root,           \* the root of the state manager
  maps,           \* the maps of irregular states that are in use, by reference
  irregular,      \* node._irregularStatesByBlockNumber, a reference
  snapshots,      \* node._snapshots
  nextSnapshotId, \* node._nextSnapshotId
  context         \* the read that runs in another block's state, or NoContext

stateVars ==
  <<headers, root, maps, irregular, snapshots, nextSnapshotId, context>>

Latest == Len(headers) - 1

IrregularStates == UNION {[S -> Roots] : S \in SUBSET (0..MaxBlock)}

Snapshot ==
  [id : Nat, latest : Nat, root : Roots, map : Nat]

Context ==
  [kind : {"block", "pending"}, root : Roots, id : Nat,
   before : [headers : Seq(Roots), root : Roots, irregular : IrregularStates,
             snapshots : Seq(Snapshot)]]

ASSUME NoContextAssumption == NoContext \notin Context

StateTypeOK ==
  /\ headers \in Seq(Roots) /\ headers # <<>>
  /\ root \in Roots
  /\ \A ref \in DOMAIN maps : maps[ref] \in IrregularStates
  /\ irregular \in DOMAIN maps
  /\ snapshots \in Seq(Snapshot)
  /\ \A i \in DOMAIN snapshots : snapshots[i].map \in DOMAIN maps
  /\ nextSnapshotId \in Nat
  /\ context = NoContext \/ context \in Context

(* map.set(key, value) *)
MapSet(map, key, value) ==
  [k \in DOMAIN map \cup {key} |-> IF k = key THEN value ELSE map[k]]

-----------------------------------------------------------------------------
(* Changes of the state *)

(* hardhat_setBalance, setCode, setNonce and setStorageAt, each of which   *)
(* ends with _persistIrregularWorldState.                                  *)
PersistIrregularWorldState(r) ==
  maps' = [maps EXCEPT ![irregular] = MapSet(@, Latest, r)]

SetState(r) ==
  /\ root' = r
  /\ PersistIrregularWorldState(r)
  /\ UNCHANGED <<headers, irregular, snapshots, nextSnapshotId>>

(* mineBlock: the builder starts from the state manager's state.  A block  *)
(* that mineBlocks reserves has the root of the state manager: r = root.   *)
MineBlock(r) ==
  /\ headers' = Append(headers, r)
  /\ root' = r
  /\ UNCHANGED <<maps, irregular, snapshots, nextSnapshotId>>

-----------------------------------------------------------------------------
(* Snapshots *)

(* Mutant: the node goes on with the map it gave to the snapshot. *)
CopyMapShared(ref) == irregular' = irregular /\ maps' = maps

(* new Map(this._irregularStatesByBlockNumber), under a fresh reference. *)
CopyMap(ref) == irregular' = ref /\ maps' = MapSet(maps, ref, maps[irregular])

TakeSnapshot ==
  /\ snapshots' = Append(snapshots,
       [id |-> nextSnapshotId, latest |-> Latest, root |-> root, map |-> irregular])
  /\ CopyMap(nextSnapshotId)
  /\ nextSnapshotId' = nextSnapshotId + 1
  /\ UNCHANGED <<headers, root>>

(* Only the maps that are still referred to are kept. *)
LiveMaps(snaps, ref) == {ref} \cup {snaps[i].map : i \in DOMAIN snaps}

(* Mutant: goes on with the irregular states of the reverted blocks. *)
RevertToSnapshotKeepMap(i) ==
  LET s == snapshots[i]
  IN  /\ headers' = SubSeq(headers, 1, s.latest + 1)
      /\ root' = IF s.latest \in DOMAIN maps[s.map] THEN maps[s.map][s.latest] ELSE s.root
      /\ snapshots' = SubSeq(snapshots, 1, i - 1)
      /\ maps' = Restrict(maps, LiveMaps(snapshots', irregular))
      /\ UNCHANGED <<irregular, nextSnapshotId>>

RevertToSnapshot(i) ==
  LET s == snapshots[i]
  IN  /\ headers' = SubSeq(headers, 1, s.latest + 1)
      /\ irregular' = s.map
      /\ root' = IF s.latest \in DOMAIN maps[s.map] THEN maps[s.map][s.latest] ELSE s.root
      /\ snapshots' = SubSeq(snapshots, 1, i - 1)
      /\ maps' = Restrict(maps, LiveMaps(snapshots', s.map))
      /\ UNCHANGED nextSnapshotId

-----------------------------------------------------------------------------
(* Reads.  _runInBlockContext runs an action in the state of a block and   *)
(* restores the state in a `finally`, whether the action returns or        *)
(* throws.  For the latest block it runs the action at once.               *)

Before ==
  [headers |-> headers, root |-> root, irregular |-> maps[irregular],
   snapshots |-> snapshots]

BlockState(n) ==
  IF n \in DOMAIN maps[irregular] THEN maps[irregular][n] ELSE headers[n + 1]

SetBlockContext(n) ==
  /\ n < Latest
  /\ context' = [kind |-> "block", root |-> root, id |-> 0, before |-> Before]
  /\ root' = BlockState(n)
  /\ UNCHANGED <<headers, maps, irregular, snapshots, nextSnapshotId>>

(* _runInPendingBlockContext takes a snapshot, then mines; when mining     *)
(* throws, or when the action does, the snapshot is reverted.              *)
EnterPendingContext ==
  /\ TakeSnapshot
  /\ context' = [kind |-> "pending", root |-> root, id |-> nextSnapshotId, before |-> Before]

MinePendingBlock(r) ==
  /\ context.kind = "pending"
  /\ Latest = Len(context.before.headers) - 1
  /\ MineBlock(r)
  /\ UNCHANGED context

(* What the action does to the state manager: a call that runs and reverts *)
(* its own mutations, or the transactions that traceTransaction runs.      *)
RunInContext(r) ==
  /\ context.kind = "block"
  /\ root' = r
  /\ UNCHANGED <<headers, maps, irregular, snapshots, nextSnapshotId, context>>

(* Mutant: leaves the state manager where the action left it. *)
RestoreBlockContextForget ==
  /\ context.kind = "block"
  /\ context' = NoContext
  /\ UNCHANGED <<headers, root, maps, irregular, snapshots, nextSnapshotId>>

RestoreBlockContext ==
  /\ context.kind = "block"
  /\ root' = context.root
  /\ context' = NoContext
  /\ UNCHANGED <<headers, maps, irregular, snapshots, nextSnapshotId>>

LeavePendingContext ==
  /\ context.kind = "pending"
  /\ \E i \in DOMAIN snapshots : snapshots[i].id = context.id /\ RevertToSnapshot(i)
  /\ context' = NoContext

-----------------------------------------------------------------------------

StateInit ==
  /\ headers = <<Genesis>>
  /\ root = Genesis
  /\ irregular = 0
  /\ maps = [ref \in {0} |-> <<>>]
  /\ snapshots = <<>>
  /\ nextSnapshotId = 1
  /\ context = NoContext

(* The requests that change the state. *)
Change ==
  /\ context = NoContext
  /\ \/ \E r \in Roots : SetState(r)
     \/ Latest < MaxBlock /\ \E r \in Roots : MineBlock(r)
     \/ nextSnapshotId < MaxSnapshotId /\ TakeSnapshot
     \/ \E i \in DOMAIN snapshots : RevertToSnapshot(i)
  /\ UNCHANGED context

Read ==
  \/ /\ context = NoContext
     /\ \/ \E n \in 0..Latest : SetBlockContext(n)
        \/ nextSnapshotId < MaxSnapshotId /\ EnterPendingContext
  \/ /\ context # NoContext
     /\ \/ \E r \in Roots : RunInContext(r) \/ (Latest < MaxBlock /\ MinePendingBlock(r))
        \/ RestoreBlockContext
        \/ LeavePendingContext

StateNext == Change \/ Read

StateSpec == StateInit /\ [][StateNext]_stateVars

-----------------------------------------------------------------------------
(* The state that a read at block n shows: the state manager's at the      *)
(* latest block, when no other read has moved it.                          *)
CurrentRoot ==
  IF context # NoContext /\ context.kind = "block" THEN context.root ELSE root

Shown(n) == IF n = Latest THEN CurrentRoot ELSE BlockState(n)

(* What reads would show after a revert to snapshot s. *)
ShownAfterRevert(s, n) ==
  LET map == maps[s.map]
  IN  CASE n \in DOMAIN map -> map[n]
        [] n \notin DOMAIN map /\ n = s.latest -> s.root
        [] OTHER -> headers[n + 1]

Store == INSTANCE SnapshotStore WITH
  shown <- [i \in 1..Len(headers) |-> Shown(i - 1)],
  taken <- [i \in DOMAIN snapshots |->
              [id |-> snapshots[i].id,
               shown |-> [j \in 1..(snapshots[i].latest + 1) |->
                            ShownAfterRevert(snapshots[i], j - 1)]]]

(* The node implements the store of module SnapshotStore: a read at an old *)
(* block shows the state it had when it was last the latest one, cheat     *)
(* codes included, also when its number was used before; a cheat code used *)
(* after a snapshot does not reach what the snapshot will restore.         *)
ImplementsStore == Store!StoreSpec

(* A read, of an old block or of the pending one, leaves the chain, the    *)
(* state, the irregular states and the snapshots as they were, whether its *)
(* action succeeded or threw and wherever it threw.                        *)
ReadsLeaveNoTrace ==
  [][context # NoContext /\ context' = NoContext =>
       context.before = [headers |-> headers', root |-> root',
                         irregular |-> maps'[irregular'], snapshots |-> snapshots']]_stateVars

(* The map of irregular states has no entry for a block that does not      *)
(* exist, and its entry for the latest block is the state manager's state: *)
(* a block that gets the number of a reverted one never inherits a state.  *)
IrregularStatesAnchored ==
  \A n \in DOMAIN maps[irregular] :
    /\ n <= Latest
    /\ n = Latest => maps[irregular][n] = CurrentRoot
============================================================================
