--------------------------- MODULE SnapshotStore ---------------------------
(***************************************************************************)
(* What evm_snapshot and evm_revert promise of the world state, as a       *)
(* client sees it: `shown` is the state that a read at each block returns, *)
(* only the latest one ever changes, and a revert brings back all of them  *)
(* as they were when the snapshot was taken.  A snapshot can be used once; *)
(* using it drops the later ones.  Module NodeState implements this.       *)
(***************************************************************************)
EXTENDS Integers, Sequences

CONSTANTS
  Roots,          \* the world states
  Genesis,        \* the state of the first block
  MaxBlock,       \* bound on the number of the latest block
  MaxSnapshotId   \* bound on the snapshot ids

ASSUME GenesisAssumption == Genesis \in Roots
ASSUME StoreBounds == MaxBlock \in Nat /\ MaxSnapshotId \in Nat

VARIABLES
  shown,          \* shown[n + 1] is the state at block n
  taken,          \* the snapshots that can be reverted to, oldest first
  nextSnapshotId  \* the id of the next snapshot

storeVars == <<shown, taken, nextSnapshotId>>

StoreSnapshot == [id : Nat, shown : Seq(Roots)]

StoreTypeOK ==
  /\ shown \in Seq(Roots) /\ shown # <<>>
  /\ taken \in Seq(StoreSnapshot)
  /\ nextSnapshotId \in Nat

(* A cheat code changes the state at the latest block. *)
SetLatest(r) ==
  /\ shown' = [shown EXCEPT ![Len(shown)] = r]
  /\ UNCHANGED <<taken, nextSnapshotId>>

AddBlock(r) ==
  /\ shown' = Append(shown, r)
  /\ UNCHANGED <<taken, nextSnapshotId>>

Take ==
  /\ taken' = Append(taken, [id |-> nextSnapshotId, shown |-> shown])
  /\ nextSnapshotId' = nextSnapshotId + 1
  /\ UNCHANGED shown

Restore(i) ==
  /\ shown' = taken[i].shown
  /\ taken' = SubSeq(taken, 1, i - 1)
  /\ UNCHANGED nextSnapshotId

StoreInit ==
  /\ shown = <<Genesis>>
  /\ taken = <<>>
  /\ nextSnapshotId = 1

StoreChange ==
  \E r \in Roots : SetLatest(r) \/ (Len(shown) <= MaxBlock /\ AddBlock(r))

StoreNext ==
  \/ StoreChange
  \/ nextSnapshotId < MaxSnapshotId /\ Take
  \/ \E i \in DOMAIN taken : Restore(i)

StoreSpec == StoreInit /\ [][StoreNext]_storeVars
============================================================================
