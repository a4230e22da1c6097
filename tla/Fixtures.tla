------------------------------ MODULE Fixtures ------------------------------
(***************************************************************************)
(* loadFixture, takeSnapshot and reset of hardhat-network-helpers, over    *)
(* the snapshots that the node promises (module SnapshotStore).            *)
(*                                                                         *)
(* Tests call loadFixture one after another; a fixture that runs for the   *)
(* first time may itself call loadFixture, so the running ones are a       *)
(* stack.  Between the calls, tests use the node as they like, which       *)
(* includes evm_snapshot, evm_revert and hardhat_reset.                    *)
(***************************************************************************)
EXTENDS SnapshotStore

CONSTANTS
  FixtureFns,     \* the fixture functions
  MaxResets       \* bound on the number of resets

VARIABLES
  fixtures,   \* the entries of `snapshots` of loadFixture.ts
  running,    \* the fixtures that are running for the first time, innermost last
  restoring,  \* the entry whose snapshot was reverted and is taken again
  resets,     \* not in the code: how many times the network was reset
  disturbed   \* not in the code: the tests reverted or reset the network themselves

fixtureVars == <<shown, taken, nextSnapshotId,
                 fixtures, running, restoring, resets, disturbed>>

(* created is restorer.snapshotId, which stays what it was; current is the *)
(* id in the closure of takeSnapshot.  The rest is not in the code: the    *)
(* state that the fixture left, and the number of resets before it.        *)
LoadedFixture ==
  [fixture : FixtureFns, created : Nat, current : Nat, left : Seq(Roots), resets : Nat]

FixturesTypeOK ==
  /\ StoreTypeOK
  /\ fixtures \subseteq LoadedFixture
  /\ running \in Seq(FixtureFns)
  /\ restoring \in Seq(LoadedFixture) /\ Len(restoring) <= 1
  /\ resets \in Nat
  /\ disturbed \in BOOLEAN

Loaded(f) == \E e \in fixtures : e.fixture = f

-----------------------------------------------------------------------------

(* loadFixture(f) for the first time: f starts to run. *)
RunFixture(f) ==
  /\ ~Loaded(f)
  /\ \A i \in DOMAIN running : running[i] # f
  /\ running' = Append(running, f)
  /\ UNCHANGED <<storeVars, fixtures, restoring, resets, disturbed>>

(* f has run: its snapshot is taken and remembered. *)
FinishFixture ==
  /\ running # <<>>
  /\ Take
  /\ fixtures' = fixtures \cup
       {[fixture |-> running[Len(running)], created |-> nextSnapshotId,
         current |-> nextSnapshotId, left |-> shown, resets |-> resets]}
  /\ running' = SubSeq(running, 1, Len(running) - 1)
  /\ UNCHANGED <<restoring, resets, disturbed>>

(* loadFixture again, for the fixture of entry e: restore() reverts ... *)
RestoreFixture(e) ==
  /\ \E i \in DOMAIN taken : taken[i].id = e.current /\ Restore(i)
  /\ restoring' = <<e>>
  /\ UNCHANGED <<fixtures, running, resets, disturbed>>

(* Mutant: compares the ids that restore() renews. *)
KeptFixturesCurrent(entries, restored) ==
  {e \in entries : e.current <= nextSnapshotId}

(* The fixtures that are not newer than the restored one. *)
KeptFixtures(entries, restored) ==
  {e \in entries : e.created <= restored.created}

(* Mutant: the restorers share the variable that holds the id. *)
RenewedShared(entries, restored) ==
  {[e EXCEPT !.current = nextSnapshotId] : e \in entries}

(* snapshotId of the restorer, after evm_snapshot. *)
Renewed(entries, restored) ==
  (entries \ {restored}) \cup {[restored EXCEPT !.current = nextSnapshotId]}

(* ... and takes the snapshot again; then the newer fixtures are forgotten. *)
RetakeSnapshot ==
  /\ restoring # <<>>
  /\ Take
  /\ fixtures' = KeptFixtures(Renewed(fixtures, restoring[1]), restoring[1])
  /\ restoring' = <<>>
  /\ UNCHANGED <<running, resets, disturbed>>

(* hardhat_reset: a new node, whose snapshot ids start at 1. *)
Reset ==
  /\ shown' = <<Genesis>>
  /\ taken' = <<>>
  /\ nextSnapshotId' = 1
  /\ resets' = resets + 1
  /\ disturbed' = TRUE
  /\ UNCHANGED <<fixtures, running, restoring>>

FixturesInit ==
  /\ StoreInit
  /\ fixtures = {}
  /\ running = <<>>
  /\ restoring = <<>>
  /\ resets = 0
  /\ disturbed = FALSE

LoadFixture ==
  \/ /\ restoring = <<>>
     /\ nextSnapshotId < MaxSnapshotId
     /\ \/ \E f \in FixtureFns : RunFixture(f)
        \/ FinishFixture
        \/ \E e \in fixtures : RestoreFixture(e)
  \/ RetakeSnapshot

(* What tests and fixtures do with the node between the calls. *)
UseNode ==
  /\ restoring = <<>>
  /\ \/ /\ StoreChange \/ (nextSnapshotId < MaxSnapshotId /\ Take)
        /\ UNCHANGED <<fixtures, running, restoring, resets, disturbed>>
     \/ /\ \E i \in DOMAIN taken : Restore(i)
        /\ disturbed' = TRUE
        /\ UNCHANGED <<fixtures, running, restoring, resets>>
     \/ resets < MaxResets /\ Reset

FixturesNext == LoadFixture \/ UseNode

FixturesSpec == FixturesInit /\ [][FixturesNext]_fixtureVars

-----------------------------------------------------------------------------

SnapshotOf(e) == {i \in DOMAIN taken : taken[i].id = e.current}

(* loadFixture restores the state that the fixture left or throws, as long *)
(* as the network is not reset, whatever snapshots tests and other         *)
(* fixtures take, revert and renew in between: the id that a restorer      *)
(* keeps is never the one of another snapshot.                             *)
RestoresOwnState ==
  restoring = <<>> =>
    \A e \in fixtures : \A i \in SnapshotOf(e) :
      e.resets = resets => taken[i].shown = e.left

(* As long as the tests do not revert or reset the network themselves, the *)
(* snapshot of every loaded fixture exists, so loadFixture never throws    *)
(* FixtureSnapshotError: comparing the ids of creation, it forgets exactly *)
(* the fixtures whose snapshots a restore destroyed.                       *)
LoadedFixturesUsable ==
  (restoring = <<>> /\ ~disturbed) =>
    \A e \in fixtures : SnapshotOf(e) # {}

============================================================================
