# A TLA+ development of Hardhat Network

Hardhat is a development environment for Ethereum contracts. Its core, and the
part with real state and concurrency, is **Hardhat Network**: an in-process
Ethereum node with a mempool, a chain, an EVM, snapshots, a clock that users can
move, interval mining, and forks of remote networks. This directory models that
core in TLA+, and with it the parts around it that keep state on disk or across
calls: the compilation pipeline, the compiler downloader, the fork cache and the
fixtures of tests. TLC checks the models on small instances; TLAPS proves most of
their safety properties and refinements for instances of any size.

Paths below are relative to `src/packages/hardhat-core/src/internal/`; `provider/`
stands for `hardhat-network/provider/`.

## 1. The system

### How the parts interact

A client calls `request()` of `HardhatNetworkProvider` (`provider/provider.ts`).
Every request takes a mutex (`vendor/await-semaphore`), makes the node if there is
none, is handled by one of the JSON-RPC modules (`provider/modules/*.ts`), and
releases the mutex. `MiningTimer` calls the same `request()` from a timeout. The
handlers call `HardhatNode` (`provider/node.ts`), which owns the pool, the chain,
the VM with its state manager, the clock, the filters and the snapshots. With a
fork, the chain and the state manager read through a JSON-RPC client with two
caches. Around the node: the provider stack of the runtime, the compilation
pipeline with a cache on disk, the compiler downloader (which shares the mutex
implementation), tasks, configuration, and plugin packages.

All of it runs on one event loop: steps interleave at every `await`, `nextTick`
and timeout. The mutex makes one request atomic with respect to the others, so
the interleavings that matter are around the mutex, the timer, and anything
that happens *between* requests (the wall clock, resets, reverts, crashes).

### Inventory

| component | state | operations | what is hard | what makes it right |
|---|---|---|---|---|
| transaction pool (`provider/TxPool.ts`, `PoolState.ts`, `utils/reorganizeTransactionsLists.ts`) | pending and queued list per sender, hash index, gas limit, order counter, snapshots | add, replace, drop, update after a block or a gas limit change, snapshot, revert | long sequences that leave a nonce gap; a list and the index that disagree; rounding of 10% | pending nonces are consecutive from the account nonce; nothing executable is stranded; nothing valid is lost |
| chain (`provider/BlockchainData.ts`, `BlockchainBase.ts`, `HardhatBlockchain.ts`) | blocks by number, hash and transaction, receipts, reservations, length | add, read (which makes reserved blocks), reserve, delete from a number on | splitting reservations in any order, deleting through them | every number is one block; nobody can see that blocks were reserved |
| semaphore (`vendor/await-semaphore`) | count, tasks, queued ticks | acquire, tick, release | acquire looks one tick later, release looks at once | permits are conserved, no lost wakeup, first come first served |
| provider (`provider/provider.ts`) | node, fork configuration, mutex | request, `_init`, `_reset`, interval mining | failures between the mutex and the `finally`; a reset that fails half-way | handlers do not interleave; every request is answered; a reset recovers |
| mining timer (`provider/MiningTimer.ts`) | state, block time, one remembered timeout | start, stop, `setBlockTime`, loop | state read before an await, timeout set after it | a running timer never dies; only the current one runs; one loop |
| block time (`provider/node.ts`, `modules/evm.ts`) | offset, next timestamp, timestamps, snapshots | increase time, set next timestamp, mine, mine a batch, snapshot, revert | milliseconds against seconds; a wall clock that goes on during a batch and between a snapshot and its revert | timestamps increase; batches are exact; a revert restores the clock |
| block building, automining (`provider/node.ts`, `TransactionQueue.ts`) | heap, queues per sender, gas used | next, skip sender, add, build, revert | skipping a sender, failing half-way, ending | blocks respect nonces and fees; automining ends |
| world state and block contexts (`provider/node.ts`) | state root, irregular states | set balance, nonce, code, storage; run in an old or pending block | shared maps in snapshots, restoring after errors | a revert restores exactly; reads leave no trace |
| filters (`provider/filter.ts`, `node.ts`) | filters, deadlines, collected results | new, poll, uninstall, notify | expiry during notification, blocks that are reverted | every event once, none after expiry |
| forked chain and state (`provider/fork/*`) | local overlay, roots, context block; latest number, fork block | as the chain and the state, plus remote reads | a remote chain that goes on and reorganizes between two reads | local data wins; all reads fit one chain |
| JSON-RPC client (`hardhat-network/jsonrpc/client.ts`) | memory and disk cache | perform, batch | crash during a write, several processes | only safe blocks are cached, caches are transparent |
| fixtures (`packages/hardhat-network-helpers/src/loadFixture.ts`) | list of snapshots | load | ids that change when they are restored | the fixture's state is what it returned |
| compilation (`builtin-tasks/compile.ts`, files cache, artifacts) | cache, artifacts on disk | compile, filter jobs, emit, write cache, remove obsolete | jobs that fail while others emit, crashes | artifacts correspond to the sources |
| compiler downloader (`solidity/compiler/downloader.ts`) | list and binaries on disk | download list, download, verify, post-process | crash between two of them | a compiler in use was verified |
| provider stack (`core/providers/*`) | promise, emitter, nonce and chain id caches, retries | request, retry | failed initialization, rate limits | one initialization, listeners kept, bounded retries |
| tasks, configuration, CLI, stack traces, JSON-RPC server, plugins, docs | – | – | sequential, parsing, or adapters to other libraries | not modelled |

`PROJECT.json` lists every component with its status and every hazard at its line,
with the properties that cover it.

## 2. Modules

| module | what it is |
|---|---|
| `TxPool` | the pool, with the node operations that change it or the account state |
| `EagerChain` | abstract chain: every block is made when it is added |
| `Blockchain` | the local chain with reservations, and the node's snapshots of it |
| `Lock` | abstract fair lock: a line of callers, at most `Permits` inside |
| `Semaphore` | the semaphore with its ticks |
| `MiningTimer` | states and loops of a mining timer, as operators on a record |
| `Provider` | composes `Semaphore` (as the mutex) and `MiningTimer`s with requests, node creation and reset |
| `BlockClock` | the clock of the node and the timestamps of blocks |
| `Mining` | block building and automining, over `TxPool` |
| `SnapshotStore` | abstract: the state a client sees at each block, and snapshots of all of it |
| `NodeState` | state roots, irregular states, snapshots and reads in other blocks; implements `SnapshotStore` |
| `Fixtures` | `loadFixture` and its restorers, over `SnapshotStore` |
| `EagerState` | abstract state manager that holds every account in full |
| `ForkState` | `ForkStateManager`, which keeps what was written and reads the rest remotely; implements `EagerState` |
| `JsonRpcClient` | the client of a forked network, with its two caches and a remote chain that reorganizes |
| `ForkBlockchain` | the forked chain, over `JsonRpcClient` |
| `Compilation` | the compile task: files cache, jobs, artifacts, debug files, build infos |
| `Downloader` | compilation jobs that get their compilers, over two `Semaphore`s |
| `MC*` | instances for TLC (`Blockchain` needs none: its configuration gives all its constants) |
| `TxPoolProofs`, `MiningProofs`, `BlockchainProofs`, `BlockClockProofs` | theorems about the module of that name |
| `NodeProofs` | theorems about `NodeState` and `Provider` |
| `ForkProofs` | theorems about `ForkState`, `JsonRpcClient` and `ForkBlockchain` |
| `DownloaderProofs` | theorems about `Semaphore` and `Downloader` |
| `ToolingProofs` | theorems about `Fixtures` and `Compilation` |

Definitions marked *Mutant* are plausible wrong versions of the definition they
precede; nothing uses them. They show that each property can fail.

### TxPool

`pool` has the fields of `PoolState`; `world` is the nonce and balance of accounts.
A transaction is its own hash. A pending list is a sequence (position matters); a
queued list is a set, because the code sorts or filters it before use. The actions
are the branches of `addTransaction` (`PushPending`, `ReplacePending`,
`PushQueued`, `ReplaceQueued`, `RejectUnderpriced`: it takes an order id before it
throws), `removeTransaction` (`RemovePending`, `RemoveQueued`), and the callers of
`updatePendingAndQueued` (`MineBlock`, `SetBlockGasLimit`). A rejection that
changes nothing is no step. `MineBlock` abstracts the EVM: some prefix of each
pending list ran, and any balances result that an execution can leave.
`updatePendingAndQueued` and `reorganizeTransactionsLists` are closed forms
(`KeptPending`, `MovedToQueued`, `MovedToPending`) so that they can be proved about;
`PendingLoop` is the inner loop of `updatePendingAndQueued`, iteration by iteration
(`PendingStep`), and `UpdateMatchesLoop` says that it leaves the first two. A promotion
ends at the first missing nonce and behind a repeated one (`EndsRun`), as its loop does.

An impersonated contract (`Contracts`) is a sender whose nonce also grows when it
creates contracts. `QueuedNotExecutable` is stated for the other senders.

### Blockchain

`GetBlock` reads by number and makes the block if it is reserved; `AddBlock` and
`AddTransactionReceipts` are the two steps of saving a mined block, with `saving`
between them; `ReserveBlocks` is called by `hardhat_mine`; `TakeSnapshot` and
`RevertToSnapshot` are the node's. `DelBlock` is a closed form of the loop of
`_delBlock`; `DelLoop` is that loop, iteration by iteration, and
`RevertMatchesLoop` compares the two. The refinement mapping of
`LazyIsEager` is `View`: the header that a reader of number *n* sees or would see.

### Semaphore, MiningTimer, Provider

A step of `Semaphore` is one callback of the event loop. `acquire` queues a task
and a tick; `Tick` and `Release` call `_sched`, which hands over at most one
permit; calling the release callback again changes nothing.

A `MiningTimer` record has the state and up to `Slots` loops, each *armed* (its
timeout is set), *mining* (awaiting the mining function) or *off*. The class
remembers one timeout; a loop that resumes after its await sets another one
without looking at the state, which is why there can be several.

In `Provider` a request goes through *waiting*, *init*, *process*, *reinit*,
*finish*; each is one await of `request()`, `_send`, `_init` and `_reset`. A node
can be made from `Reachable` configurations, and making one for a fork may fail.
A loop of a timer is a caller like any other. One action stands for all
handlers that change neither node nor timer. *lost* is a request with object
params: it throws between the acquisition and the `try`.

### BlockClock

`now` is the wall clock in milliseconds, `offset` is `_blockTimeOffsetSeconds`,
`times` the timestamps of the chain (reserved blocks included), `job` the
`hardhat_mine` in progress. `MineBlock` is `mineBlock` as far as time is concerned;
`Mine` is `evm_mine`, an interval block or an automined one; a batch is
`MineBlocks`, `MineFirst`, then `MinePending` any number of times (how long there
are pending transactions is left open), `MineBeforeReservation`, and either
`MineRest` or `ReserveBlocks` and `MineRest`. `Tick` is possible between any two of
them. Rounding is the code's: the clock rounds up, an initial date rounds down, a
revert rounds the difference of dates up.

### Mining

`Mining` extends `TxPool` by what happens inside a request that mines. A request is a
record: *mine* (`evm_mine` or an interval block), *single* (a sent transaction when the pool
has nothing pending), and *add*, *until*, *drain*, the stages of
`_mineTransactionAndPending`: take a snapshot, add the transaction, mine until it
is included, mine until nothing is pending. `build` is the block being built: the
heap and the queues of `TransactionQueue`, the transaction at hand, the gas used
and the accounts as the VM has changed them. Each turn of the loop of
`_mineBlockWithPendingTxs` is a step: `SkipTransaction` or `RunTransaction`, until
`FinishBlock`. A transaction that the VM refuses (`CanRun` is false: the balance
no longer covers it) throws, and `MineFails` and `AutomineFails` are what the
`catch` blocks make of that. The VM charges any amount that an execution may cost (`Charges`).
`ImplementsTxPool` maps all of this to `TxPool`, whose block is one step.

### NodeState, SnapshotStore, Fixtures

A world state is a model value that stands for its root. The map of irregular
states is an object that the node and its snapshots refer to, so `irregular` is a
reference into `maps`; `CopyMap` is the copy that `takeSnapshot` makes for the
node. `context` is the read in progress, of an old block (`SetBlockContext`,
`RestoreBlockContext`) or of the pending one, which snapshots the node, mines and
reverts (`EnterPendingContext`, `MinePendingBlock`, `LeavePendingContext`); a read
may throw after any of these steps. `SnapshotStore` is the promise to clients,
and the node that `Fixtures` builds on. There, `created` is the id that
`loadFixture` compares and `current` the one in the closure of `takeSnapshot`,
which `restore` renews in a step of its own (`RetakeSnapshot`); fixtures that run for the
first time are a stack, because a fixture may load another.

### ForkState, JsonRpcClient, ForkBlockchain

An account of `ForkState` has a field for nonce and balance, one for code, and
slots, each written or `Undefined`. State roots are random in the code; here a root
is its place in `stateRootToState`. `View` is what reads return: the written part,
over the remote state at the context block. `RestoreForkBlockContext` is called
with the root the node kept, as `_restoreBlockContext` does. `ForkStateManager` does not
check that the root given to `SetStateRoot` was made at the current block context; the
guard states what the node's calls of it guarantee.

In `JsonRpcClient` a block *is* the chain that ends with it, so equal values are
equal hashes. `remote` grows and reorganizes by at most `MaxReorg` blocks, which is
what `reorgs-protection.ts` assumes. An entry of a cache is a request (`Key`) and its
answer; `MaxAffectedBlockNumber` is the function that each method passes to
`_perform`. `KilledWhileStoring` leaves a file that cannot be parsed. A
request that fails throws and stores nothing, so it is no step.
`ForkBlockchain` fetches on demand (`Read*`), keeps what it fetched in `data`, adds
and deletes local blocks. A step is one request: the remote chain may move between the two
requests of a read. For a receipt the second one is for its transaction; `awaiting` is the
receipt that has been accepted until then (`FinishReceipt`, `FailReceipt`). One transaction stands for the one that is asked for; it
may be in the remote chain before or after the fork block, and in a local block.

### Compilation

On disk are the sources, the config, the files cache, and per contract an artifact
and a debug file that names a build info. A run (`run`) goes through the phases
*jobs* and *obsolete*: `BeginCompile` reads cache and sources, builds the graph, creates,
filters and merges the jobs; `CompileJob` and `FailJob` end jobs in any order;
`WriteCache` and `RemoveObsoleteArtifacts` come last. Jobs are merged when they have the
same config *object*: a file with an override (`Overridden`) has one of its own even if its
value is that of the others (`SameCompiler`). The process ends between two writes in
`CrashInJobs` (any set of jobs may be partly emitted), and between two removals in
`CrashInRemoval` and `CrashInBuildInfoRemoval`; `NewProcess` also drops the
list of artifacts that a process has declared valid, which a second run in the same
process keeps. A build info is identified by its input and config, since its
name is a hash of them.

### Downloader

`at[j]` is the await at which job *j* is: outside the mutex while it asks whether its compiler
exists and takes it, inside from `Enter` to `Unlock`. Files are separate variables
because the code writes them one after another: the list, the binary
(good or corrupt), its mode, the unpacked folder, the `.does.not.work` mark. The list that is downloaded may be one that cannot
be parsed, and a verified archive may fail to unpack. A crash keeps the
files and drops everything else; `NextRun` starts again, with or without
`hardhat clean --global`.

## 3. What is checked

| run | instance | distinct states |
|---|---|---|
| `txpool` | one account, 3 nonces, 7 transactions (legacy, fee market, too large for the small block, malformed), 2 gas limits, 2 balances, 4 arrivals, 1 snapshot | 204 712 |
| `blockchain` | chain of 6, reservations of 1 and 3, 2 snapshots | 15 842 |
| `provider` | 2 clients, 1 interval change, 1 reset, 3 configurations, up to 2 nodes with 2 loops each | 66 448 |
| `clock` | steps of 0.7 s, batches of 4 with reservation threshold 1, 5 blocks, 2 snapshots | 449 616 |
| `mining` | 2 senders with 2 transactions each, both orders, blocks with room for 2, balances up to 8, base fees up to 2 | 98 930 |
| `mining_stall` | the same | violated |
| `node` | 3 states, 3 blocks, 3 snapshots | 1 570 831 |
| `fixtures` | 2 fixtures, 2 states, 2 blocks, 4 snapshots, 1 reset | 1 853 644 |
| `compile` | 1 source, 2 libraries (one with a compiler override), 2 contents, 2 configs, 3 events | 3 083 124 |
| `downloader` | 3 jobs, 2 versions (one that does not run natively, one that is published late), Linux and Windows, 1 failure or crash | 213 593 |
| `forkstate` | 1 account with 1 slot, 2 remote blocks, 3 writes, 3 roots, 2 checkpoints | 168 210 |
| `fork` | remote chain of 4 blocks, reorganizations of 1, 1 local block, 3 stored answers | 989 785 |

All but `mining_stall` pass. What they show:

- *Pool*: `PendingContiguous`, `HashIndexSound`, `QueuedNotExecutable`: the lists, the
  index and the account nonces agree after any sequence of operations.
  `ValidTxsSurvive`, `ReplacementPaysMore`: what a step may never do.
  `UpdateMatchesLoop`: the closed form of `updatePendingAndQueued` is its loop.
- *Chain*: `EveryNumberOnce`, `IndexesExact`, `SnapshotsRevertible`: errors and
  assertions of the code are unreachable and reverted blocks leave nothing behind.
  `LazyIsEager`: nobody can tell that blocks were reserved. `RevertMatchesLoop`: the
  closed form of `_delBlock` is its loop.
- *Provider*: `MutexIsFair`: the semaphore under the provider refines `Lock`, so
  handlers never interleave and requests are served in order. `OnlyCurrentTimerRuns`.
  Liveness: `EveryRequestAnswered`, `IntervalMiningGoesOn`.
- *Clock*: `TimestampsIncrease`, `ClockNotBehind`, `BatchIsExact`, `RevertRestoresClock`.
- *Mining*: `BlockRunsPrefixes`, `BlockIsFull`, `BlockFollowsOrder`: what is in a block
  and in which order. `AutomineAllOrNothing`: a sent transaction that is automined
  together with others either ends with an empty pending list or changes nothing.
  `MiningEnds` (liveness), `ImplementsTxPool` (refinement).
- *World state*: `ImplementsStore` (refinement), `ReadsLeaveNoTrace`, `IrregularStatesAnchored`.
- *Fixtures*: `RestoresOwnState`, `LoadedFixturesUsable`: comparing the ids of creation
  is right although `restore` changes the current ones.
- *Compilation*: `ArtifactsCurrent`, `DebugFilesResolve`, `NothingToCompile`.
- *Downloader*: `RestingCompilersVerified`, `WorkingCompilersNotMarked`, `NoLostWakeup`
  (of its mutex), `EveryJobEnds` (liveness).
- *Fork*: `ImplementsEagerState` (refinement), `CachedAnswersFinal`, `ForkIsOneChain`.

The type invariants (`TypeOK`, `MiningTypeOK`, ...) and a few weaker invariants
(`ArrivalOrderUnique`, `ReservationsAnchored`, `PermitsConserved`) are not in the
configurations; those of the proved modules are theorems.

### Bounds

- *Pool*: three nonces are the least with a transaction before, at and after a
  removed one; four arrivals fill them and replace one. Two gas limits and two
  balances make transactions invalid for either reason. The account is alone
  because lists of different senders only meet in the hash index and in
  `HasTransactions`; `mining` has two senders.
- *Chain*: a reservation of 3 can be split in the middle and at both ends, and in a
  chain of 6 it has a block before and after it; two snapshots nest.
- *Provider*: one reset gives an old and a new timer; one interval change gives two
  loops of one timer. Three kinds of configuration cover success, success or
  failure, and failure.
- *Clock*: steps of 700 ms put snapshots and reverts at different fractions of a
  second, so both roundings differ. The code's reservation threshold is 5; it is a
  constant, 1 in the run, so that a batch of 4 has a first block, a block before the
  reservation, a reserved block and the one after it.
- *Mining*: Alice's two transactions can be paid one by one but not together, so a
  block can fail at its second transaction; Bob's first pays the miner more while
  it offers less, his second fills a block alone, so it is skipped when
  anything ran before it. The base fee changes by up to a half a block
  (`ChangeDenominator` 2 instead of 8), so that small numbers rise and fall; a
  base fee of 3 set by the user makes some transactions wait.
- *World state*: three blocks allow a revert that reuses a number twice; three
  states tell the state before, at and after a snapshot apart.
- *Fixtures*: with four snapshot ids a fixture is restored, renewed and restored again after
  another was taken in between. Fixtures are interchangeable, hence the symmetry.
- *Compilation*: the first version of the source imports a library that imports
  another; its second version imports the other only, so the first library leaves
  the graph and comes back. The second version of the last library has no contract, so
  artifacts become obsolete. Projects start with all files, the middle library in its
  first version (`Projects`). The configs can be the same or differ; one has the
  optimizer bug that changes how jobs are merged. Three events are an edit, a failed or
  killed run, and an edit back.
- *Downloader*: two jobs with one version race for it, the third uses the other
  version and the WASM fallback.
- *Fork*: four blocks with reorganizations of one have final and unsafe blocks on
  both sides of the fork block; three stored answers are one read early, one late and
  one torn or left from another process.

For the properties that section 4 proves, the theorems lift these bounds; the runs
then show that the properties can fail (their mutants) and that every action happens.

### Fairness

`Provider` and `Downloader` assume weak fairness of the steps that the event loop
runs by itself: queued `nextTick` callbacks, expired timeouts and resumed awaits. It
is also assumed that handlers, node creation and downloads end: they await the VM or
HTTP requests, which have a timeout. `Mining` assumes that a request that has
begun goes on. Nothing is assumed of clients, users or failures. No
strong fairness is needed: the queue of the semaphore is first in first out.

### Finding

**Two transactions that cannot be paid together stop mining** (`mining_stall`). The
pool admits a transaction that its sender can pay by itself. When two pending
ones cost more than the balance, the second makes `blockBuilder.addTransaction` throw,
the block is reverted and the pool is left as it was, so `evm_mine` and every
interval block fail until the user drops a transaction or adds funds. The comment and the
docs say that a block includes as many pending transactions as possible.

### Known limits of the properties

While modelling, these behaviours of the code were met. The models contain them; the
properties above are stated so that they do not rule them out, and where
that is a precondition it is named.

- A transaction that `updatePendingAndQueued` moves to the queued list loses its hash index
  entry, so `hardhat_dropTransaction` does not find it: `HashIndexSound` has no converse.
- A queued nonce below the next one, possible for an impersonated contract, stops
  `reorganizeTransactionsLists` at once: `QueuedNotExecutable` leaves `Contracts` out.
- `_reset` stores the new fork configuration and drops the node before it has another;
  when making it fails, every later request, `hardhat_reset` included, fails too.
- `setBlockTime` during the await of a mining loop leaves two loops until the timer is stopped.
- A request with params as an object throws after the mutex was acquired and before the
  `try` that releases it (`Kinds` with `"object"`); `EveryRequestAnswered` does not hold with
  it. The wrappers of the runtime reject such params first.
- `hardhat_mine` with an interval of 0 makes equal timestamps although they are not
  allowed, and a negative `evm_increaseTime` puts blocks before their parents (`Forward`).
- Automining does not end for a transaction whose maximum fee is below what the base fee falls to.
- After `hardhat_reset` ids of snapshots start again: `loadFixture` may restore another
  fixture's state. `RestoresOwnState` leaves such fixtures out (`resets`).
- Jobs that succeed emit artifacts although another fails or the process dies, and the
  cache is not written. When the source is then changed back, the old entry
  declares the newer artifact current. `ArtifactsCurrent` leaves such files out (`tainted`).
- A library that no source imports while one of its own dependencies is compiled again
  keeps its entry. When it is imported again it is not compiled, although its
  artifact is of the old dependency, until its entry changes or with `--force`.
  `ArtifactsCurrent` leaves such files out (`LeftBehind`).
- `isCompilerDownloaded` and `getCompiler` do not take the mutex: a job may take a compiler
  that another is still verifying. A crash between download and verification leaves
  a file that is taken for a verified one (`crashed`, set by a crash in one of the
  stages `Unfinished` only).
- A compilers list that cannot be parsed makes `isCompilerDownloaded` throw before the list would be
  downloaded again, in every later process until `hardhat clean --global`: `EveryJobEnds` then
  means that the job fails.
- A kill while a cached answer is written leaves a file that makes that request throw in
  every later process until it is deleted; `ForkIsOneChain` is about the answers that are given.
- A fork of a block that may still be reorganized is accepted with a warning about
  performance only; `ForkIsOneChain` assumes a final fork block (`SafeFork`).

## 4. What is proved

TLAPS checks every proof to its leaves, for all values of the constants that
satisfy the assumptions named next to their declarations. The bounds
(`MaxLength`, `MaxDate`, `MaxEvents`, ...) are arbitrary numbers, so the theorems
hold for instances of any size. Most assumptions are types (sets of numbers, finite
callers). The others:

- *Markers differ from values* (`UndefinedAssumption`, `NoContextAssumption`,
  `AbsentAssumption` of `Mining` and `Compilation`): `undefined` in the code, a model
  value here, which the prover cannot otherwise tell from a record.
- `FeesAssumption`, `TransactionLimits`, `EnoughGas`: what the transaction library and the
  validation of the node enforce (`prio <= maxFee`, fees and nonces have a largest
  value, a valid transaction has its intrinsic gas).
- `BalancesClosed`: balances are all numbers up to the largest one, so that what
  an execution leaves is a balance again.
- `Permits = 1` is a hypothesis of the theorems about `Downloader`: its semaphores
  are the `Mutex` class. The theorems about `Semaphore` alone hold for any permits.
- `Forward` is a hypothesis of the theorems about the clock (see Clock below).
- The guard of `SetStateRoot` in `ForkState` is an assumption about the node, its only caller.

Each inductive invariant was an invariant of a TLC run of its component before it was proved.

**Pool** (`TxPoolProofs`): `TypeCorrect`, `PendingIsExecutable`, `IndexIsSound`,
`QueuedIsNotExecutable`, `ArrivalOrderIsUnique`, from `Invariance`. The invariant
`IInv` says of the pool and of every saved snapshot, since a revert makes one
current: per sender (`SenderOK`) pending nonces are consecutive, senders match, no
transaction is twice in the lists, queued nonces are beyond the pending ones; the
index is sound; arrival numbers are unique and below the counter, which is why a
revert, which does not reset the counter, keeps them unique. The proof
has a lemma for each way a sender's lists change, and lemmas on `Min`,
`MovedToPending`, `KeptPending` and `MovedToQueued`. From the same invariant, two action
properties: `ReplacementsPayMore` (in one step, two transactions with one nonce trade
places only by replacement, since nonces in the lists are distinct) and
`ValidTransactionsSurvive` (what leaves a list goes to another one, ran, or is invalid).
`UpdateIsItsLoop` proves that the closed forms are the loop. The state after *i* iterations is a
recursive function of *i*; `LoopAfter` says what it is: kept is what lies between the first
transaction whose nonce is not used up and the first invalid one after it, moved is what lies
behind that one. `IInv` gives that the nonces of the list are consecutive, so that the used ones
come first. The prover has no induction
rule it can instantiate with an invariant; `SameByIteration` therefore argues by the least
iteration at which the loop would leave it.

**Mining** (`MiningProofs`): `BlocksRunPrefixes`, `BlocksFollowOrder`, `BlocksAreFull`,
`AutominingIsAtomic` and the refinement `MiningImplementsTxPool`. `MiningInv` is the pool's
`IInv` and, while a block is built, `BuildOK`: heap and queues are the pending lists without what
ran, the transaction at hand is the best of those available, the accounts of the VM
are those of the node after what ran, the gas used is within the limit, and a sender that is
skipped has a next transaction that does not fit, now and later, because gas used only
grows. `RequestOK` says that a snapshot with the id an automining request took is of the node
as the request found it, which makes its `catch` exact: `AllOrNothing` is proved per action. The invariant
is one conjunction because a block that ends hands over to the pool, whose lists must again
be executable: that is also the refinement step (`MineBlock` with what ran).

**Chain** (`BlockchainProofs`): `TypeCorrect`, `NumbersArePartitioned`,
`ReservationsAreAnchored`, `SnapshotsCanBeReverted`. `IInv` adds that blocks are
stored under their numbers, that the index by hash is exact, and that snapshots are
ordered as their blocks are (so that reverting to one keeps the earlier ones).
`IndexesAreExact` needs `IndexInv` on top: every transaction of a block is indexed, is in
one block only (else deleting a block would remove the entry of another), and
has its receipt unless the block is just being saved. `LazyChainIsEager` proves the
refinement: `View` changes with added or deleted blocks only, never because a
reserved block was made, since a split reservation keeps the distance to its anchor.
`RevertIsItsLoop` proves that a revert leaves what the loop of `_delBlock` leaves. The loop
invariant (`DelInv`) is that the numbers below the one at hand have been dealt with, those
from there on are as before, and no reservation reaches over the number at hand, which holds at the
start because the snapshot's block is a real one. Every iteration advances, so that the
loop is over after as many iterations as the chain is long.

**World state** (`NodeProofs`): `IrregularStatesAreAnchored`, `NoTraceOfReads`, and the
refinement `NodeImplementsStore` of `SnapshotStore`. `IInv` is `NodeOK` of the root the node
will have when the read in progress has ended, and `ContextOK`, which says what
that read will restore. `NodeOK` says of the node and of each snapshot that its map of
irregular states has entries for its own blocks only and agrees with the current root, that no two
of them share a map that can still be written, and that snapshots are of prefixes
of the chain. Without the part on sharing a write after a snapshot would not
preserve the snapshot.

**Provider** (`NodeProofs`): `OldTimersAreStopped`, `HandlersDoNotInterleave`,
`ProviderTypeCorrect`. `ProviderInv` says that the mutex is free or has one holder, that a request
between *init* and *finish* is that holder, that there is a node while a request is processed
and none while one is made: a new timer can only start when all others have been
stopped, although `_reset` and `_init` await in between. Types need counting: each
loop beyond a timer's first is paid for by a change of the interval (`CountsOK`), so
`SetBlockTime` finds a free slot and the bounds of the model cut nothing off. It is assumed that clients are
finitely many and are not timers (`ClientsAssumption`). `MutexServesInOrder` is the safety part of
`MutexIsFair`: requests, timeouts and resets get the mutex one at a time, in the order in which they asked.
`RequestsAreNotStuck` is the part of `EveryRequestAnswered` that needs no fairness: while a request waits,
a tick is queued that will find the mutex free, or the holder has a step to take
(`CanAdvance`), unless it is a request that was *lost* with its params as an object. Its invariant
`LineInv` says that whoever waits is in line once or holds the mutex, that a holder is on its way
to the `finally`, and that a free mutex with a line has a tick queued.

**Clock** (`BlockClockProofs`): `TypeCorrect` from `TInv` (every snapshot is of a
prefix of the chain). Under `Forward` (time increases are not negative; an interval
is positive unless equal timestamps are allowed): `BlocksAreLater`, `ClockKeepsUp`,
`BatchesAreExact`, `RevertsRestoreClock`. The invariant `CInv` says that timestamps
are positive and increase, the clock is not behind (except before the last block of a batch with a reservation, which
may have put the last reserved block ahead of it), a chosen next timestamp is ahead
of the last block, the batch in progress is exact, and all of this of every
snapshot, with the clock it will have whenever it is reverted to. The arithmetic is
one lemma, `Rounding`: ceil(y) + ceil(x − y) is ceil(x) or one more, so a revert
cannot leave the clock behind the block it reverts to.

**Fork** (`ForkProofs`): `ForkImplementsEagerState` is the refinement of `EagerState` by
`ForkState`; its invariant is types and `ContextOK`, that roots and checkpoints are read
at the block at which they were made. `CachedAnswersAreFinal` is about `JsonRpcClient` under
`ForkBlockchain`. `ChainInv` strengthens it by a distance: the number the client
remembers as latest is at most that of the remote chain, and every kept entry is the remote
answer *and about blocks at least `MaxReorg` below the remote head*, so that a
reorganization, which keeps that prefix, cannot change it. The prover needs a
lemma per method on what its answer depends on. `ForkedNetworkIsOneChain` rests on
`ForkInv`, which adds that no torn file gets into memory and that there is one file per
request (so an answer that does not throw is the remote one), that a chain includes
the transaction once, and, for a fork block that was final when the client was made
(`SafeFork`), that the forked chain and the remote one agree up to it (`ForkedAt`) and that
`data` has blocks of the forked chain only, *all* the local ones, and the transaction, its
block and its receipt whenever a local block includes it (`DataOK`); a receipt in `awaiting` is of
the forked chain, too. The last part is why
what is missing from `data` may be fetched: it can only be below the fork block.
There is a lemma per method on what it returns, used both for the property and for
what the method adds to `data`.

**Semaphore and downloader** (`DownloaderProofs`): `SemaphoreTypeCorrect`,
`PermitsAreConserved`, `WakeupsAreNotLost`, for any callers and permits; `SemaphoreInv`
adds that a caller is queued once and not while it holds a permit. `SemaphoreIsLock` is
the safety part of `IsFairLock`: permits are handed out first come, first served. `CompilersVerified`
and `WorkingCompilersStay`, for any jobs, versions and faults. `IInv` says that each mutex is
held by the job that is inside (`LocksOK`, `PlacesOK`), what the job inside knows about
the files it is working on (`WorkOK`), and what the other files are (`DiskOK`): the
property only speaks of compilers nobody works on, so the invariant has to say
what those in progress look like until they rest.

**Fixtures and compilation** (`ToolingProofs`). `FixturesRestoreOwnState` and
`FixturesStayUsable`: `IInv` says that the ids of live snapshots increase
(`SnapshotsOK`), that a fixture's current id, if live, is of the state it returned
(`EntriesOK`, `RestoringOK`), and, until a test reverts or resets the network by itself,
that fixtures with later ids of creation have later current ids (`OrderOK`), which is why
comparing ids of creation drops exactly the fixtures whose snapshots are gone.
`DebugFilesAlwaysResolve`, `ArtifactsAreCurrent` and `NothingIsCompiledTwice`, for any
import graph, cycles included, any contents, configs and jobs. `CompilationInv` says that
build infos of debug files exist; that an entry of the cache lists the contracts of
its content; that the artifacts of an entry, of a file that is not tainted, are the
compiler's output for an input that is closed under imports, in which no entry gives a file
another content (`CacheTrue`); and what the plan, the finished jobs and the written
cache of the run are (`PlanOK`, `JobsOK`, `WrittenOK`, `SettledOK`). The central lemma is
`UnchangedInput`: if none of a file's dependencies has changed since its entry, the closed
input of its artifact is what the dependencies hold now, so skipping is right. The
least closed set of files stands for the traversal of the graph, so that no induction over paths
is needed.

### Only model-checked

- Liveness under fairness: `EveryRequestAnswered`, `IntervalMiningGoesOn`, `MiningEnds`,
  `EveryJobEnds`, and the fairness that `Lock` states in `MutexIsFair` (the safety part of that
  is proved of `Semaphore` and of the provider).
- That `CanAdvance` implies that a step is enabled: `ENABLED` is out of the prover's reach.
  TLC was used to check it on the instance of the `provider` run, with requests that get lost.

Every invariant, action property and refinement without fairness that a run checks is proved.
The proofs are about the modules. The two closed forms whose loops jump or carry a flag are proved
to be their loops; that the others (`MovedToPending`, the least closed sets of `Compilation`) are
what the code computes rests on reading the code.

## 5. What is not modelled

- The EVM, tries, hashing, signatures, serialization: external libraries or
  data. Transactions, blocks and states stand for their hashes.
- Parameter validation of JSON-RPC, conversion of remote data, logging, formatting.
- `Mining`: hardforks before London (no base fee, `hardhat_setMinGasPrice`), rewards.
- `BlockClock`: a wall clock that is set back; a timestamp of 0, which the code reads as none.
- `ForkState`: `initializeGenesisAccounts`, `copy`, the cache of original storage values.
- `ForkBlockchain`: reservations above the fork block (module `Blockchain` has them
  for the local chain); requests that are never cached.
- `JsonRpcClient`: a remote node that answers from another chain than its canonical one.
- `Compilation`: name resolution, version pragmas, the cache of artifact paths in memory.
- `Downloader`: a full disk, a `chmod` that fails.
- Filters and subscriptions, the provider stack of the runtime, gas estimation and fee
  history: candidates for later modules.
- Stack traces (heuristics over traces, read-only), tasks, configuration, CLI, error
  lists, plugin packages and the documentation site: sequential code, parsing, tables of messages
  and adapters, most of the repository's lines. They keep no state over which
  steps could interleave, fail half-way or survive a crash, and a model would
  repeat the code. The map therefore covers the stateful core and not a share
  of the whole repository.

## 6. Plan

1. Proofs: what a run checks is proved, except liveness. The loop of
   `reorganizeTransactionsLists` could be compared with `MovedToPending` as
   `PendingLoop` is with `KeptPending`.
2. `Filters`: deadlines, notifications, blocks that are reverted after they were notified.
3. The provider stack: lazy initialization that fails, retries of the HTTP provider.
