---------------------------- MODULE JsonRpcClient ----------------------------
(***************************************************************************)
(* JsonRpcClient and makeForkClient: how a forked network talks to the     *)
(* remote node, and what it remembers of the answers.  An answer is kept   *)
(* in memory, and on disk for later processes, only when it is about       *)
(* blocks that the remote chain will not reorganize any more.              *)
(*                                                                         *)
(* A request that fails throws and changes nothing here; a retry is the    *)
(* request again.                                                          *)
(***************************************************************************)
EXTENDS Integers, Sequences, FiniteSets

CONSTANTS
  MaxReorg,   \* getLargestPossibleReorg or FALLBACK_MAX_REORG
  MaxBlock,   \* bound on the block numbers of the remote chain
  MaxStored   \* bound on the number of answers and blocks that are stored

ASSUME ClientAssumption ==
  MaxReorg \in Nat /\ MaxBlock \in Nat /\ MaxStored \in Nat

VARIABLES
  remote,   \* the canonical chain of the remote network
  client,   \* the client of the running process
  disk      \* the answers in the directory of the fork cache

clientVars == <<remote, client, disk>>

-----------------------------------------------------------------------------
(* A block is the chain that ends with it, so that its value is its hash   *)
(* and the state after it.  There is one transaction to ask for, which is  *)
(* in a block that ends in "t" or "lt" and emits a log.                    *)

RemoteSalts == {"e", "t"}
LocalSalts == {"l", "lt"}

Number(b) == Len(b) - 1
BlockAt(c, n) == SubSeq(c, 1, n + 1)
BlocksOf(c) == {BlockAt(c, n) : n \in 0..Number(c)}
HasTransaction(b) == b[Len(b)] \in {"t", "lt"}
CanInclude(c, salt) ==
  salt \in {"t", "lt"} => \A b \in BlocksOf(c) : ~HasTransaction(b)

(* The remote chain grows.  A reorganization replaces at most MaxReorg     *)
(* blocks, by as many or more.                                             *)
ExtendRemote(salt) ==
  /\ Number(remote) < MaxBlock
  /\ CanInclude(remote, salt)
  /\ remote' = Append(remote, salt)

ReorgRemote(d, salt) ==
  LET kept == SubSeq(remote, 1, Len(remote) - d)
      other == Append(kept, salt) \o [i \in 1..(d - 1) |-> "e"]
  IN /\ d < Len(remote)
     /\ CanInclude(kept, salt)
     /\ remote' = other /\ other # remote

-----------------------------------------------------------------------------
(* Requests.  The answer is a set of blocks: no block is null.             *)

Key(q, n, m, h) == [q |-> q, n |-> n, m |-> m, h |-> h]
NumberKey(n) == Key("number", n, n, <<>>)
HashKey(h) == Key("hash", 0, 0, h)
TransactionKey == Key("transaction", 0, 0, <<>>)
ReceiptKey == Key("receipt", 0, 0, <<>>)
LogsKey(n, m) == Key("logs", n, m, <<>>)
(* eth_getStorageAt, eth_getTransactionCount and getAccountData *)
StateKey(n) == Key("state", n, n, <<>>)
FeesKey(n) == Key("fees", n, n, <<>>)

RemoteAnswer(k) ==
  CASE k.q \in {"number", "state", "fees"} ->
         {b \in BlocksOf(remote) : Number(b) = k.n}
    [] k.q = "hash" -> {b \in BlocksOf(remote) : b = k.h}
    [] k.q \in {"transaction", "receipt"} -> {b \in BlocksOf(remote) : HasTransaction(b)}
    [] k.q = "logs" ->
         {b \in BlocksOf(remote) : Number(b) \in k.n..k.m /\ HasTransaction(b)}

(* getMaxAffectedBlockNumber of each method; the empty set is undefined.   *)
(* A fee history has one base fee more than it has blocks.                 *)
MaxAffectedBlockNumber(k, answer) ==
  CASE k.q \in {"number", "hash", "transaction", "receipt"} -> {Number(b) : b \in answer}
    [] k.q \in {"state", "logs"} -> {k.m}
    [] k.q = "fees" -> {k.n + 2}

-----------------------------------------------------------------------------
(* The caches *)

Torn == {<<>>}   \* a file that was not written to the end

Has(entries, k) == \E e \in entries : e.key = k
Lookup(entries, k) == (CHOOSE e \in entries : e.key = k).answer
Entry(k, answer) == [key |-> k, answer |-> answer]

(* Mutant: one block too many counts as safe. *)
CanBeReorgedOutLate(n) == n > client.latest - MaxReorg + 1

CanBeReorgedOut(n) == n > client.latest - MaxReorg

CanBeCached(affected) == affected # {} /\ \A n \in affected : ~CanBeReorgedOut(n)

(* _perform and _performBatch, on a store [cache, disk]: what the caller   *)
(* gets, the store after it, and whether it throws because the file on     *)
(* disk cannot be parsed.                                                  *)
InMemory(store, k) == Has(store.cache, k)
OnDisk(store, k) == client.toDisk /\ Has(store.disk, k)

PerformThrows(store, k) ==
  ~InMemory(store, k) /\ OnDisk(store, k) /\ Lookup(store.disk, k) = Torn

PerformAnswer(store, k) ==
  CASE InMemory(store, k) -> Lookup(store.cache, k)
    [] ~InMemory(store, k) /\ OnDisk(store, k) -> Lookup(store.disk, k)
    [] OTHER -> RemoteAnswer(k)

Perform(store, k) ==
  LET answer == PerformAnswer(store, k)
      cached == CanBeCached(MaxAffectedBlockNumber(k, answer))
      e == Entry(k, answer)
  IN CASE InMemory(store, k) -> store
       [] ~InMemory(store, k) /\ OnDisk(store, k) ->
            [store EXCEPT !.cache = @ \cup {e}]
       [] OTHER ->
            [cache |-> IF cached THEN store.cache \cup {e} ELSE store.cache,
             disk |-> IF cached /\ client.toDisk THEN store.disk \cup {e} ELSE store.disk]

Store == [cache |-> client.cache, disk |-> disk]

Stored(store) ==
  /\ client' = [client EXCEPT !.cache = store.cache]
  /\ disk' = store.disk

(* A request of the state manager or of the fee history, or one that a     *)
(* method of ForkBlockchain makes before a later one fails.                *)
Request(k) ==
  /\ client.running
  /\ ~PerformThrows(Store, k)
  /\ k.q \in {"state", "fees"} => RemoteAnswer(k) # {}
  /\ Stored(Perform(Store, k))

(* The process is killed while it writes the file of an answer. *)
KilledWhileStoring(k) ==
  LET after == Perform(Store, k)
  IN /\ client.running
     /\ ~PerformThrows(Store, k)
     /\ k.q \in {"state", "fees"} => RemoteAnswer(k) # {}
     /\ after.disk # disk
     /\ disk' = disk \cup {Entry(k, Torn)}
     /\ client' = [client EXCEPT !.running = FALSE, !.cache = {}]

-----------------------------------------------------------------------------

GetLastSafeBlock(latest) ==
  IF latest - MaxReorg >= 0 THEN latest - MaxReorg ELSE latest

NewClient(latest, fork, toDisk) ==
  [running |-> TRUE, latest |-> latest, fork |-> fork, toDisk |-> toDisk, cache |-> {}]

(* makeForkClient: a new process, or hardhat_reset, with the block number  *)
(* of the configuration (a set that holds it, or is empty).                *)
MakeForkClient(config) ==
  /\ \A n \in config : n <= Number(remote)
  /\ client' = NewClient(
       Number(remote),
       IF config = {} THEN GetLastSafeBlock(Number(remote)) ELSE CHOOSE n \in config : TRUE,
       config # {})
  /\ UNCHANGED disk

ClientInit ==
  /\ remote = <<"e">>
  /\ client = [NewClient(0, 0, FALSE) EXCEPT !.running = FALSE]
  /\ disk = {}

-----------------------------------------------------------------------------
(* Every answer that is kept, in memory or on disk since an earlier        *)
(* process, is still what the remote node would answer: the caches never   *)
(* remember a block, transaction, receipt, log or state that a             *)
(* reorganization has replaced or may still replace.                       *)
CachedAnswersFinal ==
  \A e \in client.cache \cup disk : e.answer # Torn => e.answer = RemoteAnswer(e.key)
=============================================================================
