--------------------------- MODULE ForkBlockchain ---------------------------
(***************************************************************************)
(* ForkBlockchain: a chain whose blocks up to the fork block are the       *)
(* remote ones, fetched when they are asked for and kept in a              *)
(* BlockchainData, and whose later blocks are local.  hardhat_mine's       *)
(* reservations are in module Blockchain.                                  *)
(***************************************************************************)
EXTENDS JsonRpcClient

CONSTANT MaxLocal   \* bound on the number of local blocks

ASSUME LocalAssumption == MaxLocal \in Nat

VARIABLES
  data,     \* the BlockchainData
  latest,   \* _latestBlockNumber
  awaiting, \* _processRemoteReceipt: the block of the receipt that it keeps
            \* when it has the transaction; empty when it is not running
  chain     \* not in the code: the remote chain up to the fork block, as it
            \* was when the client was made, and the local blocks

chainVars == <<remote, client, disk, data, latest, awaiting, chain>>

-----------------------------------------------------------------------------
(* BlockchainData: the fields hold blocks; txBlock and receipt are those   *)
(* of the transaction.                                                     *)

NoData == [byNumber |-> {}, byHash |-> {}, tx |-> FALSE, txBlock |-> {}, receipt |-> {}]

DataAddBlock(d, b) ==
  [d EXCEPT
    !.byNumber = {c \in @ : Number(c) # Number(b)} \cup {b},
    !.byHash = @ \cup {b},
    !.tx = @ \/ HasTransaction(b),
    !.txBlock = IF HasTransaction(b) THEN {b} ELSE @]

(* Mutant: the receipts of the blocks stay. *)
DataRemoveBlocksKeepReceipts(d, gone) ==
  LET hadIt == \E b \in gone : HasTransaction(b)
  IN [d EXCEPT
       !.byNumber = @ \ gone,
       !.byHash = @ \ gone,
       !.tx = @ /\ ~hadIt,
       !.txBlock = IF hadIt THEN {} ELSE @]

(* removeBlock of each of these blocks, which are those the data has under *)
(* their numbers                                                           *)
DataRemoveBlocks(d, gone) ==
  LET hadIt == \E b \in gone : HasTransaction(b)
  IN [d EXCEPT
       !.byNumber = @ \ gone,
       !.byHash = @ \ gone,
       !.tx = @ /\ ~hadIt,
       !.txBlock = IF hadIt THEN {} ELSE @,
       !.receipt = IF hadIt THEN {} ELSE @]

DataGetLogs(d, n, m) ==
  {b \in d.byNumber : Number(b) \in n..m /\ HasTransaction(b) /\ d.receipt # {}}

-----------------------------------------------------------------------------
(* The reads, as the caller sees them when the remote chain stands still   *)
(* meanwhile.  Each has its keys (the requests it makes, in order) and     *)
(* what it returns (a set of blocks; none is undefined, null or an error). *)

(* The remote objects that _processRemoteBlock, _processRemoteTransaction  *)
(* and _processRemoteReceipt accept.                                       *)
UpToFork(answer) == {b \in answer : Number(b) <= client.fork}

(* _processRemoteBlock *)
ProcessRemoteBlock(d, answer) ==
  IF UpToFork(answer) = {} THEN d
  ELSE DataAddBlock(d, CHOOSE b \in UpToFork(answer) : TRUE)

BlockByNumberKeys(n) ==
  IF n > latest \/ (\E b \in data.byNumber : Number(b) = n) THEN <<>> ELSE <<NumberKey(n)>>

GetBlockByNumber(n) ==
  CASE n > latest -> {}
    [] n <= latest /\ BlockByNumberKeys(n) = <<>> -> {b \in data.byNumber : Number(b) = n}
    [] OTHER -> UpToFork(PerformAnswer(Store, NumberKey(n)))

BlockByHashKeys(h) == IF h \in data.byHash THEN <<>> ELSE <<HashKey(h)>>

GetBlockByHash(h) ==
  IF h \in data.byHash THEN {h} ELSE UpToFork(PerformAnswer(Store, HashKey(h)))

TransactionKeys == IF data.tx THEN <<>> ELSE <<TransactionKey>>

(* Only whether there is such a transaction. *)
GetTransaction ==
  data.tx \/ UpToFork(PerformAnswer(Store, TransactionKey)) # {}

(* getBlockByTransactionHash asks for the transaction, and for the block   *)
(* by its hash, which throws for a block after the fork.                   *)
TransactionsRemoteBlock == PerformAnswer(Store, TransactionKey)

BlockByTransactionHashKeys ==
  IF data.txBlock # {} THEN <<>>
  ELSE <<TransactionKey>> \o
       IF TransactionsRemoteBlock = {} THEN <<>>
       ELSE BlockByHashKeys(CHOOSE b \in TransactionsRemoteBlock : TRUE)

GetBlockByTransactionHash ==
  CASE data.txBlock # {} -> data.txBlock
    [] data.txBlock = {} /\ TransactionsRemoteBlock = {} -> {}
    [] OTHER -> GetBlockByHash(CHOOSE b \in TransactionsRemoteBlock : TRUE)

ReceiptKeys ==
  IF data.receipt # {} THEN <<>>
  ELSE <<ReceiptKey>> \o
       IF UpToFork(PerformAnswer(Store, ReceiptKey)) = {} THEN <<>> ELSE TransactionKeys

GetTransactionReceipt ==
  IF data.receipt # {} THEN data.receipt
  ELSE UpToFork(PerformAnswer(Store, ReceiptKey))

LogsToBlock(m) == IF m > client.fork THEN client.fork ELSE m

LogsKeys(n, m) == IF n <= client.fork THEN <<LogsKey(n, LogsToBlock(m))>> ELSE <<>>

GetLogs(n, m) ==
  IF n <= client.fork
  THEN PerformAnswer(Store, LogsKey(n, LogsToBlock(m)))
         \cup (IF m > client.fork THEN DataGetLogs(data, client.fork + 1, m) ELSE {})
  ELSE DataGetLogs(data, n, m)

-----------------------------------------------------------------------------
(* The actions.  A step makes one request and does what follows it up to   *)
(* the next one, so that the remote chain may move between the two of a    *)
(* read.                                                                   *)

AfterKeys(keys) == IF keys = <<>> THEN Store ELSE Perform(Store, keys[1])

Read(keys, newData) ==
  /\ client.running
  /\ keys # <<>>
  /\ \A i \in DOMAIN keys : ~PerformThrows(Store, keys[i])
  /\ Stored(AfterKeys(keys))
  /\ data' = newData
  /\ UNCHANGED <<remote, latest, chain>>

ReadBlockByNumber(n) ==
  Read(BlockByNumberKeys(n), ProcessRemoteBlock(data, PerformAnswer(Store, NumberKey(n))))

ReadBlockByHash(h) ==
  Read(BlockByHashKeys(h), ProcessRemoteBlock(data, PerformAnswer(Store, HashKey(h))))

ReadTransaction ==
  Read(TransactionKeys, [data EXCEPT !.tx = GetTransaction])

(* The first request.  The second is ReadBlockByHash of the transaction's  *)
(* block: when the remote chain does not have it any more, or it is after  *)
(* the fork block, getBlock throws "Block not found" and nothing changes.  *)
ReadBlockByTransactionHash ==
  /\ data.txBlock = {}
  /\ Read(<<TransactionKey>>, [data EXCEPT !.tx = GetTransaction])

ReadTransactionReceipt ==
  /\ data.receipt = {}
  /\ Read(<<ReceiptKey>>, data)
  /\ awaiting' = UpToFork(PerformAnswer(Store, ReceiptKey))

(* The rest of _processRemoteReceipt, which throws a TypeError without the *)
(* transaction.                                                            *)
FinishReceipt ==
  /\ client.running /\ awaiting # {}
  /\ \A i \in DOMAIN TransactionKeys : ~PerformThrows(Store, TransactionKeys[i])
  /\ Stored(AfterKeys(TransactionKeys))
  /\ data' = [data EXCEPT
               !.tx = GetTransaction,
               !.receipt = IF GetTransaction THEN awaiting ELSE @]
  /\ awaiting' = {}
  /\ UNCHANGED <<remote, latest, chain>>

(* The request for the transaction fails. *)
FailReceipt ==
  /\ client.running /\ awaiting # {} /\ TransactionKeys # <<>>
  /\ awaiting' = {}
  /\ UNCHANGED <<remote, client, disk, data, latest, chain>>

ReadLogs(n, m) == Read(LogsKeys(n, m), data)

(* addBlock, and the getLatestBlock with which mineBlock begins.  For a    *)
(* transaction the receipt is added as well.                               *)
AddBlock(salt) ==
  /\ client.running /\ awaiting = {}
  /\ latest < client.fork + MaxLocal
  /\ CanInclude(chain, salt)
  /\ ~PerformThrows(Store, NumberKey(latest))
  /\ \E parent \in GetBlockByNumber(latest) :
       LET b == Append(parent, salt)
           d == DataAddBlock(DataAddBlock(data, parent), b)
       IN data' = [d EXCEPT !.receipt = IF HasTransaction(b) THEN {b} ELSE @]
  /\ Stored(AfterKeys(BlockByNumberKeys(latest)))
  /\ latest' = latest + 1
  /\ chain' = Append(chain, salt)
  /\ UNCHANGED <<remote, awaiting>>

(* _delBlock *)
WithoutLater(d, n) ==
  DataRemoveBlocks(d, {b \in d.byNumber : Number(b) \in n..latest})

(* deleteLaterBlocks of a block of the data, as revertToSnapshot calls it. *)
DeleteLaterBlocks(n) ==
  /\ client.running /\ awaiting = {}
  /\ \E b \in data.byNumber : Number(b) = n
  /\ n >= client.fork /\ n < latest
  /\ data' = WithoutLater(data, n + 1)
  /\ latest' = n
  /\ chain' = BlockAt(chain, n)
  /\ UNCHANGED <<clientVars, awaiting>>

Start(config) ==
  /\ MakeForkClient(config)
  /\ data' = NoData
  /\ awaiting' = {}
  /\ latest' = client'.fork
  /\ chain' = BlockAt(remote, client'.fork)
  /\ UNCHANGED remote

-----------------------------------------------------------------------------

Init ==
  /\ ClientInit
  /\ data = NoData
  /\ awaiting = {}
  /\ latest = 0
  /\ chain = remote

CanStore ==
  Cardinality(client.cache) + Cardinality(disk) + Cardinality(data.byHash) < MaxStored

Keys ==
  {NumberKey(n) : n \in 0..client.fork} \cup {HashKey(h) : h \in BlocksOf(remote)}
    \cup {TransactionKey, ReceiptKey}
    \cup (UNION {{LogsKey(n, m) : m \in n..client.fork} : n \in 0..client.fork})
    \cup {StateKey(n) : n \in 0..client.fork} \cup {FeesKey(n) : n \in 0..client.fork}

RemoteStep ==
  /\ \/ \E salt \in RemoteSalts : ExtendRemote(salt)
     \/ \E d \in 1..MaxReorg, salt \in RemoteSalts : ReorgRemote(d, salt)
  /\ UNCHANGED <<client, disk, data, latest, awaiting, chain>>

(* The mutex of the provider lets no other call in between the requests of *)
(* one; the process may be killed at the second as at the first.           *)
RequestStep ==
  /\ CanStore
  /\ \E k \in Keys :
       \/ awaiting = {} /\ Request(k)
       \/ (awaiting # {} => TransactionKeys = <<k>>) /\ KilledWhileStoring(k)
  /\ awaiting' = {}
  /\ UNCHANGED <<remote, data, latest, chain>>

ReadStep ==
  /\ CanStore
  /\ awaiting = {}
  /\ \/ /\ \/ \E n \in 0..latest : ReadBlockByNumber(n)
           \/ \E h \in BlocksOf(remote) : ReadBlockByHash(h)
           \/ ReadTransaction
           \/ ReadBlockByTransactionHash
           \/ \E n \in 0..latest : \E m \in n..latest : ReadLogs(n, m)
        /\ UNCHANGED awaiting
     \/ ReadTransactionReceipt

Next ==
  \/ RemoteStep
  \/ RequestStep
  \/ ReadStep
  \/ FinishReceipt
  \/ FailReceipt
  \/ CanStore /\ \E salt \in LocalSalts : AddBlock(salt)
  \/ \E n \in 0..latest : DeleteLaterBlocks(n)
  \/ Start({})
  \/ \E n \in 0..MaxBlock : Start({n})

Spec == Init /\ [][Next]_chainVars

-----------------------------------------------------------------------------
(* The fork block was final when the client was made.  With a later one    *)
(* makeForkClient only warns, of the performance.                          *)
SafeFork == client.running /\ client.fork <= client.latest - MaxReorg

AnswersOnce(keys) == \A i \in DOMAIN keys : ~PerformThrows(Store, keys[i])

(* A network that was forked at a final block shows one chain, whatever    *)
(* the remote network does meanwhile and whatever is read first: the       *)
(* blocks by number and by hash, the transaction, its block, its receipt   *)
(* and the logs are those of the remote chain up to the fork block and of  *)
(* the local blocks that were not deleted, and nothing after the fork      *)
(* block shows.  A receipt that was accepted is of that chain still when   *)
(* its transaction is there and it is kept.                                *)
ForkIsOneChain ==
  SafeFork =>
    LET included == {b \in BlocksOf(chain) : HasTransaction(b)}
    IN /\ latest = Number(chain)
       /\ \A n \in 0..(latest + 1) : AnswersOnce(BlockByNumberKeys(n)) =>
            GetBlockByNumber(n) = {b \in BlocksOf(chain) : Number(b) = n}
       /\ \A h \in BlocksOf(remote) \cup data.byHash : AnswersOnce(BlockByHashKeys(h)) =>
            GetBlockByHash(h) = {b \in BlocksOf(chain) : b = h}
       /\ AnswersOnce(TransactionKeys) => (GetTransaction <=> included # {})
       /\ AnswersOnce(BlockByTransactionHashKeys) => GetBlockByTransactionHash = included
       /\ AnswersOnce(ReceiptKeys) => GetTransactionReceipt = included
       /\ awaiting \subseteq included
       /\ \A n \in 0..latest : \A m \in n..latest : AnswersOnce(LogsKeys(n, m)) =>
            GetLogs(n, m) = {b \in included : Number(b) \in n..m}
=============================================================================
