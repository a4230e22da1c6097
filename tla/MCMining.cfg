SPECIFICATION MiningSpec
CONSTANTS
  alice = alice
  bob = bob
  Senders = {alice, bob}
  Contracts = {}
  Txs <- MiningTxs
  Balances <- AllBalances
  GasLimits = {2}
  MaxNonce = 2
  MaxOrderId = 3
  MaxSnapshots = 1
  MempoolOrders = {"priority", "fifo"}
  MinGasPrice = 0
  MinTxGas = 1
  InitialBaseFee = 1
  UserBaseFees = {3}
  SetBalances = {8}
  ChangeDenominator = 2
  MaxFee = 4
  MaxBaseFee = 2
  NoFee = NoFee
  NoSender = NoSender
  NoTx = NoTx
  NoBlock = NoBlock
  Idle = Idle
INVARIANTS
  BlockRunsPrefixes
  BlockFollowsOrder
  BlockIsFull
PROPERTIES
  AutomineAllOrNothing
  MiningEnds
  ImplementsTxPool
