SPECIFICATION Spec
CONSTANTS
  eoa = eoa
  Senders = {eoa}
  Contracts = {}
  Txs <- EoaTxs
  Balances = {1, 3}
  GasLimits = {1, 2}
  MaxNonce = 2
  MaxOrderId = 4
  MaxSnapshots = 1
INVARIANTS
  PendingContiguous
  HashIndexSound
  QueuedNotExecutable
  UpdateMatchesLoop
PROPERTIES
  ValidTxsSurvive
  ReplacementPaysMore
