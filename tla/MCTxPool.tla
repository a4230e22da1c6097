----------------------------- MODULE MCTxPool -----------------------------
(* An instance of the transaction pool for TLC, with one externally owned  *)
(* account.                                                                *)
EXTENDS TxPool

CONSTANT eoa

Legacy(sender, nonce, price, gas) ==
  [sender |-> sender, nonce |-> nonce, maxFee |-> price, prio |-> price,
   gas |-> gas, value |-> 0, wellFormed |-> TRUE]

(* An EIP-1559 transaction: the affordability check of addTransaction uses *)
(* maxFee, the one of updatePendingAndQueued uses prio.                    *)
FeeMarket(sender, nonce, maxFee, prio) ==
  [Legacy(sender, nonce, maxFee, 1) EXCEPT !.prio = prio]

(* Three nonces, a correct and an underpriced replacement of nonce 1, a    *)
(* transaction that only fits in the larger block, and a malformed one.    *)
EoaTxs ==
  {Legacy(eoa, 0, 1, 1), Legacy(eoa, 1, 1, 2), Legacy(eoa, 2, 1, 1),
   Legacy(eoa, 1, 2, 1), FeeMarket(eoa, 1, 2, 1), FeeMarket(eoa, 0, 2, 1),
   [Legacy(eoa, 0, 2, 1) EXCEPT !.wellFormed = FALSE]}

=============================================================================
