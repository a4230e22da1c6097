------------------------------ MODULE MCMining ------------------------------
(* An instance of block building for TLC. *)
EXTENDS Mining

CONSTANTS alice, bob

Tx(sender, nonce, maxFee, prio, gas, value) ==
  [sender |-> sender, nonce |-> nonce, maxFee |-> maxFee, prio |-> prio,
   gas |-> gas, value |-> value, wellFormed |-> TRUE]

(* Alice has two transactions she can afford one by one but not together;  *)
(* Bob has one that pays the miner more but offers less, and one that      *)
(* fills a block by itself.                                                *)
MiningTxs ==
  {Tx(alice, 0, 4, 1, 1, 3), Tx(alice, 1, 2, 1, 1, 3),
   Tx(bob, 0, 2, 2, 1, 0), Tx(bob, 1, 3, 1, 2, 0)}

AllBalances == 0..8
============================================================================
