---------------------------- MODULE MCForkState -----------------------------
EXTENDS ForkState

\* A contract that is created in block 1, which is the fork block.
MCRemote == [n \in 0..1 |-> [x \in Accounts |->
  [info |-> n, code |-> n, storage |-> [k \in Slots |-> n]]]]
=============================================================================
