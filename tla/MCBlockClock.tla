---------------------------- MODULE MCBlockClock ----------------------------
(* A node whose wall clock advances by fractions of a second.              *)
EXTENDS BlockClock

\* Timestamps that users ask for, from the last block: one is before it.
MCAhead == {-1, 0, 2}

=============================================================================
