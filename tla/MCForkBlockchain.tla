-------------------------- MODULE MCForkBlockchain --------------------------
EXTENDS ForkBlockchain
=============================================================================
