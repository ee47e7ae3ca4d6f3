------------------------------ MODULE MCRewards ------------------------------
EXTENDS Rewards, TLC
=============================================================================
