----------------------------- MODULE MCTpassSplit -----------------------------
EXTENDS TpassSplit, TLC
MCBlocks == {0, 3, 4}
=============================================================================
