----------------------------- MODULE MCVadEndpoint -----------------------------
EXTENDS VadEndpoint, TLC
MCEndSils == {4, 12}
MCMaxSegs == {6, 12}
MCOverlaps == {0}
=============================================================================
