---------------------------- MODULE MC_StateStore ----------------------------
EXTENDS StateStore

CONSTANTS k1, k2, v1, v2

MCKeys == {k1, k2}
MCVals == {v1, v2}

=============================================================================
