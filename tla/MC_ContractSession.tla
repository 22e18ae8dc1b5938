------------------------- MODULE MC_ContractSession -------------------------
EXTENDS ContractSession

CONSTANTS k1, k2, v1, v2

MCKeys == {k1, k2}
MCVals == {v1, v2}
\* The empty merkle of a new contract and one stored merkle.
MCMerkles == {"", "m1"}
MCMetas == {"meta0", "meta1"}

=============================================================================
