-------------------------- MODULE MC_TransactionPool --------------------------
EXTENDS TransactionPool, TLC

CONSTANTS t1, t2, t3, c1, c2

MCIds == {t1, t2, t3}

\* t1 and t2 are the first operation of two transactions of block 10; t3 is
\* not anchored (an off-chain transaction).
MCAnchorOf == t1 :> {<<10, 0, 0>>} @@ t2 :> {<<10, 1, 0>>} @@ t3 :> {NONE}

\* t1 is a Hive transaction; t2 and t3 are VSC transactions.
MCTypeOf == t1 :> "hive" @@ t2 :> "vsc" @@ t3 :> "vsc"

MCStatuses == {"", "CONFIRMED", "FAILED"}

=============================================================================
