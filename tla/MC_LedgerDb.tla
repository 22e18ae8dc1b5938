------------------------------ MODULE MC_LedgerDb ------------------------------
(* Two accounts, two ledger ids, two heights, two assets and op types, two *)
(* balance contents; at most three upserts.                                *)
EXTENDS LedgerDb

CONSTANTS a1, a2, l1, l2, v1, v2

MCAccounts == {a1, a2}
MCLIds == {l1, l2}
MCVals == {v1, v2}
=============================================================================
