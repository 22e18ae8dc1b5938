\* The ledger and balance collections: query results and GetAll against
\* interleaved upserts.
CONSTANTS
  a1 = a1
  a2 = a2
  l1 = l1
  l2 = l2
  v1 = v1
  v2 = v2
  NONE = NONE
  Accounts <- MCAccounts
  LIds <- MCLIds
  Vals <- MCVals
  Heights = {1, 2}
  Assets = {"hive", "hbd"}
  LTypes = {"transfer", "stake"}
  Limits = {1, NONE}
  MaxWrites = 3

SPECIFICATION Spec

INVARIANT TypeOK
INVARIANT LedgerAfterHeightExact
INVARIANT LedgerQueriesAgree
INVARIANT LastClaimIsPrevious
PROPERTY GetAllAsOfStart
\* Once MaxWrites upserts are done and no GetAll runs, only GetAll remains
\* possible; the behaviour does not stop, so deadlock is checked.
