\* One caller, four calls over three transactions: TypeOK and the
\* reprocessing guarantee of Ingest.
CONSTANTS
  t1 = t1
  t2 = t2
  t3 = t3
  c1 = c1
  c2 = c2
  NONE = NONE
  Ids <- MCIds
  AnchorOf <- MCAnchorOf
  TypeOf <- MCTypeOf
  Heights = {10, 11}
  FindMayFail = FALSE
  Statuses <- MCStatuses
  Callers = {c1}
  MaxCalls = 4

SPECIFICATION Spec

INVARIANT TypeOK
PROPERTY ReprocessingSafe
\* The calls are bounded: once MaxCalls have returned nothing is enabled.
CHECK_DEADLOCK FALSE
