\* Violation run: ReprocessingSafe with two callers.
CONSTANTS
  t1 = t1
  t2 = t2
  t3 = t3
  c1 = c1
  c2 = c2
  NONE = NONE
  Ids <- MCIds
  AnchorOf <- MCAnchorOf
  TypeOf <- MCTypeOf
  Heights = {10, 11}
  FindMayFail = FALSE
  Statuses <- MCStatuses
  Callers = {c1, c2}
  MaxCalls = 3

SPECIFICATION Spec

PROPERTY ReprocessingSafe
\* The calls are bounded: once MaxCalls have returned nothing is enabled.
CHECK_DEADLOCK FALSE
