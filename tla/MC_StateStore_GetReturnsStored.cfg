\* Violation run: GetReturnsStored.
CONSTANTS
  k1 = k1
  k2 = k2
  v1 = v1
  v2 = v2
  EMPTY = EMPTY
  NIL = NIL
  ABSENT = ABSENT
  Keys <- MCKeys
  Vals <- MCVals

SPECIFICATION Spec

PROPERTY GetReturnsStored
\* After a nil dereference the process is gone and nothing runs.
CHECK_DEADLOCK FALSE
