\* The result projection for every dispatcher kind and outcome.
CONSTANTS
  a = a
  b = b
  c = c
  s = s
  Participants <- MCParticipants
  NewParticipants <- MCNewParticipants
  SessionId = "sess-1"
  KeyId = "key-1"
  Epoch = 4
  NewEpoch = 5
  BlockHeight = 90
  NONE = NONE
SPECIFICATION Spec
INVARIANT ProjectionTable
\* A projection ends once the result is serialized.
CHECK_DEADLOCK FALSE
