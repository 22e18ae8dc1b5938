\* Violation run: ThresholdRule.
CONSTANTS
  NONE = NONE
  Self <- MCSelf
  OldCommittee <- MCOld
  NewCommittee <- MCNew
  Strangers <- MCStrangers
  GetThreshold <- MCGetThreshold
  EpochIdx = 1
  MaxMute = 1
SPECIFICATION Spec
INVARIANT ThresholdRule
\* A session ends: Done has settled or Start failed, and no goroutine has
\* anything left to do.  A live session that gets stuck is a violation of
\* ImplementsPromise.
CHECK_DEADLOCK FALSE
