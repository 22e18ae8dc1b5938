\* A resharing session with new-committee keys offset by epochIdx 1.
CONSTANTS
  NONE = NONE
  Self <- MCSelf
  OldCommittee <- MCOld
  NewCommittee <- MCNew
  Strangers <- MCStrangers
  GetThreshold <- MCGetThreshold
  EpochIdx = 1
  MaxMute = 1
SPECIFICATION Spec
INVARIANT TypeOK
PROPERTY BlameSound
PROPERTY ImplementsPromise
\* A session ends: Done has settled or Start failed, and no goroutine has
\* anything left to do.  A live session that gets stuck is a violation of
\* ImplementsPromise.
CHECK_DEADLOCK FALSE
