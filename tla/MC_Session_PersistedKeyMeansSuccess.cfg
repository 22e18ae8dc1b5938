\* Violation run: PersistedKeyMeansSuccess (keygen session).
CONSTANTS
  s = s
  p1 = p1
  p2 = p2
  x = x
  NONE = NONE
  Participants <- MCParticipants
  Self = s
  Faulty <- MCFaulty
  Strangers <- MCStrangers
  Rounds <- MCRounds
  BcastRounds <- MCBcastRounds
  Kinds = {"keygen"}

SPECIFICATION Spec

INVARIANT PersistedKeyMeansSuccess
\* A session ends: Done has settled, Start failed or the process panicked,
\* and no goroutine has anything left to do.  A live session that gets stuck
\* is a violation of ImplementsPromise.
CHECK_DEADLOCK FALSE
