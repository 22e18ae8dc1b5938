\* Session as a keygen and as a sign dispatcher: TypeOK and the refinement
\* of SessionPromise (Done settles exactly once).
CONSTANTS
  s = s
  p1 = p1
  p2 = p2
  x = x
  NONE = NONE
  Participants <- MCParticipants
  Self = s
  Faulty <- MCFaulty
  Strangers <- MCStrangers
  Rounds <- MCRounds
  BcastRounds <- MCBcastRounds
  Kinds = {"keygen", "sign"}

SPECIFICATION Spec

INVARIANT TypeOK
PROPERTY ImplementsPromise
\* A session ends: Done has settled, Start failed or the process panicked,
\* and no goroutine has anything left to do.  A live session that gets stuck
\* is a violation of ImplementsPromise.
CHECK_DEADLOCK FALSE
