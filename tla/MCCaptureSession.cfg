SPECIFICATION FairSpec
CONSTANTS
  s1 = s1
  s2 = s2
  None = None
  Start <- MCStart
  Tries = 3
  MaxSent = 3
  SlowGate = FALSE
CHECK_DEADLOCK FALSE
INVARIANTS TracksAreHeld WireAgrees
PROPERTIES ClosedStaysClosed CancelledIsReleased
