\* Postgres: connection handlers interleave with each other and with the end.
SPECIFICATION FairSpec
CONSTANTS
  Conn = {c1, c2, c3}
  Capture = {}
  None = None
  MaxIndex <- NoPages
  Serialised = FALSE
INVARIANTS NoGhostMember NoOrphanRuntime
PROPERTIES EventuallyReclaimed
CHECK_DEADLOCK FALSE
