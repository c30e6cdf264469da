\* SQLite: the connection handler is over before the next event.
SPECIFICATION Spec
CONSTANTS
  Conn = {c1, c2, c3}
  Capture = {c1, c2}
  None = None
  MaxIndex = 2
  Serialised = TRUE
SYMMETRY ConnSymmetry
INVARIANTS NoZombie HeadNeverBehind ConsentNotStale
CHECK_DEADLOCK FALSE
