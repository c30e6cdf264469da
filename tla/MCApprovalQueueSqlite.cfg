\* SQLite: calls of one event are over before the next event.
SPECIFICATION Spec
CONSTANTS
  Call = {c1, c2, c3, c4}
  Seed = Seed
  Suggestion = {s1, s2}
  NoSug = NoSug
  InitialPages = 2
  OriginalCount = 1
  Originals = {0}
  MaxIndex = 3
  Serialised = TRUE
SYMMETRY QueueSymmetry
PROPERTIES ImplementsFSM ShownFrozen
CHECK_DEADLOCK FALSE
