\* SQLite: microtasks of one event in FIFO order, one connection.
SPECIFICATION ChecklistSpec
CONSTANTS
  onPage0 = onPage0
  unbound = unbound
  Item = {onPage0, unbound}
  PageOf <- Pages
  Job = {j1, j2}
  MaxIndex = 2
  NoSnapshot = NoSnapshot
  Serialised = TRUE
SYMMETRY JobSymmetry
INVARIANTS HudCurrent EngineCurrent
PROPERTIES ImplementsContract UncheckSticks
CHECK_DEADLOCK FALSE
