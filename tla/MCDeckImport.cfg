SPECIFICATION FairSpec
CONSTANTS
  N = 4
  Lettered = {1, 2, 4}
  MaxPages = 2
  Pool = 2
  MaxAppend = 1
  MaxRestart = 1
INVARIANTS OriginalsUntouched TextOfItsPage ReadOnce
PROPERTIES EveryPageRead
CHECK_DEADLOCK FALSE
