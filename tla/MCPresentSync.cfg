SPECIFICATION FairSpec
CONSTANTS
  Request = {q1, q2}
  FirstPages = 1
  MaxPages = 2
  MaxAttempts = 1
INVARIANTS NoReportForgotten
PROPERTIES StageConverges LinkSettles
CHECK_DEADLOCK FALSE
