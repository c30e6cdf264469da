SPECIFICATION Spec
CONSTANTS
  Job = {j1, j2, j3}
  Entity = {e1}
  SlideLimit = 1
  Quota = 1
  Throttle = 4
  Deadline = 2
  Reads = 1
  MaxAge = 1
  MaxChars = 3
  MaxT = 2
  SegmentChars = {1, 2}
  MaxRuntimes = 2
SYMMETRY JobSymmetry
INVARIANTS SlidesWithinLimit OneCardPerEntity NoStaleSegment
CHECK_DEADLOCK FALSE
