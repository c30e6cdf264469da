\* Two runtimes: a second is two frames, four seconds are three.
SPECIFICATION Spec
CONSTANTS
  MinSegment = 2
  MaxSegment = 3
  MaxFrames = 5
  MaxRuntimes = 2
INVARIANTS SpeakerTrue HeardOnce
PROPERTIES ConsentAtDelivery
CHECK_DEADLOCK FALSE
