SPECIFICATION FairSpec
CONSTANTS
  l = l
  h = h
  web = web
  typed = typed
  Latin = {l}
  Han = {h}
  Text = {web, typed}
  MaxContact = 3
  Deal = {d1}
  None = None
  Job = {1, 2}
  MaxEdits = 1
  Typed <- MCTyped
  Called <- MCCalled
  Found <- MCFound
 
PROPERTIES TypedValueKept DedupeConverges OneOutcome EveryJobEnds
CHECK_DEADLOCK FALSE
