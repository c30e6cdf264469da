\* Postgres: calls interleave with events and with each other.
SPECIFICATION FairSpec
CONSTANTS
  Call = {c1, c2, c3}
  Seed = Seed
  Suggestion = {s1, s2}
  NoSug = NoSug
  InitialPages = 1
  OriginalCount = 0
  Originals = {0}
  MaxIndex = 1
  Serialised = FALSE
INVARIANTS OneOutcome AppliedIsInDeck OnlyApproved
PROPERTIES EventuallyDecided
CHECK_DEADLOCK FALSE
