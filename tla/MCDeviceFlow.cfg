SPECIFICATION FairSpec
CONSTANTS
  Nil = Nil
  Cancellers = {c1, c2}
  MainCancellers = {c1}
  Second = 2
  MaxInterval = 12
  MaxOutstanding = 2
  Intervals <- MCIntervals
  Lifetimes <- MCLifetimes
CHECK_DEADLOCK FALSE
INVARIANTS
  TypeOK
  FlagTellsConclusion
  CodeShownBeforeGrant
  CompletedOncePerSide
PROPERTIES
  PollsArePaced
  PollingEnds
