SPECIFICATION Spec
CONSTANTS
  Nil = Nil
  Cancellers = {c1}
  MainCancellers = {c1}
  Second = 2
  MaxInterval = 12
  MaxOutstanding = 3
  Intervals <- MCIntervals
  Lifetimes <- MCLifetimes
CHECK_DEADLOCK FALSE
INVARIANTS
  CompletedAtMostOnce
