SPECIFICATION FairSpec
CONSTANTS
  Nil = Nil
  Sessions = {s1, s2}
  MaxListeners = 2
  MaxQueue = 2
  MaxDepth = 2
CHECK_DEADLOCK FALSE
INVARIANTS
  TypeOK
  FlowServed
  OtherRedirectsStayOut
  RaisesOnlyIfEndedElsewhere
PROPERTIES
  RedirectEndsFlow
