SPECIFICATION FairSpec
CONSTANTS
  Nil = Nil
  f1 = f1
  x1 = x1
  i1 = i1
  i2 = i2
  c1 = c1
  c2 = c2
  Flows = {f1}
  Strangers = {x1}
  Issuers = {i1, i2}
  Clients = {c1, c2}
  ErrorNames <- MCErrorNames
  Times <- MCTimes
  IATMaxSkew = 1
  MaxTime = 2
  DiscoveryReplies <- MCDiscoveryReplies
  RegistrationReplies <- MCRegistrationReplies
  TokenReplies <- MCTokenReplies
CHECK_DEADLOCK FALSE
INVARIANTS
  TypeOK
  StateIsOfThisFlow
  RefusalIsTold
PROPERTIES
  FlowSettles
