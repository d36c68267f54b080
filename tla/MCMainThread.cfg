SPECIFICATION FairSpec
CONSTANTS
  Nil = Nil
  Grants = {g1, g2}
  Scopes = {s1}
  ExpiryTimeTolerance = 1
  Callers = {c1, c2}
  MainCallers = {c1, c2}
  MaxTime = 1
  AuthorizationShapes <- MCCodeFlowOnly
  TokenShapes <- MCRotatingOnly
PROPERTIES
  PromiseFulfilled
