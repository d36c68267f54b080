SPECIFICATION Spec
CONSTANTS
  Nil = Nil
  Grants = {g1, g2}
  Scopes = {s1}
  ExpiryTimeTolerance = 1
  Callers = {c1}
  MainCallers = {c1}
  MaxTime = 1
  AuthorizationShapes <- MCAuthorizationShapes
  TokenShapes <- MCTokenShapes
INVARIANTS
  TokensOfCurrentGrant
