SPECIFICATION HistorySpec
CONSTANTS
  Nil = Nil
  Grants = {g1, g2}
  Scopes = {s1}
  ExpiryTimeTolerance = 1
  Callers = {c1, c2, c3}
  MainCallers = {c1}
  MaxTime = 1
  AuthorizationShapes <- MCCodeFlowOnly
  TokenShapes <- MCTokenShapes
SYMMETRY Symmetry
INVARIANTS
  TypeOK
  SingleRefresh
  ActionInOnePlace
  PendingActionsAwaitRefresh
  ForcedRefreshOwed
  MixedOnlyByCrossing
  RaisesOnlyIntruded
PROPERTIES
  PromiseKept
  MainRefreshesOnlyWhenStale
  ForceEndsWithRefresh
