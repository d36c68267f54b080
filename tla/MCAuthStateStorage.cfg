SPECIFICATION Spec
CONSTANTS
  Nil = Nil
  g1 = g1
  g2 = g2
  s1 = s1
  s2 = s2
  Grants = {g1, g2}
  Scopes = {s1, s2}
  ExpiryTimeTolerance = 1
  AuthorizationMenu <- MCAuthorizationMenu
  TokenMenu <- MCTokenMenu
  RespectsErrorState = TRUE
INVARIANTS
  TypeOK
  ArchiveCurrent
  DecodeFaithful
