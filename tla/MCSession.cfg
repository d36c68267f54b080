SPECIFICATION FairSpec
CONSTANTS
  Nil = Nil
  Sessions = {s1, s2}
  EndSessions = {s2}
  Agents = {a1, a2, a3, a4}
  CatalystAgents = {a2}
  MacAgents = {a3}
  CustomBrowsers = {a4}
CHECK_DEADLOCK FALSE
INVARIANTS
  TypeOK
  RaisesOnlyIfMisused
  InterfaceClosed
  AgentFreeAfterSession
PROPERTIES
  AcceptedIsAnswered
  ContractKept
