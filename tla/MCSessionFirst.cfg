SPECIFICATION Spec
CONSTANTS
  Nil = Nil
  Sessions = {s1}
  EndSessions = {}
  Agents = {a1}
  CatalystAgents = {}
  MacAgents = {}
  CustomBrowsers = {}
CHECK_DEADLOCK FALSE
INVARIANTS
  FirstMessageDecides
