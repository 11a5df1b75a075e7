\* A check that returns before the rest: the rest is run all the same.
SPECIFICATION AgentSpec
CONSTANTS
  Tools <- MCTools
  ScopedTools <- MCScopedTools
  Helpers = {"ask"}
  Context <- MCContext
  Input <- MCInput
  ParameterNames <- MCNames
  Workflows <- EarlyReturns
  Worlds <- MCWorlds
  PromptFiles = {}
  Settings <- MCSettings
  SymbolName <- MCSymbolName
  MaxSets = 2
  MaxCalls = 2
INVARIANTS
  CallsAsWritten
