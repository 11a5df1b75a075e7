\* Workflows of the fragment: what runs is what they say.
SPECIFICATION AgentSpec
CONSTANTS
  Tools <- MCTools
  ScopedTools <- MCScopedTools
  Helpers = {"ask"}
  Context <- MCContext
  Input <- MCInput
  ParameterNames <- MCNames
  Workflows <- AllWorkflows
  Worlds <- MCWorlds
  PromptFiles <- MCPromptFiles
  Settings <- MCSettings
  SymbolName <- MCSymbolName
  MaxSets = 2
  MaxCalls = 2
INVARIANTS
  FragmentCallsAsWritten
  ResultAsWritten
  FailsOnlyWithItsTools
  SymbolsAreTold
PROPERTIES
  PromptAsWritten
