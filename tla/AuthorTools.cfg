\* What the author of agent files is given: diagnostics, and bindings.
SPECIFICATION ToolsSpec
CONSTANTS
    Files = {"agent", "shared"}
    Imports <- OneImport
    Texts = {"draft", "better", "panics"}
    Panicking = {"panics"}
    MaxNotes = 4
    WordsOf <- MCWordsOf
    Upper <- MCUpper
    Lower <- MCLower
    Title <- MCTitle
    Small <- MCSmall
    Dashed <- MCDashed
    Alphabet <- MCAlphabet
    AgentFiles <- MCFiles
CHECK_DEADLOCK FALSE
INVARIANTS
    LastTextReported
    SettledShowsLastText
    BindingsWellFormed
    ArgumentsDeclared
    IntentsReachHandlers
    ModelsHaveDrivers
    ArgumentsArrive
    OffersAgree
