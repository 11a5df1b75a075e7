SPECIFICATION EngineSpec
CONSTANTS
    WordsOf <- MCWordsOf
    Upper <- MCUpper
    Lower <- MCLower
    Title <- MCTitle
    Small <- MCSmall
    Dashed <- MCDashed
    Alphabet <- MCAlphabet
    AgentFiles <- MCFiles
CHECK_DEADLOCK FALSE
INVARIANT
    ToolsAreRegistered
