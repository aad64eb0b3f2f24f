CONSTANTS
    PagFiles <- MCPagFiles
    PagTexts <- MCPagTexts
    PagLimits <- MCPagLimits
    PagBatches <- MCPagBatches
    PagModes = {"head", "none", "smart", "smart_text"}
    PagEnds = {0, 3}
    PagCuts <- MCPagCuts
    PagMarker = 2
    PagWindow = 2
    PagTruncLines = 2
    PagMaxBytes = 9
    PagGlobalBytes = 4
    GateCommands <- MCGateCommands
    GateContexts <- MCGateContexts
    GateDepth = 2
    GateCodes = {0, 1, 22, 124, 137}
    EditLetters = {"a", "b", "c"}
    EditCalls <- MCEditCalls
    CondGiven <- MCCondGiven
    CondResults <- MCCondResults
    CondForms <- MCCondForms
    LspCalls <- MCLspCalls
    LspNoise = 1
SPECIFICATION Spec
INVARIANTS
    PagesCover
    NestingKeepsRisk
    EditsLand
    ConditionsDecide
    AnswersOwn
PROPERTY LspEnds
CHECK_DEADLOCK FALSE
