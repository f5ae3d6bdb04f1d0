CONSTANTS
    Batches <- MCBatches
    Configs <- MCConfigs
    ClassCount <- MCClassCount
    MethodCount <- MCMethodCount
    Callers <- MCCallers
    Values = {0, 1}
    NoValue <- None
    Indices = {1}
    NoIndex = 0
    Kinds = {"UnsupportedInstruction"}
    Analysis <- MCAnalysis
SPECIFICATION FairSpec
INVARIANTS WorklistConsistent EveryClassAnalyzed NoStaleClass
    PublishedAreJustified
PROPERTIES Termination
CHECK_DEADLOCK FALSE
