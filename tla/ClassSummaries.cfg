CONSTANTS
    Classes <- MCClasses
    Configs <- MCConfigs
    MethodCount <- MCMethodCount
    Callers <- MCCallers
    Fields <- MCFields
    Readers <- MCReaders
    Values = {0, 1}
    NoValue <- None
    Indices = {1}
    NoIndex = 0
    Kinds = {"UnsupportedInstruction"}
    Lowered <- MCLowered
    Analysis <- MCAnalysis
SPECIFICATION FairSpec
INVARIANTS WorklistConsistent EveryMethodAnalyzed NoStaleAnalysis
    PublishedAreJustified
PROPERTIES Termination
CHECK_DEADLOCK FALSE
