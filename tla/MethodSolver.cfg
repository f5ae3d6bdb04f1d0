CONSTANTS
    Methods <- MCMethods
    Configs <- MCConfigs
    Frames <- MCFrames
    Blocks <- MCBlocks
    EntryBlock <- MCEntryBlock
    EntryState <- MCEntryState
    Propagations <- MCPropagations
    Reports <- MCReports
    Merge <- MCMerge
    Mismatch <- MCMismatch
    Covers <- MCCovers
SPECIFICATION FairSpec
INVARIANTS TypeOK WorklistConsistent NothingLost CompleteIsClosed
PROPERTIES StatesGrow Termination
CHECK_DEADLOCK FALSE
