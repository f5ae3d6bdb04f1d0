SPECIFICATION SpecAll
CONSTANTS
    P = P
    Q = Q
    O1 = O1
    O2 = O2
    N1 = N1
    N2 = N2
    D1 = D1
    D2 = D2
    T1 = T1
    T2 = T2
    None = None
    NoJar = NoJar
    Malformed = Malformed
    Headers <- HeadersMC
    Jars <- JarsMC
    Batches <- MCBatches
    CodeAttribute <- MCCode
    StackMapTable <- MCFrames
    LocalVariableTable <- MCTable
    IntegralTypesOf <- MCIntegralTypesOf
PROPERTIES
    AddsWholeArchives
    SummariesActAsOneTable
INVARIANTS FramesCannotMatter StrippingKeepsTheRest HeadersStandAlone ParsingIsFaithful
CHECK_DEADLOCK FALSE
