CONSTANTS
    Groups = 2
    BlocksPerGroup = 11
    InodesPerGroup = 4
    InodesPerBlock = 2
    ByteSize = 4
    Ptrs = 7
    BlockSize = 160
    NameLen = 7
    Dots = {}
    Name = {a}
    Text = {text}
    Zero = text
    MaxDepth = 2
    File <- MixedFiles
    FreshNames = FALSE
    CrashInRm = TRUE
    RmFull = FALSE
    Checker = {r1}
    MaxTools = 4
SPECIFICATION ToolsSpec
INVARIANTS ImageHoldsVolume ReadersFindVolume LogIsFound TransactionsAreShort ToolsInv
