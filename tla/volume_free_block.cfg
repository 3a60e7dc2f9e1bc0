CONSTANTS
    Groups = 2
    BlocksPerGroup = 6
    InodesPerGroup = 4
    InodesPerBlock = 4
    ByteSize = 2
    Ptrs = 2
    BlockSize = 160
    NameLen = 7
    Dots = {}
    Name = {a, b}
    Text = {zero, text}
    Zero = zero
    MaxDepth = 2
    File <- ShortFiles
    FreshNames = TRUE
    CrashInRm = FALSE
    RmFull = FALSE
SPECIFICATION Spec
PROPERTY NoBlockMeansFull
