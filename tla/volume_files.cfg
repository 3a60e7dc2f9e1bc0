CONSTANTS
    Groups = 2
    BlocksPerGroup = 5
    InodesPerGroup = 2
    InodesPerBlock = 2
    ByteSize = 3
    Ptrs = 2
    BlockSize = 192
    NameLen = 7
    Dots = {".", ".."}
    Name = {a, b}
    Text = {zero, text}
    Zero = zero
    MaxDepth = 3
    File <- LongFiles
    FreshNames = TRUE
    CrashInRm = FALSE
    RmFull = FALSE
SYMMETRY Symmetry
SPECIFICATION HSpec
INVARIANTS TreeInv TreeIsSeen FsckClean
