CONSTANTS
    Groups = 1
    BlocksPerGroup = 8
    InodesPerGroup = 5
    InodesPerBlock = 5
    ByteSize = 3
    Ptrs = 2
    BlockSize = 100
    NameLen = 7
    Dots = {}
    Name = {a, b}
    Text = {zero, text}
    Zero = zero
    MaxDepth = 2
    File <- ShortFiles
    FreshNames = FALSE
    CrashInRm = TRUE
    RmFull = FALSE
SYMMETRY Symmetry
SPECIFICATION Spec
INVARIANTS TypeOK VolumeInv LeakInv ListedIsOwned FsckClean
PROPERTIES FilesAreLeftAlone
