CONSTANTS
    Block = {b1, b2, b3}
    Content = {zero, text}
    Zero = zero
    LogLen = 4
    MaxTxn = 3
    CrashAfter = {0, 2}
    Checker = {r1, r2}
    RecoverFirst = TRUE
SPECIFICATION FairSpec
INVARIANTS TypeOK JournalInv LiveMarkIsFound NoStaleMark
PROPERTIES Atomicity WriteAhead CommitEnds RecoveryEnds
