CONSTANTS
    Block = {b1, b2, b3}
    Content = {zero, text}
    Zero = zero
    LogLen = 4
    MaxTxn = 3
    CrashAfter = {0}
    Checker = {r1}
    RecoverFirst = FALSE
SPECIFICATION HSpec
INVARIANTS MarkDescribesLog
