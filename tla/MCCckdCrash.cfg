\* With fsync, which lets the collector sync the file, or find it too early to.
SPECIFICATION Spec
CONSTANTS
    t1 = t1
    t2 = t2
    Track = {t1, t2}
    Table = {1, 2}
    TableOf <- MCTwoTables
    Length = {0, 2, 3}
    First = 1
    L2Size = 2
    FreeMin = 4
    ManyFree = 2
    MaxSize = 11
    FreePend <- MCByFSync
    FSync = TRUE
INVARIANT
    CrashSafe
CHECK_DEADLOCK FALSE
