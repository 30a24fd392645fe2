\* Three devices of two priorities, three threads, every limit.  A wait may return
\* unsignalled until devtwait has passed the limit of idle threads.
SPECIFICATION FairSpec
CONSTANTS
    d3 = d3
    Device = {d1, d2, d3}
    NoDev = NoDev
    Thread = {t1, t2, t3}
    Priority <- MCPriority
    Limits <- MCLimits
    IdleMax = 1
    AllowSwitch = FALSE
    AllowLastFail = FALSE
    Spurious = TRUE
    MaxWait = 2
INVARIANTS
    TypeOK
    QueueSound
    QueueServed
PROPERTIES
    Implements
    UrgentExecuted
