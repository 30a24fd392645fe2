\* Two devices, two thread blocks, pooled and one-time-only threads.
SPECIFICATION FairSpec
CONSTANTS
    Device = {d1, d2}
    NoDev = NoDev
    Thread = {t1, t2}
    Limits <- MCLimits
    AllowSwitch = FALSE
INVARIANTS
    TypeOK
    QueuedServed
    BlocksSound
PROPERTIES
    Implements
