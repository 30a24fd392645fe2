\* Safety: a disk with synchronous I/O and a console, two requests.
SPECIFICATION Spec
CONSTANTS
    disk = disk
    cons = cons
    r1 = r1
    r2 = r2
    NoDev = NoDev
    NoReq = NoReq
    NoIo = NoIo
    Device <- MCDevice
    Req <- MCReq
    Channel <- MCChannel
    Chan <- MCChan
    Priority <- MCPriority
    SyncIo <- MCSyncIo
    Console <- MCConsole
    Reservable = {}
    MaxCcw = 1
    AllowSchedFail = FALSE
SYMMETRY MCSymmetry
INVARIANTS
    TypeOK
    NoPhantomBusy
    FlagQueued
    QueueOrdered
    NoLostEnd
    SummaryAccurate
    NoLostWakeup
    PickStable
