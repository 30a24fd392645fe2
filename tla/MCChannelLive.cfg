\* Liveness and reservations: one reservable disk, channel programs of two CCWs, a scheduler that may refuse.
SPECIFICATION FairSpec
CONSTANTS
    disk = disk
    cons = cons
    r1 = r1
    r2 = r2
    NoDev = NoDev
    NoReq = NoReq
    NoIo = NoIo
    Device = {disk}
    Req <- MCReq
    Channel = {1}
    Chan <- MCChan
    Priority <- MCPriority
    SyncIo <- MCSyncIo
    Console <- MCConsole
    Reservable = {disk}
    MaxCcw = 2
    AllowSchedFail = TRUE
INVARIANTS
    ExclusiveChain
    AvailableIsFree
PROPERTIES
    StartedEnds
    WaitingWoken
    UsesScheduler
