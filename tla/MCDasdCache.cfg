\* Safety: three disks share two entries; reads, writes and synchronous programs fail.
SPECIFICATION Spec
CONSTANTS
    d1 = d1
    d2 = d2
    d3 = d3
    Device = {d1, d2, d3}
    Track = {0, 1}
    NoTrack = NoTrack
    Nbr = 2
    Prefer <- MCPrefer
    Aged = FALSE
    Sync = {d2}
    Faulty = {d1}
    Fragile = {d3}
    Closing = {}
    Made = TRUE
INVARIANTS
    TypeOK
    HeldIsKept
    CountersExact
    WakeupForEachFree
    NoChangeDropped
    ImageRead
