\* A shadow file may be added while a readahead reads.
SPECIFICATION Spec
CONSTANTS
    d1 = d1
    e1 = e1
    e2 = e2
    r1 = r1
    w1 = w1
    Dev = {d1}
    Ra = {r1}
    Writer = {w1}
    Entry = {e1, e2}
    Tracks <- MCTracks
    Command <- MCShadow
    Ahead = 1
    RaQueue = 1
    FSync = FALSE
    Races = TRUE
    Written <- MCWritten
    Faulty = {}
    Fragile = {}
    MaxImage = 1
    MaxPending = 2
    None = None
PROPERTY
    NoUpdateLost
CHECK_DEADLOCK FALSE
