\* A close waits for a channel program that updates nothing more.
SPECIFICATION FairSpec
CONSTANTS
    d1 = d1
    e1 = e1
    e2 = e2
    r1 = r1
    w1 = w1
    Dev = {d1}
    Ra = {}
    Writer = {w1}
    Entry = {e1, e2}
    Tracks <- MCTwo
    Command <- MCClose
    Ahead = 1
    RaQueue = 1
    FSync = FALSE
    Races = FALSE
    Written <- MCWriteOne
    Faulty = {}
    Fragile = {}
    MaxImage = 1
    MaxPending = 2
    None = None
PROPERTY
    CommandEnds
CHECK_DEADLOCK FALSE
