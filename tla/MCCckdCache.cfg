\* Two entries for three tracks, so tracks are stolen and waited for.  Two tracks
\* are updated, so that one update meets the collector waiting for the other; the
\* writes of one may fail, and the reads of the third.  Both commands.
SPECIFICATION Spec
CONSTANTS
    d1 = d1
    e1 = e1
    e2 = e2
    r1 = r1
    w1 = w1
    Dev = {d1}
    Ra = {r1}
    Writer = {w1}
    Entry = {e1, e2}
    Tracks <- MCTracks
    Command <- MCBoth
    Ahead = 1
    RaQueue = 1
    FSync = TRUE
    Races = FALSE
    Written <- MCWritten
    Faulty <- MCSecond
    Fragile <- MCLast
    MaxImage = 1
    MaxPending = 2
    None = None
SYMMETRY MCSymmetry
INVARIANTS
    TypeOK
    PendingCounted
    WritesScheduled
    OneOwner
PROPERTY
    NoUpdateLost
CHECK_DEADLOCK FALSE
