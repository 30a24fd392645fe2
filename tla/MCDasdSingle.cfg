\* One disk, opened and closed, with a cache that is created and destroyed.
SPECIFICATION Spec
CONSTANTS
    d1 = d1
    d2 = d2
    d3 = d3
    Device = {d1}
    Track = {0, 1, 2}
    NoTrack = NoTrack
    Nbr = 2
    Prefer <- MCPrefer
    Aged = TRUE
    Sync = {d1}
    Faulty = {d1}
    Fragile = {d1}
    Closing = {d1}
    Made = FALSE
INVARIANT
    UsersHaveCache
