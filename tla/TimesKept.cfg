\* Two slow fetches, a listing and a fill of one segment, over a
\* change of playlist, an eviction or an error.
SPECIFICATION Spec
CONSTANTS
    Slows = {s1, s2}
    Listings = {l1}
    Fills = {f1}
    Segments = {0}
    Initial = {0}
    MaxPlaylists = 2
    MaxRounds = 2
    MaxFaults = 1
    NoActor = NoActor
    NoEntry = NoEntry
SYMMETRY Symmetry
INVARIANTS
    TimesOfOnePlaylist
    NoTimeLost
PROPERTIES
    ListingKnowsFirstTimes
    GivesUpForSlowFetch
