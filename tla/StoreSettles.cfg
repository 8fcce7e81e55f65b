\* One segment and what can leave its row, its file and the counter in
\* disagreement: two fills, a purge that may fail half-way, a restart, late
\* access times, and downloads above the limit that may not be stored.
SPECIFICATION FairSpec
CONSTANTS
    Requests = {r1}
    Tasks = {t1, t2}
    Segments = {s1}
    Lens = {1, 2}
    MaxTotal = 1
    FirstLimit = 1
    Modulus = 8
    MaxPurges = 1
    MaxCrashes = 1
    Faults = {"write", "purge"}
    Undeletable = {}
    NoSegment = NoSegment
PROPERTIES
    CleanupSettles
