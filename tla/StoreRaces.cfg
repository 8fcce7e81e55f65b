\* One segment, everything that can race on it: two requests, three fill tasks
\* (one storing, two behind their rename), the cleanup and a purge, a restart,
\* every failure, and downloads of two lengths.
SPECIFICATION Spec
CONSTANTS
    Requests = {r1, r2}
    Tasks = {t1, t2, t3}
    Segments = {s1}
    Lens = {1, 2}
    MaxTotal = 2
    FirstLimit = 1
    Modulus = 8
    MaxPurges = 1
    MaxCrashes = 1
    Faults = {"write", "row", "rename", "unrow", "remove", "query", "touch", "purge"}
    Undeletable = {}
    NoSegment = NoSegment
SYMMETRY Symmetry
INVARIANTS
    TypeOK
    OneFillPerSegment
    FillsMissingSegment
    FileBackedByRow
    AccountingExact
    EvictableWhenCached
PROPERTIES
    NoOverwrite
