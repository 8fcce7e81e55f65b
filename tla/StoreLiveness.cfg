\* Two segments of one unit and room for one: a request competes with the fill
\* tasks it started, and the cleanup has to choose, from a batch that goes stale.
\* Downloads above the limit, purges and restarts are in StoreSettles.cfg.
SPECIFICATION FairSpec
CONSTANTS
    Requests = {r1}
    Tasks = {t1, t2}
    Segments = {s1, s2}
    Lens = {1}
    MaxTotal = 1
    FirstLimit = 1
    Modulus = 4
    MaxPurges = 0
    MaxCrashes = 0
    Faults = {"write"}
    Undeletable = {}
    NoSegment = NoSegment
INVARIANTS
    AccountingExact
PROPERTIES
    RequestsEnd
    
