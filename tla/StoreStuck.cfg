\* Two cached files of one unit, room for one, and neither can be deleted.
SPECIFICATION FairSpec
CONSTANTS
    Requests = {r1}
    Tasks = {t1}
    Segments = {s1, s2}
    Lens = {1}
    MaxTotal = 1
    FirstLimit = 1
    Modulus = 8
    MaxPurges = 0
    MaxCrashes = 0
    Faults = {}
    Undeletable = {s1, s2}
    NoSegment = NoSegment
PROPERTIES
    NotStuckRedeleting
